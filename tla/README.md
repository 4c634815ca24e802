# A verification project for RunCPM

RunCPM runs CP/M 2.2 programs: it emulates a Z80, catches the calls programs
make to the BDOS and BIOS, and carries them out on host files, one folder per
drive and one sub-folder per user area. This directory holds TLA+ models of
what those calls do, TLC instances that check them, and TLAPS proofs about
them.

Paths are relative to `src/RunCPM/`. The configuration modelled is the
repository's default on a POSIX host: `USE_PUN`, `USE_LST` and `BATCHA` defined,
a TPA of 60K, no Lua. The CCP is a program as any other (the DR CCP of the
default build) in the modules on the disk calls, and the internal one of
`ccp.h`, in the build without `HASLUA`, in `InternalCcp`. `HostFiles` and
`HostSearch` set the layer below beside those of the Windows and Arduino builds.

## 1. The system

| Part | State it keeps | Operations | Interacts with |
|---|---|---|---|
| Z80 CPU (`cpu.h`) | registers, flags, `PCX`, `Status` | `Z80run`, one case per opcode; `IN`/`OUT` enter the BDOS and BIOS | memory; calls `_Bdos`, `_Bios` and waits for them |
| Memory (`ram.h`, `globals.h`) | `RAM[64K]`; page zero holds RAM[4], FCBs and DMA buffers are at any address | read, write, load | everything |
| BDOS console calls (`cpm.h` 1-11, `console.h`) | the line buffer in memory, the character mask | read, write, line input, status | host terminal |
| Punch and list devices (`cpm.h` calls 4, 5) | `pun_dev`, `pun_open`, `lst_dev`, `lst_open`: streams open across calls | print; closed by delete, flushed by the main loop | host stdio, `_DeleteFile`, `main` |
| BDOS disk calls (`cpm.h` 13-40, 249; `disk.h`) | `cDrive`, `oDrive`, `userCode`, `loginVector`, `roVector`, `dmaAddr`; the position bytes of FCBs, in the program's memory | reset, select, open, close, make, delete, rename, read and write sequential and random, size, set random, user, write-protect | host files, `Status` |
| Directory search (`disk.h`, `abstraction_posix.h`) | globals `filename`, `pattern`, `dirPos`, `allUsers`, `allExtents`, `fileRecords`, `fileExtents`, `fileExtentsUsed`, `tmpFCB` | search first, search next; used inside delete and reset | host directory listing, the DMA buffer |
| POSIX file layer (`posix.h`) | none: every call opens and closes the file | one function per host operation | host file system |
| Main loop (`main.c`, `_PatchCPM`) | `Status` between CPU runs | patch page zero, load and run the CCP, flush devices | all |
| Internal CCP (`ccp.h`, not the default) | `curDrive`, `curUser`, `sFlag`, FCBs | command line, built-in commands, submit files, program loading | a client of the BDOS calls |
| System pages (`_PatchCPM`) | the jumps at 0 and 5, the jump tables and the stubs behind them | written at every boot | executed by the CPU; the only way from a program to `_Bdos` and `_Bios` |
| Windows and Arduino file layers (`abstraction_vstudio.h`, `abstraction_arduino.h`) | a search handle; open folders of an SD card | the same functions as the POSIX layer | Windows' files, an SD card |
| Debugger, logging, Lua | | | |

The emulator is single-threaded, and a BDOS call runs to its end before the
program goes on. What makes it hard to test is elsewhere:

* **Any order of calls.** A program may make any calls in any order through
  any number of FCBs, and the position of a file is only a few bytes in the
  program's memory, split over `cr`, `ex` and `s2` with a flag among them.
* **State left from one call to the next.** The old drive an error falls back
  to, the search globals, the streams of the devices, RAM[4] across boots.
* **The host acts too.** Its user adds and removes files between the calls of a
  search and inside the loop of a delete; it may refuse an open or a remove, and
  lose a buffered write.
* **Failure in the middle.** An error ends in a warm boot from within a call
  that has already changed the current drive, or made a folder.
* **Boundaries.** The last record of an extent, of a module and of the largest
  file; a file too long for one directory entry; counters of 8 and 16 bits.
* **Shortcuts of the CPU.** Registers are C ints that are masked late or never,
  flags come from tables indexed by the carries of a sum, special cases stand
  beside the general ones, and four copies of each instruction group (plain, CB,
  DD, FD) must agree.

What makes each part correct:

* disk calls: an FCB behaves as a handle on an array of records; failed calls
  leave the files alone; calls change files of one folder only; no order of
  errors and boots leaves the system on a drive that is not there;
* directory search: a search returns each matching file once, with the entries
  CP/M would hold; a delete removes what matches, no more and no less, and
  returns, if it can remove it;
* devices: what is printed reaches the device's file, and is there after a
  warm boot;
* console input: the buffer holds what the keys typed, never more than asked,
  and the screen shows it;
* CCP: a program starts from the file it should, in the drive and user area of
  its prompt; a submit ends when its file is lost; a boot that is asked for
  happens; the CCP goes back to a drive that is there;
* CPU: the bytes at PC are decoded to the instruction they are, and each
  instruction leaves the registers, the documented flags and memory as the Z80
  does, however its register pairs have run out of their 16 bits and wherever in
  the 64K it and its operands are;
* the ports: programs see the same files on every host, a write that says it is
  done is done, and a search finds what is there;
* the way into the system: the jumps and stubs that programs call lead to the
  function of their entry, and the call comes back behind itself.

## 2. The modules

| Module | Models | Extends |
|---|---|---|
| `FcbPosition` | the record number in an FCB: step, seek, inverse | |
| `BdosDisk` | drives, user areas, errors, warm boot, the file calls | `FcbPosition` |
| `RecordFile` | abstract: one file as an array of records with plain positions | |
| `BdosRecordFile` | `BdosDisk` as an implementation of `RecordFile` (refinement mapping) | `BdosDisk`, instance of `RecordFile` |
| `BdosClaims` | what the readme says that the disk calls do not do | `BdosDisk` |
| `InternalCcp` | the internal CCP and the main loop, as a client of the disk calls | `BdosDisk` |
| `DirSearch` | search first and next, the delete loop, directory entries | |
| `HostFiles` | the file layer on three kinds of host, in step | |
| `HostSearch` | directory search on the three | `HostFiles` |
| `HostClaims` | what comments say of the Windows search that it does not do | `HostSearch` |
| `LineEditor` | abstract: a line of input edited as a sequence | |
| `LineInput` | call 10 key by key, and the calls that take one key | instance of `LineEditor` |
| `PrintDevices` | calls 4 and 5, the close in delete, the flush at a boot | |
| `Z80Alu` | the tables of `cpu.h`, arithmetic, `DAA`, shifts, with their flags | |
| `Z80Instructions` | decoded instructions, their operands and their length | |
| `Z80Decode` | the switches of `Z80run` as tables | `Z80Instructions` |
| `Z80Cpu` | `Z80run` on registers kept as ints, with the system calls | `Z80Alu`, `Z80Decode` |
| `Z80Arch` | abstract: the processor, on registers that are bytes, with a decoder of its own | `Z80Instructions` |
| `Z80Refinement` | `Z80Cpu` as an implementation of `Z80Arch` (refinement mapping) | `Z80Cpu`, instance of `Z80Arch` |
| `SystemPages` | the jumps and stubs of `_PatchCPM`, and what a call through them promises | `Z80Refinement` |
| `BdosDiskProofs`, `DirSearchProofs`, `HostProofs`, `InternalCcpProofs`, `LineInputProofs`, `PrintDevicesProofs`, `Z80Proofs`, `Z80RefinementProofs` | theorems and proofs | the modules they are named after; `BdosDiskProofs` has those of `FcbPosition` and `BdosRecordFile`; `HostProofs` extends `HostSearch`, `InternalCcpProofs` also `BdosDiskProofs`; `Z80Proofs` the refinement, and `Z80RefinementProofs` it |
| `MCRecordFile`, `MCBdosClaims`, `MCInternalCcp`, `MCDirSearch`, `MCHosts`, `MCLineInput`, `MCPrintDevices`, `MCZ80Cpu` | instances for TLC | the modules they are named after; `MCZ80Cpu` the system pages, `MCHosts` `HostClaims` |

Operators whose name describes a defect (`AdvanceLate`, `ScanSkips`,
`ClosesNone`, ...) are variants that stand next to the definition they vary and
are used by nothing: put one in the place of the original and the run named in
section 3 finds the property violated. They record which mistakes each
property is there to catch.

### FcbPosition

`_ReadSeq` computes a byte offset from `s2 & MaxS2`, `ex` and `cr`
(`SeqRecord`), and after the transfer increments `cr`, carrying into `ex` and
`s2` (`Advance`). `cr` runs up to 128 before it carries, so the last record of
an extent leaves `cr = 128`, not 0: two encodings of one position. `_ReadRand`
splits the random record into the same bytes (`Seek`), and `_SetRandom` puts
them together again (`RandomRecord`). Widths are constants, so the instances
can cross every boundary and the proofs hold for the source's values.

### BdosDisk

Variables have the source's names. `fcb` is the bytes of the FCBs in memory,
`mem` the DMA buffers, `ram4` RAM[4], `files` the host file behind each
`<<drive, user, name>>` with its length *in bytes*, because `_FileSize` and
`fread` round it differently.

One action is one call, with the host operations it makes. Each file call is
the disjunction of its outcomes: the drive cannot be selected
(`SelectError`, the call of `_SelectDisk` that every one starts with); it is
write-protected (`ReadOnlyError`); the file is not there; it runs to its end.
`BdosError` is `_error`: fall back to `oDrive`, in `cDrive` and RAM[4], and set
`Status` to 2, which stops the CPU and, in `WarmBoot`, restarts the CCP.
`Program` is what a program does to its own memory between calls.

The write-protect test is modelled as it is: the `RW` macro tests the bit
numbered by the FCB's `dr` byte (section 4). `fseek` past the end of a file
succeeds, as it does on POSIX, so the source's branches for error 6 are never
taken. A host write is buffered and its loss is not seen: with `HostMayFail`
a write may report success and store nothing.

Left out: the `?` drive of a search, the search globals (both in `DirSearch`),
console output of `_error`.

### RecordFile and BdosRecordFile

`RecordFile` is what a program may rely on: a size, records, a position per
handle that is a number, a buffer. It knows no extents, modules, flags, host
files or byte lengths. What the code makes of the edges is part of the promise
and is said there openly: the position after the last record of the largest
file is record 1 (`NextPos`), a random record past it leaves the position
modulo `Capacity`, and an open goes back to the first module. The mapping of
`BdosRecordFile` takes `Records` (length rounded up) for the size and
`SeqRecord(fcb[f])` for the position.

### InternalCcp

The CCP calls `_Bdos` as a C function, one call after another. One step is one
such call, with the assignments before it and with its result; `pc` names the
call that comes next, and the calls are the actions of `BdosDisk`, so that
everything a call does to drives, files and FCBs is there. What the module
adds are the globals of `ccp.h`, and the parts of `_ccp` in their order:
`Reset` and `Home` (the two selects at a start), `Prompt`, `_ccp_readInput`
(`OpenBatch` to `DropBatch`, or a typed line), `Parse`, the built-in commands,
`_ccp_ext` (`Open` to `Lost`: the places a program is looked for, the load
record by record, the user area that is set aside and put back), `Check` at
the end of the loop, and `Boot`, where `main` comes in again. `ProgramCall` is a
program: any call of `BdosDisk` through its FCB.

A command line is one value, and `Meaning` is what it parses to, so that a
record of a submit file and a typed line are the same kind of thing; all that
`_ccp_nameToFCB` and its helpers do to characters is in it, and so are the two
widths a number goes through (`Entry`: SAVE's in 16 bits, USER's in 8). The TPA
is `TpaRecords` buffers of a record each.

### HostFiles and HostSearch

`disk.h` calls the same `_sys_` functions and `_findfirst` on every host. An
action of `HostFiles` is one such call, made on the three hosts at once, each with
its own files, buffer and result, from the same files at first. A file is its
bytes. stdio seeks past the end of a file and buffers what is written, so that
nobody hears of a full disk; the SD library refuses the seek, so the Arduino
layer first writes the bytes that are missing (`Extended`), in a loop whose bound
is an unsigned difference read again on every turn (`Turns`), and hears of a full
card. `agreed` becomes false at a call the hosts are known to answer differently:
a rename to a name that is taken (POSIX replaces the file, the others refuse), a
write to a full disk, a cut beyond the end of a file, and the making of a drive,
whose test of `mkdir` is inverted on POSIX only. The model ends there, and
`HostsAgree` says that nothing else tells the hosts apart but the reason a read
beyond the end gets nothing (1, 4 or 6).

`HostSearch` adds the searches of the three: an index into a listing made anew
from the global `filename` (POSIX), a handle, with the `filename` counted up to
the next user area (Windows), open folders (card). File calls overwrite the
`filename`; `Disturbs` says when that turns a search elsewhere, and such a search
is no longer followed. Files do not come or go while a search is followed: that
is what `DirSearch` models, for POSIX. `WantedOn` is what a search asks for, from
its drive, areas and names alone; what Windows falls short of is stated as an
exception in `SearchesExact`, and as a claim of the code's own comments, which the
code does not keep, in `HostClaims`.

### LineEditor and LineInput

`LineEditor` is a sequence of characters with a limit: add, rub, clear, end,
give up for a boot. `LineInput` is call 10 as the code does it, one key a
step, over bytes of memory: the count stored only at the end, the limit byte
read from memory again on `^U` and `^X`, the address `i` wrapping with
`WORD16`. `keys` is the type-ahead, which `Press` extends between any two steps;
`row` is what the terminal shows. The mapping takes the text behind `i` for the
line.

### DirSearch

One drive. A name is a number in the order of the host's listing, a pattern
the set of names it matches. `dirPos` is an index into a listing that
`_findnext` makes anew on every call: the listing is the set of files there are
(`Listing`), an entry's index the number of entries before it (`Place`), and the
loop stops at the first hit behind `dirPos` (`Scan`). A file that needs more
than one directory entry is returned again while `fileRecords` is not zero
(`NextExtent`, `Rest`), with the extent number split over `ex` and `s2`
(`DirEntry`).

`DeleteFirst` and `DeleteNext` are the delete loop, one iteration a step, so
that the host's user can act inside it. The remove of an iteration may fail
(`Removes`): because the file is gone, because the host refuses (`locked`, which
`HostLock` changes), or because the match lies in another user area, where a delete
with `?` for a drive searches as well but does not remove (`Victim`). The loop then
searches again all the same. `HostAdd` and `HostRemove` may also come between any
two calls. `OtherCall` stands for the effect every other file
call has on the global `filename`, which tells `_findnext` where to look.
`ResetDisks` is call 13's search for `$` files.

History variables hold the program's view: `heard` is what the search
returned, `stable` the files there all along, `gone` and `come` what the host
did since. `phase` becomes `none` when another call redirects the search.

Left out: allocation block numbers, which are made up and compared with nothing;
names in lower case on the host, which the readme tells users not to have.

### PrintDevices

Names (`names`) and the files behind them (`data`) are apart, because a stream
stays on its file when the name is renamed or removed. `open` is `pun_open` and
`lst_open`; `dev` says whether the pointer is NULL, a live stream, or one that
was closed and dangles: `_DeleteFile` clears the flag and not the pointer. A
stream has a position and a buffer of `Size` characters. `crashed` is the
outcome of handing stdio a pointer it cannot take: `fclose(NULL)` after an
open that failed, and `fflush` of a dangling pointer at a warm boot, which may
also do nothing.

### Z80Alu, Z80Instructions, Z80Decode, Z80Cpu, SystemPages

`Z80Alu` has no state. A flag byte is the set of its flags, a table of `cpu.h`
the formula its comment (`cpu.h:94-119`) gives, which the numbers in the tables
agree with; `Add8`, `Sub8` and the rest find their flags as the code does, from
the bits of `acu ^ temp ^ sum` (`Cbits`). The shortcuts for A with itself are
`Arith8Self`.

`Z80Cpu` has one action per group of cases that share their code; `DD` and `FD`
instructions are those of the plain group with another operand. `reg` holds the
ints of the source as they are: `INC B` adds 0x100 to `BC` and never masks,
`LD B,D` copies what has run out above `DE`'s 16 bits, `ADD HL,BC` masks its
operands and not its sum. An int is an integer here; the source's wraps at 2^32,
which no mask shows.

`code` is a stream of decoded instructions, and when it is empty `Fetch` decodes
the four bytes at PC, with the tables of `Z80Decode`: one table for each stretch
of case labels of the five switches, the `DD` and `FD` ones kept apart as the
source keeps them apart. An instruction is one of `Instructions`, the operands each
case is written for. `RAM` is a window of memory, of ten bytes around the
end of memory or of the system's pages in the instance; an instruction whose
bytes or operands leave it is not taken.

`IN` calls the BDOS and `OUT` the BIOS, whatever the port (`InPort`, `OutPort`,
`BlockPort`, whose loops call once for every byte). `BdosAnswers` and
`BiosAnswers` are what the calls leave in registers, `Status` and the I/O byte:
the result in HL and its halves in B and A, C made equal to E, and for the BIOS
the function picked by the low byte of `PCX`, where the `OUT` itself is. A word
or key a call may answer is any of `Results`. What a call does to files, to
devices and to its buffers is in the modules on those calls, and that memory
stays as it is here.

`SystemPages` has the bytes `_PatchCPM` writes and a small program that calls an
entry. Everything on the way from the `CALL` to the instruction behind it is then
executed by the model: the jump in page zero, the jump table, the stub with its
`IN` or `OUT`, the call, the `RET`.

### Z80Arch and Z80Refinement

`Z80Arch` is the Z80 of its documentation: registers are bytes, PC and SP wrap, a
flag is a statement about numbers (P after an addition: the sum of the signed
operands is outside -128 .. 127), a block copy is a statement about memory before
and after, and the two undocumented bits of F may become anything. It has no
table, no carry trick and no mask. It decodes in octal, from the fields of the
opcode (`Decoded`): what the thousand case labels of the source are to agree
with. `Z80Refinement` reads the registers through
`HIGH_REGISTER`, `LOW_REGISTER` and `ADDRMASK`; that every step of the code is a
step of the processor under this mapping is `ImplementsZ80`.

## 3. The runs

| Run | Distinct states | Properties | Variant that breaks it |
|---|---|---|---|
| `record_file` | 237,648 | `TypeOK`, `ImplementsRecordFile`, `SetRandomFollows` | `AdvanceLate`, `SeekInModule`, `RandomRecordInModule` |
| `search` | 110,270 | `MissesBounded`, `RepeatsBounded`, `DeleteExact`, `DeleteReturns` | `ScanSkips`, `ScanStays`, `FindAgainOnwards`, `FindAgainStale` |
| `entries` | 303,808 | `TypeOK`, `EntriesRight` | `ExtentFieldsFlat`, `RestForgetful` |
| `devices` | 611,372 | `TypeOK`, `PrintedKept`, `FlushedAtBoot`, `PrintsToItsName` | `ClosedLeftOpen`, `OpensAlways`, `BootFlushesNone`, `ClosesNone` |
| `line_input` | 162,948 | `TypeOK`, `RoomLeft`, `RowShowsLine`, `WritesBuffer`, `EndedLineAnswered`, `ImplementsLineEditor` | `RubOutAlways`, `FullLate`, `EraseRow`, `SlotAfter`, `EndLineUnlessEmpty`, `SlotBefore` |
| `ccp` | 1,884,156 | `CcpTypeOK`, `FilesInAreas`, `StartsFromFile`, `SavesPages`, `PendingBoot` | `LoadRecordUnbounded`, `MakeFileAnywhere`, `LoadDmaLate`, `SaveWriteShort`, `CheckEndOnly` |
| `hosts` | 63,567 | `HostsAgree`, `WritesTold`, `SearchesExact` | `TurnsDown`, `WriteCardUnchecked`, `CardFirstHere` |
| `ccp_programs` | 478,711 | `DriveExists`, `HomeExists`, `StartsAtPrompt`, `StaleLineEndsSubmit`, `FailureLeavesFiles`, `ChangesOneFolder`, `CommandEnds` | `SelectKeepsFailure` (both), `LoadedElsewhere`, `DropKeepsFlag`, `DeleteReportsSearch`, `NewPathOwnDrive`, `TypeUntilError` |
| `cpu` | 342,011 | `TypeOK`, `SystemCallsAnswer`, `ImplementsZ80` | `StoreUnmasked`, `BiosAnswersAtPC`, `CopyAtOnce` |

**record_file** (`MCRecordFile.cfg`). One drive, area and name; one FCB, which
is also the batch FCB, so that a close may cut the file. Two records an extent,
two extents a module, two modules, so sequential calls cross every boundary and
run off the end of the largest file; random calls go to record 0, both sides of
a module boundary, the last record and the first one past it; host files may
end inside a record (`BlkSZ = 2`). `Undisturbed` keeps at most one record
different from `Zero`: the calls copy records and never compute on them, so one
mark is enough to see a record go to the wrong place. `SetRandomFollows` says
call 36 gives the record the next sequential call uses, but at the end of an
extent (section 4).

**search** (`MCSearch.cfg`). Two parts of one instance, of at most two host changes
(`MaxChanges`) each; the constraint `OneAreaOrTwo` explores their states, and a step
out of them is still checked. Searches: four names, one of them a folder, two patterns, one
user area (`OneArea`). Two changes are enough for an addition and a removal on both
sides of the index. `MissesBounded` and `RepeatsBounded` say what a program can rely
on when the listing moves under the index: it misses no more files than the host
removed and repeats no more than it added, so with none of either it is exact.

Deletes: two names in two user areas (`TwoAreas`), with files that come or go between
an iteration's search and its remove, and removes that the host refuses, for a while
or for good. `DeleteExact` says that a delete does not return while a match is there,
and, if no file comes or goes, is the step `BdosDisk` takes for a whole delete, also
when removes fail on the way. `DeleteReturns` is liveness: the delete returns, or it
comes to a match that it cannot remove. That is the one thing that keeps it from
returning; without that alternative a host that refuses one remove would refute it
(section 4). This part has no searches, which meet deletes only through their
globals, and no host changes before a delete begins, as the initial files are any.

**entries** (`MCEntries.cfg`). Files of zero, one, two and five extents
(extents of two records, two extents an entry, `MaxEX = 1`, so the extent number
carries into `s2`), three user areas, one of them outside the searched ones, no
host changes. `EntriesRight` compares what was heard with the entries CP/M
has, defined from the length alone (`CpmEntries`), for files that `fileRecords` can
count; the one it cannot is in section 4.

**devices** (`MCPrintDevices.cfg`). Two devices, one other name, two places,
three files on the host, two characters a printing with a buffer of one, so
that buffers spill. The devices are not interchangeable: a boot flushes the punch
first, a delete closes the printer first, and they may share a file.

**line_input** (`MCLineInput.cfg`). A memory of six bytes, in which the
longest buffer just fits, at every address: most buffers run past the end of
memory. Limits from none to the largest value of a byte, here 3, every control
key, two characters, up to two keys typed
ahead (`MaxAhead`). Two keys are enough for a key to come before the call that
reads it and another while it is read. The count, which is only a byte, meets
its largest value at once. `EndedLineAnswered` says that a typed return ends the
call, whatever was typed before it.

**ccp** (`MCCcp.cfg`). Seventeen lines: every command, a program named with and
without its drive, a SAVE to the other drive, an ERA of every name, the drive that
is not there, USER 256 and SAVE 256, of which any is typed or is in a submit file of
one or two lines. A program of three records, one more than the TPA holds, on A:,
and another of the same name on B:. Programs end at once. `FilesInAreas` needs a
user area made on one drive and a file made on the other, which takes three lines.
`PendingBoot` says where the boot an error asked for may be passed over, and by that
that it is passed over nowhere else.

**ccp_programs** (`MCCcpPrograms.cfg`). The same system with three lines and
programs that make one call (`MaxCalls`): any select, user area, protect, make,
delete, rename, read or write, through the parameter FCB as the CCP left it. One is
enough to take the submit file away, to leave another drive or user area behind, or
to fail. The host may lose a write. Calls of one program after another are what `record_file`
is about, and the theorems. `FailureLeavesFiles` and `ChangesOneFolder` are about
the calls of both, the delete of the submit file among them. The
constraint `FewFiles`, of both, explores at most two files and one place with a
user area 1; steps out of it are still checked, and for `CommandEnds` the
behaviours that leave it are not followed further. Three drives: two exist, and
the third is missing until a program makes it, and lies beyond the vectors
(`VectorBits = 2`). `DriveExists` says that the drive in use, the one an error would
fall back to, the one the CCP would select and every drive in the active drive map
have folders; the hard case is `ResetDisks`, which sets `cDrive` and not `oDrive`.
That it holds whatever the calls is theorem `DrivesCorrect`.

**hosts** (`MCHosts.cfg`). One drive, three user areas, the last without a
hexadecimal digit, two names, records of two bytes and extents of two records,
files of an odd number of bytes among them, no room left on the disk, less than a
record, one, or enough for any write. `Explored` is the part of the states that is
looked at: file calls in one user area, of which one file has bytes, or searches
among up to two empty files of all areas, with calls in between that answer 0 and
so bring no other result. It is a conjunct of the next-state relation of the
instance. `WritesTold` asks on every state of every write there could be next.
`SearchesExact` asks whether each host's search returned the files it was asked
for, none twice, and on POSIX and the card, for all users, with the user area of
each. Windows, looking in all areas, may leave out files behind a missing area, and
nothing else, and need not tell the area: both against its comments, as a
further run shows (`claim_all_users`, section 4).

**cpu** (`MCZ80Cpu.cfg`). Families of short programs, each from registers and
memory at the edges. `Accumulators`: every value of A, and for `DAA`
(`Decimals`) every set of the flags it reads. `Operations`: every A against
operands at the edges of digits, signs and bytes. `Bytes`: every value of a high
register, a low register and memory. `Sums`: two 16-bit additions in a row, the
second on the unmasked result of the first. `After`: every other instruction
behind one that runs a pair over or under, with all pairs at 0 or 0xffff, so
that stack, jumps and indexed operands pass the end of memory. `Blocks`: blocks
of up to three bytes at every pair of addresses in the window, hence overlapping
in every way. `Opcodes` and `Repeated`: every opcode, plain and behind each
prefix and behind `DD CB` and `FD CB`, fetched from the last bytes of memory with
operands that lie on both sides of its end, decoded and executed. `Ports`: every
`IN`, `OUT` and block of one or two transfers, at an address for each BIOS
function and with C naming each kind of BDOS call. `BiosCalls` and `BdosCalls`:
a program that calls an entry of the BIOS, or the BDOS with a function number,
through the pages of `_PatchCPM`.

Two instructions are enough because a step depends on what came before only
through the ints it left. Three bounds keep out what section 4 reports and what
is too long: words are stored below 0xffff, `LD A,I` does not follow `LD I,A`, and
no repeated block I/O starts with B = 0, its 256 transfers being the loop of its
two.

The runs that say `CHECK_DEADLOCK FALSE` do so because the system may stop: a
program may end RunCPM (`Status` 1), stdio may crash it, the CPU's program comes
to its end, the hosts go their own ways, and the instances' bounds on host
changes, printed characters and files end some behaviours. The two runs of the CCP
have an action for the end of RunCPM (`Ended`) and check that nothing else stops.

Bounds that appear in guards: `MaxChanges`, `MaxPrinted`, `MaxAhead`, `MaxCalls`,
`Explored` and `File` (in `Unused # {}`). The rest of each instance's size comes from its
constants, `Results` among them.

**Fairness.** Three conditions, each of a C function that goes on by itself
because nothing else runs until it returns: `WF_vars(DeleteNext)`, a delete that
has begun; `WF_vars(ReadKey)`, the loop of call 10 when there is a key;
`WF_allVars(CcpStep)`, the CCP between the user's line and a program. Programs,
users and hosts owe nothing. `DeleteReturns` holds because the host's changes
are finitely many and each iteration otherwise removes a file, until there is no
match left or only such as it cannot remove. An iteration that removes nothing and
finds the same match again leaves the state as it was, so the loop without an end is a
stutter that `WF_vars(DeleteNext)` does not exclude, and should not. `CommandEnds`
holds because a read comes to the end of its file, and a load to the end of the
TPA or the file.

## 4. Where the code and its texts disagree

Each of these runs checks one sentence of the repository and TLC refutes it.

* `claim_protect` (`disk.h:20`): "It supports making "disks" read-only"
  (readme). Call 28 sets the bit numbered by the current drive (A: is 0); the
  `RW` macro tests the bit numbered by the FCB's `dr` (A: is 1, 0 is the
  default). Protect A:, and a program that names A: in its FCB still writes.
* `claim_truncate` (`ccp.h:514`): "Prepare the file to be truncated", "And
  truncates it" (comments at `ccp.h:513-514`). `F_OPEN` marks the FCB unmodified
  (`disk.h:287`), a read leaves the mark, and `_CloseFile` looks for the batch file
  only behind the test of the mark (`disk.h:306`): the submit file keeps its
  records, and a submit of two lines or more runs its last line for ever.
* `claim_all_users`, two faults in one counterexample. "This needs to be improved to
  it doesn't stop searching once there's an user area gap" (comment,
  `abstraction_vstudio.h:302`): `NextUserArea` opens the next area's folder; if it is
  not there `_findnext` ends, and later areas are not looked at. "set user code for
  return" (comment, `disk.h:202`): `_mockupDirEntry` puts `currFindUser` in the entry
  of a search for all users. The POSIX and Arduino layers set it
  (`abstraction_posix.h:69`, `abstraction_arduino.h:399`), the Windows layer never does.
  With a file in area 1, another in area 3 and no folder of area 2, the search returns
  the first as user 0's and is over.

Met while modelling, and visible in the modules, though no text of the
repository says otherwise.

Disk calls. Set random (`disk.h:569`) after the last record of an extent, where
`cr` is 128, is short by a whole extent; theorem `RandomRecordFits` says this is
the only case. `_FileSize` rounds -1 up to 128, so the size of a file that is not
there is one record, with success (`disk.h:265`). `mkdir` returns 0 when it
succeeds, which the source takes for failure: a new drive has no user area 0, and
the call reports `0xfe` (`posix.h:297`). The error-6 branches are dead on POSIX and
the FCB moves modulo the largest file; a sequential write past that file's end
leaves `s2` above `MaxS2` and goes on at record 1; a write lost by the host is
reported as done; the delete loop ends neither if the host will not remove a
match nor, with `?` for a drive, if there is one in another user area (`disk.h:407`
looks at the result of a remove only for what to report; `DeleteReturns` names the
case and `DeleteExact` says that there is no other way out); a file of 65,536
records, the largest CP/M has, is listed as empty, because `fileRecords` is 16 bits (`RecordSpan` in `DirSearch`).

Devices. Erase a `PUN.TXT` on any drive and the punch is closed; the next
character opens A:'s file with `"wb"` and cuts it. The two stdio crashes of
`PrintDevices`.

Hosts. `_sys_writerand` and `_sys_writeseq` report success when the disk is full, but on the
card; POSIX searches find nothing in user areas 16 to 31, the others do.

CCP. It calls `_Bdos` whatever `Status` is, and the lines after which the loop
continues do not look at it: the boot a failed drive select asks for comes at
the next line that does, or never, if that line is a program, because
`Z80reset` clears `Status`. If the batch file cannot be opened the line in `inBuf`
is run again. Any file whose name starts with `$` is taken for a submit file, and
deleted when it is empty. A program too large for the TPA is started after "No
Memory" with what was loaded. USER takes 256 for 0, and SAVE counts its pages in
16 bits; SAVE looks at no result of a write, and leaves the tail of a longer file
that had the name. A drive a program selected stays selected when it returns with
`RET`, and not after a warm boot.

Line input. `^R` reads RAM unmasked, behind its end if the buffer passes it; its
loop over a byte ends only because the count is less than 255 (`RoomLeft`). After
`^E` a rub-out erases on the wrong row. At the end of the host's input `getchar`
gives 0xff for ever and the call does not return, which is a key here that is
`ignored`.

CPU. `PUT_WORD` (`cpu.h:1122`) does not mask, so the second byte of a word stored at
0xffff falls behind RAM and not on address 0. `LD I,A` keeps all of AF above its low
byte, all of which `LD A,I` (`cpu.h:3602`) then tests for its zero flag. `DD CB` with a
register in its last three bits works on that register alone, as the
source's own table of mnemonics says; a Z80 works on memory and copies the
result. An `OUT` at an address whose low byte is 0 ends RunCPM. Comments at
`cpm.h:9-10` have `IN` and `OUT` the wrong way round. A `HALT` returns from `Z80run`
with `Status` 0.

## 5. What is proved

All proofs are for every value of the constants that satisfies the named
assumptions: `WidthAssumption` and `SpanAssumption` (what `globals.h` makes
true of the widths), `DriveAssumption` and `FileAssumption` (drive 0 and user 0
exist; lengths fit), `SearchAssumption` of `DirSearch` and of
`HostSearch` (users, names and, for the hosts, drives are finite; users and names
are numbers, which orders them; the users a search is for are users, a pattern is
a set of names), `DeviceAssumption`, `MemoryAssumption` (memory is
larger than the longest buffer, characters are not counts), `CcpAssumption` (the
CCP's FCBs are different, the TPA's records are the DMA buffers), `HostAssumption`
(the position of every record fits in the type of file sizes), and for the CPU
`StartsAssumption` and `ResultsAssumption` (what Z80run starts from has its types). TLC
evaluates each of them in the runs.

**Positions** (`BdosDiskProofs`). `AdvanceNext`: a step moves to the next
record and keeps the bytes in range. `SeekThere`: a random call leaves the
sequential position at its record, modulo `Capacity`. `RandomRecordFits`: set
random gives the position, but for the case of section 4; `SetRandomRight` is the
same of the call. They rest on lemmas
about quotients and remainders (`Division`, `DivisionUnique`,
`DivisionNested`), proved from multiplication because the widths are unknown.

**Types and folders** (`BdosDiskProofs`). `TypeCorrect`, one lemma per call.
`DrivesCorrect` and `FilesCorrect`: neither `DriveExists` nor `FilesInAreas` is
inductive. A return to the CCP makes RAM[4] drive A:, and a call may fall back
to it: one must know that A: exists (`0 \in disks`). A file made in a user area
is in an existing drive only if areas are in drives. `FoldersInv` is the two
with these two facts, and is preserved by every step. `FailureIsClean` and
`CallsKeepToOneFolder` are the two action properties, from the type invariant
and a case analysis of the calls.

**Refinement** (`BdosDiskProofs`). `RecordFileImplemented`:
`Spec => ImplementsRecordFile`, under the hypothesis `OneFileOnly`, that there is one
file and the host loses no write, which TLC evaluates in the run. The initial states map to initial states; each
call that succeeds maps to its abstract action, a call that fails and every
system call to a stutter. The arithmetic is in `WholeRecords` and
`WithRecordRecords` (byte lengths against records) and in the theorems on
positions; `OneFile` reduces paths to the one file there is. The type invariant
is the only invariant it needs.

**The internal CCP** (`InternalCcpProofs`). Seven properties, for every number of
drives, size of the TPA, meaning of lines and program. The composition is used:
a step of the CCP is a call of `BdosDisk`, so `TypeCorrect`'s lemmas serve here, and
`FoldersInv` is preserved. `CcpTypeCorrect` is the type invariant with what each
value of `pc` implies of the rest (`CcpInv`): that a load stays in the TPA is the
place of `addr` in `loading` and `dmaLoad`. `CcpHomeExists` follows from `FoldersInv`
once it is known that the prompt stores the drive of the BDOS.
`CcpStartsAtPrompt` needs where the drive and the user area are at each `pc`
(`PlaceInv`), hence that the calls of the CCP's search and of its submit file do
not move the drive when they fail. A failing call falls back to `oDrive`, which
call 13 leaves on another drive: `ProtectInv` says that then the drive is A: and
nothing else can be protected, and `BatchInv` that the batch FCB names A:, whose
folder exists. `CcpStaleLine` is `LineInv`: a line not read again comes with a
submit that is over.
`CcpStartsFromFile` is an invariant about the search and the load
together (`FoundInv`): at each place, that the earlier ones had no such file; at
each record, that the position of the FCB is the record in memory and all below
it are there, for which it uses `AdvanceNext`.
`CcpPendingBoot` needs that nothing fails between a boot and the prompt, which
is `CcpHomeExists` again: `PendingInv`. `CcpSavesPages` is the load turned round
(`SaveInv`): between the make and the close of SAVE no call can fail, since the drive
was found and nothing protects it on the way; the FCB is at the record to be
written, in the first module whether or not the write flagged it (`FirstModule`);
and the records below it hold the TPA's. That a write leaves the other records
alone is `StoreOne`.

**Directory search** (`DirSearchProofs`). All five safety properties, for every set
of files, patterns and folders, every mix of calls and host changes, and every
size of records, extents and entries. A listing is made anew under an index, so
the argument is about places: they follow the order of names (`PlaceOrder`), and a
file that comes or goes moves the others by one place at most (`PlaceShift`). A call
skips nothing behind the index that it should return (`ScanRight`).
`TypeCorrect` needs that the counters agree with each other (`CountersInv`), or the
record count of an entry would not fit its byte. `DeletesExactly` rests on
`DeleteInv`: what is in `tmpFCB` is a match, which is there unless the host took it
away, and what is gone since the delete began matched, unless there is a match in
another user area (`Elsewhere`): then a remove may take a file that no search
lists, but no remove takes that match away, and the loop does not return. A delete
that returns has just found nothing, so no match is left; what it had found before,
which was there, it has removed, so it reports success.
`MissesAreBounded`: the property speaks of the end of a search; the invariant
`MissInv` is that the files passed over so far (`Missed`: wanted, not returned, and no
longer behind the index) are no more than the host removed, since one removal moves
only the file just behind the index to the other side of it. `RepeatsAreBounded` is
the mirror image, where a file added moves one that was returned back in front of
the index (`Ahead`); `RepeatInv` counts those with the repeats there were, because
each of them may become one. `EntriesAreRight` needs, for a host that does
nothing, that no returned file lies ahead (`RepeatInv` again), so that the entries of
a file come in one run, and that after k of them the counters hold what is left of
the file after k full entries (`EntryInv`, `RestAfter`); the arithmetic is in
`RestOfFile` and `EntryOfFile`, from the bounds that define a quotient rounded up
(`CeilDivBounds`).

**Line input** (`LineInputProofs`). `TypeCorrect`, `RoomCorrect` (the limit is the
one in memory and the count is below it), `BufferOnly` from it, and
`LineEditorImplemented`: `Spec => ImplementsLineEditor`. All of them are about
addresses modulo the size of memory; the lemmas are that two places of the
buffer differ, which is where memory must be larger than the longest buffer.
`RowCorrect` is about what the keys echo: `RowInv` has, besides the property, that
what was on the row at the prompt stays a row, from which the erasures of `^U` and
`^X` and of the rub-outs take off just the line.

**Devices** (`PrintDevicesProofs`). `DevicesPrintToTheirNames`:
`PrintsToItsName` is preserved only together with two facts, that a live stream
counts as open (or a delete of its name would not close it) and that its file
has a number (or the delete would not find the name): `StreamsInv`. `PrintedIsKept`,
`BootFlushesAll` and `TypeCorrect` follow from `PrintInv`: a device that was not
overrun is the only one to write to its file (`SoleWriter`), its buffer goes to the
end of that file, and file and buffer make up what it printed (`AllKept`); after a
boot its buffer is empty (`BootedEmpty`). `SoleWriter` is what the model's history
variable `overrun` is for: the flush of one device leaves the file of the other
(`FlushedOneData`) unless they share it, and two come to share one only through
a rename and a new printing.

**Hosts** (`HostProofs`). `HostsAgreeAlways` and `WritesToldAlways`, for every room
left on the disk and every size of file. The invariant is `HostInv`: `HostsAgree`,
and that files and buffers hold bytes. Three lemmas carry it: `TurnsRight`, the
loop of `_sys_extendfile` stops just where the file ends at the position
(the difference it counts to is a large unsigned number until then, which needs
`HostAssumption`); `OverlayGrown`, a record written behind a gap that was filled
first is the record written over the gap, which is the difference between the card and stdio;
and `ReadSame`, a read the card cannot seek to gets nothing elsewhere either.
Each call then has a lemma that its outcomes have their types, and one that
they are the same on the hosts (`AnsweredInv` puts the two together).

`SearchesExactAlways`, for any number of drives, user areas and names and anything
a program looks for. The listings are orders by rank, and `InOrderRight` says that
one goes through its files, each once (the ranks are distinct and within the number
of files, so none is left out). `FollowInv` says where the search of each host is:
what it has returned is what its listing holds up to its place (`PosixAt`,
`CardAt`), and on Windows, looking in all areas, all of the areas before the one
in the `filename`, every one of which is there (`WindowsAt`). `PosixStepRight`,
`CardStepRight` and `WindowsStepRight`: a step returns a file within the reach of
that host (`Reached`) and not yet returned, and one that returns none has returned
all of those; the last needs `GapRight`, that `NextUserArea` stops at the next area
with a file or at the first that is not there. What is within reach is what is wanted
(`WantedOn`), on Windows short of what lies behind a missing area: since a file's
own area is there, a file out of reach has one missing before it. The other half is `FollowedKept`: a file name written over
`filename` does no harm unless `Disturbs` says so, nor does a folder made on another
drive. That a file lies in a folder that is there, and that Windows has the folders
POSIX has while the model runs (`HostInv`), are part of it (`CallFolders`).

**CPU** (`Z80Proofs`: the instructions, group by group; `Z80RefinementProofs`: ports,
types, decoding and the refinement). That the code's shortcuts are right for every operand, and
from ints that have run any distance out of their range. `AddCorrect` and
`SubCorrect`: the table entry picked by `acu ^ temp ^ sum` has the documented
flags of `Z80Arch`; the argument is one lemma per bit of the carries
(`SumBit16`, `SumBit128`, `SumBit256` and their `Difference` counterparts) and
one that `Cbits` keeps those bits. The other theorems are about steps: under the
refinement mapping, an instruction of the group is the step of `Z80Arch`.

| Theorem | Instructions |
|---|---|
| `LoadCorrect`, `LoadWordCorrect` | `LD` of bytes and of words |
| `PushCorrect`, `PopCorrect`, `ExchangeCorrect` | the stack, `EX`, `EXX` |
| `ArithmeticCorrect`, `AccumulatorCorrect` | `ADD` to `CP` and their shortcuts; `DAA`, `NEG`, `CPL`, `SCF`, `CCF`, `RLCA` to `RRA` |
| `CountCorrect`, `Count16Correct` | `INC` and `DEC` of bytes and of pairs |
| `SumWordCorrect` | `ADD`, `ADC`, `SBC` of pairs |
| `BitsCorrect` | the `CB` prefix |
| `JumpCorrect`, `DjnzCorrect` | jumps, calls, returns, `DJNZ` |
| `SpecialCorrect`, `ControlCorrect` | loads of I and R; `NOP`, `IM`, `DI`, `EI` |
| `RotateDigitCorrect` | `RRD`, `RLD` |
| `CopyCorrect`, `SearchCorrect` | `LDI` to `LDDR`, `CPI` to `CPDR` |
| `PortCorrect` | `IN`, `OUT` and their block instructions |

They rest on `LateHigh` and `LateWord` (counting in an int counts modulo 256 and
65536 below the masks), `PairWord` (a masked pair is the pair of the processor, F as
its flags included), `RegisterPut` and `StoreCorrect` (a byte stored with
`SET_HIGH_REGISTER` and `SET_LOW_REGISTER` changes the other half of no pair) and one
lemma that a table entry is the documented result for each operation.

The loops of the block instructions need an induction over the bytes they have done,
and the library's induction theorems cannot be instantiated. `LeastNumber` takes its
place: a set of numbers that is not empty has a least one (`WFMin`), so if a fact
about the loop failed for some count it would fail for a least one, which its step
refutes. For a copy the fact is a closed form (`BlockCopied`): after `n` bytes a cell
holds what the last byte copied there was when it was copied, which is right also when
the block overlaps itself and when it runs around the end of memory over the bytes
still to be read. For a search it is that no place before the one it stopped at had
A's value, which makes that place the one the code's model chooses. For a block
instruction of ports it is that the states after 0, 1, ... `n` calls exist as a
function (`TraceExists`) and are all states a call can leave (`TraceTyped`).

*Types.* `TypeCorrect` is `TypeOK` for every start, every window of memory and every
answer of the system. Two things in it took work. Registers are ints and memory is
bytes because every store masks (`StoreTyped`, `CopiedTyped`), and a call leaves IX,
IY, SP, PC and the flags alone (`Unmoved`, `BdosTyped`, `BiosTyped`). And `code` holds
instructions: `Instructions` is what the cases of `Z80run` are written for (a `PUSH` of
a pair that has a `PUSH`, no load from memory to memory, a bit number below 8), and
`DecodedInstruction` shows that any four bytes decode to one of them. The step theorems
assume `TypeOK` and an instruction of that set, so they hold of what is executed.

*Decoding.* `DecodeCorrect`: for every four bytes the thousand case labels of the
source give the instruction that the octal fields of the opcode give. Rows that have no
pattern are compared entry by entry (`SameRow00` to `SameRowF0`, `SameEd1`, `SameEd2`),
the quarters that have one through their columns. For `DD` and `FD` the switches of the
source are shown to be one table (`TwoTables`), and that table to be the plain one with
the index register in the place of HL, its memory or its halves, and nothing where that
changes nothing (`Row00Taken` to `RowF0Taken`, `LoadsTaken`, `OnATaken`).

*The refinement.* `ExecuteCorrect`, `PortCorrect`, `FetchCorrect` and `HaltCorrect` make
up `StepCorrect`, and `Implements` is `Spec => ImplementsZ80` with one hypothesis, that
`[](code # <<>> => Undisputed)`: the program stores no word at the last address and
does not execute `LD A,I` after `LD I,A` has left more than 16 bits in the int. Both
are what section 4 reports, and without either of them the refinement fails. The
programs of the run meet the hypothesis. `Starts`, `Results` and the memory
are constants: `StartsAssumption` asks that addresses are 16-bit numbers, that the
interrupt flip-flops are both set or both not, and that a start has the types of the
state, `ResultsAssumption` that an answer is a word.

**Only model-checked.** `SystemCallsAnswer`, about the bytes of one program. The
liveness properties `DeleteReturns`, `EndedLineAnswered` and `CommandEnds`: these
provers do neither fairness nor `ENABLED`. The refutations of section 4.

## 6. What is not modelled

* The debugger, the disassembler and logging (`cpu.h:884-1444`, `debug.h`): they
  print, in `DEBUG` builds only. Read, and not modelled: `Disasm` takes the
  displacement of a `DD CB` instruction for its opcode (`cpu.h:1233`).
* Memory accessors (`ram.h`): an array.
* Lua (`luah.h`) and the vendored interpreter: BDOS calls and memory for Lua
  scripts, behind `HASLUA`, which the default build does not define. The
  interpreter is third-party code; it is most of the lines of C in the tree.
* Of the Arduino and Visual Studio builds the consoles, the start-up of the
  boards (`RunCPM.ino`, `hardware/`) and Lua; of Windows the long file names a search
  skips. The DOS build, which uses `posix.h` with a search of its own.
* The CCP binaries and disk images: CP/M programs, represented by the
  nondeterministic program, or by the internal CCP.
* In the modules that are there: allocation block numbers of a directory entry,
  what DIR and the errors print, the text of a command line, the loading of the
  CCP binary. BDOS calls 2, 9 and 11 write or look at the terminal and keep no
  state. An int is an integer; the source's wraps at 2^32, which no mask shows.

## 7. Running it

    tlc -config MCRecordFile.cfg MCRecordFile.tla
    tlc -config MCSearch.cfg MCDirSearch.tla
    tlc -config MCEntries.cfg MCDirSearch.tla
    tlc -config MCPrintDevices.cfg MCPrintDevices.tla
    tlc -config MCLineInput.cfg MCLineInput.tla
    tlc -config MCCcp.cfg MCInternalCcp.tla
    tlc -config MCCcpPrograms.cfg MCInternalCcp.tla
    tlc -config MCZ80Cpu.cfg MCZ80Cpu.tla
    tlc -config MCHosts.cfg MCHosts.tla
    tlapm BdosDiskProofs.tla     # and the other *Proofs.tla

The refutations: `ClaimProtect` with `MCBdosClaims.tla`, `ClaimTruncate` with
`MCInternalCcp.tla`, `ClaimAllUsers` with `MCHosts.tla`.

## 8. Plan

In the order of what matters most to programs; the first nine are done.

1. Disk calls, their position arithmetic and the refinement to `RecordFile`, with
   type, folder and refinement theorems.
2. Directory search and the delete loop.
3. Devices, with the theorems on names and on what is kept.
4. The CPU and its refinement to `Z80Arch`, with the theorems on addition and
   subtraction and a step theorem for each group of instructions.
5. Decoding, `IN` and `OUT` with the system calls, and the system pages.
6. Line input, its refinement to `LineEditor`, both proved.
7. The internal CCP with the disk calls, and its theorems.
8. The three hosts beside each other, with the theorems on files, writes and searches.
9. The whole CPU: the step theorems left, the block instructions and ports, decoding,
   the types, and the refinement as a theorem.
10. `BdosDisk` with the delete of `DirSearch`: the loop implements the one step,
   with the host idle.
11. The internal CCP with the loops of `DirSearch` in ERA and DIR.
12. The lengths of the disassembler against those of `Z80Instructions`.
