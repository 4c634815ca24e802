----------------------------- MODULE InternalCcp -----------------------------
(***************************************************************************)
(* RunCPM's internal console command processor and the main loop around it *)
(* (RunCPM/ccp.h, RunCPM/main.c), composed with the BDOS it calls.         *)
(*                                                                         *)
(* The CCP calls the BDOS as a C function, one call after another, whether *)
(* or not an earlier one failed and asked for a warm boot.  A step here is *)
(* one BDOS call, with what the CCP does before it and with its result; pc *)
(* names the call that comes next.                                         *)
(*                                                                         *)
(* Abstractions.  A command line is a value, the same that a record of     *)
(* $$$.SUB holds, and Meaning says what the line parses to.  A buffer is   *)
(* a number: 0 is the default DMA address and 1, 2, ... are the records    *)
(* from defLoad up, so that mem holds the loaded program.  What goes to    *)
(* the console is left out.                                                *)
(***************************************************************************)
EXTENDS BdosDisk, Sequences

CONSTANTS
    CmdFCB, ParFCB,  \* the CCP's FCBs for the command and for its parameter
    Line,            \* the lines a user may type
    Meaning,         \* what a line parses to, for every value of a record
    TpaRecords,      \* records that fit between defLoad and BDOSjmppage
    InitFiles,       \* host files at power-on
    MaxCalls         \* bound on the calls of one run of a program

\* op is the built-in command, or ext for a program; drive and name are those
\* of the command, parDrive and parName of its parameter, newName the name REN
\* gives and number what USER and SAVE read.
Commands ==
    [op : {"blank", "comment", "bad", "select", "DIR", "ERA", "TYPE", "SAVE", "REN",
           "USER", "CLS", "EXIT", "ext"},
     drive : DriveByte, name : Name, parDrive : DriveByte, parName : Name,
     newName : Name, number : Nat]

ASSUME CcpAssumption ==
    /\ {BatchFCB, CmdFCB, ParFCB} \subseteq Fcb
    /\ BatchFCB # CmdFCB /\ BatchFCB # ParFCB /\ CmdFCB # ParFCB
    /\ Line \subseteq Value
    /\ TpaRecords \in 1..(BlkS2 - 1) /\ DefDMA = 0 /\ Buffer = 0..TpaRecords
    /\ Meaning \in [Value -> Commands]
    /\ \A v \in Value : /\ Meaning[v].op = "select" => Meaning[v].drive # 0
                        /\ Meaning[v].op = "USER" /\ Meaning[v].number % 256 < 16
                              => Meaning[v].number % 256 \in User
                        /\ Meaning[v].op = "SAVE" => (Meaning[v].number % 65536) * 2 <= TpaRecords
                                                     \/ Meaning[v].number % 65536 >= 256
    /\ InitFiles \subseteq {g \in [FileId -> HostFile] :
                              \A id \in FileId : g[id].len >= 0 => id[1] \in InitDisks /\ id[2] = 0}
    /\ MaxCalls \in Nat

VARIABLES
    pc,        \* the call that comes next
    curDrive,  \* current drive of the CCP, not reset by a boot
    curUser,   \* current user area of the CCP
    sFlag,     \* a submit file is being run
    line,      \* the line in inBuf
    fresh,     \* history: it was read since the prompt was last shown
    user,      \* user area _ccp_ext has left for user 0; 0 if it has not
    addr,      \* loadAddr of _ccp_ext and dma of _ccp_save, as a buffer
    calls      \* calls the running program has made

ccpVars == <<pc, curDrive, curUser, sFlag, line, fresh, user, addr, calls>>
allVars == <<vars, ccpVars>>

\* The command being run.
Command == Meaning[line]

\* An FCB as _ccp_initFCB and _ccp_nameToFCB leave it.
Named(d, n) == [FreshFcb(n) EXCEPT !.dr = d]

-----------------------------------------------------------------------------
(* Starting and prompting.                                                 *)

\* The main loop enters the CCP again: page zero is patched and Status cleared.
Boot ==
    /\ pc = "boot" /\ WarmBoot /\ pc' = "reset"
    /\ UNCHANGED <<curDrive, curUser, sFlag, line, fresh, user, addr, calls>>

\* DRV_ALLRESET, whose result says that there is a submit file.
Reset ==
    /\ pc = "reset" /\ ResetDisks
    /\ sFlag' = (hl' = 255) /\ pc' = "home"
    /\ UNCHANGED <<curDrive, curUser, line, fresh, user, addr, calls>>

\* DRV_SET to the drive of the last prompt.
Home ==
    /\ pc = "home" /\ SelectDisk(curDrive) /\ pc' = "batch"
    /\ UNCHANGED <<curDrive, curUser, sFlag, line, fresh, user, addr, calls>>

\* The FCB that _CheckSUB left in tmpFCB becomes the batch FCB: the first name
\* found on A: that starts with $.  (If there is none it is the pattern of the
\* search, which nothing uses while sFlag is off.)
TakeBatch ==
    LET found == {n \in SubName : userCode \in SearchUsers /\ Exists(<<0, userCode, n>>)}
    IN  /\ pc = "batch" /\ pc' = "prompt"
        /\ IF found = {} THEN UNCHANGED fcb
           ELSE \E n \in found : fcb' = [fcb EXCEPT ![BatchFCB] = Named(1, n)]
        /\ UNCHANGED <<Status, driveVars, hostVars, dmaAddr, mem, hl,
                       curDrive, curUser, sFlag, line, fresh, user, addr, calls>>

\* DRV_GET and F_USERNUM, and the drive is recorded at RAM[4].
Prompt ==
    /\ pc = "prompt"
    /\ curDrive' = cDrive /\ curUser' = userCode /\ ram4' = cDrive /\ fresh' = FALSE
    /\ pc' = IF sFlag THEN "openBatch" ELSE "console"
    /\ UNCHANGED <<Status, cDrive, oDrive, userCode, loginVector, roVector, hostVars,
                   dataVars, hl, sFlag, line, user, addr, calls>>

-----------------------------------------------------------------------------
(* _ccp_readInput.                                                         *)

\* C_READSTR: the user types a line.
ReadConsole ==
    /\ pc = "console" /\ line' \in Line /\ fresh' = TRUE /\ pc' = "parse"
    /\ UNCHANGED <<vars, curDrive, curUser, sFlag, user, addr, calls>>

\* F_OPEN of the batch file.  If that fails, or finds no record, no line is read.
OpenBatch ==
    /\ pc = "openBatch" /\ OpenFile(BatchFCB)
    /\ pc' = IF hl' = 0 /\ fcb'[BatchFCB].rc > 0 THEN "seekBatch" ELSE "dropBatch"
    /\ UNCHANGED <<curDrive, curUser, sFlag, line, fresh, user, addr, calls>>

\* The last record is the next to read; F_DMAOFF.
SeekBatch ==
    /\ pc = "seekBatch" /\ pc' = "readBatch"
    /\ fcb' = [fcb EXCEPT ![BatchFCB].cr = fcb[BatchFCB].rc - 1]
    /\ dmaAddr' = DefDMA /\ hl' = 0
    /\ UNCHANGED <<Status, driveVars, hostVars, mem,
                   curDrive, curUser, sFlag, line, fresh, user, addr, calls>>

\* F_READ, its result not looked at.
ReadBatch ==
    /\ pc = "readBatch" /\ ReadSeq(BatchFCB) /\ pc' = "takeLine"
    /\ UNCHANGED <<curDrive, curUser, sFlag, line, fresh, user, addr, calls>>

\* The record becomes the line, and the record count goes down in the FCB.
TakeLine ==
    /\ pc = "takeLine" /\ line' = mem[DefDMA] /\ fresh' = TRUE /\ pc' = "closeBatch"
    /\ fcb' = [fcb EXCEPT ![BatchFCB].rc = @ - 1]
    /\ UNCHANGED <<Status, driveVars, hostVars, dmaAddr, mem, hl,
                   curDrive, curUser, sFlag, user, addr, calls>>

\* F_CLOSE.
CloseBatch ==
    /\ pc = "closeBatch" /\ CloseFile(BatchFCB)
    /\ pc' = IF fcb[BatchFCB].rc = 0 THEN "dropBatch" ELSE "parse"
    /\ UNCHANGED <<curDrive, curUser, sFlag, line, fresh, user, addr, calls>>

\* A drop that leaves the submit flag set.
DropKeepsFlag ==
    /\ pc = "dropBatch" /\ DeleteFile(BatchFCB) /\ pc' = "parse"
    /\ UNCHANGED <<curDrive, curUser, sFlag, line, fresh, user, addr, calls>>

\* F_DELETE of the batch file, of which no record is left.
DropBatch ==
    /\ pc = "dropBatch" /\ DeleteFile(BatchFCB) /\ sFlag' = FALSE /\ pc' = "parse"
    /\ UNCHANGED <<curDrive, curUser, line, fresh, user, addr, calls>>

-----------------------------------------------------------------------------
(* Parsing.                                                                *)

\* Where each command starts.  SAVE refuses 256 pages or more, in 16 bits; USER
\* keeps 8 bits of its number.
Entry(c) ==
    CASE c.op \in {"comment", "bad"} -> "prompt"
      [] c.op \in {"blank", "CLS"}   -> "check"
      [] c.op = "select"             -> "select"
      [] c.op = "DIR"                -> "dir"
      [] c.op = "ERA"                -> "era"
      [] c.op = "TYPE"               -> "openType"
      [] c.op = "SAVE"               -> IF c.number % 65536 < 256 THEN "make" ELSE "check"
      [] c.op = "REN"                -> "rename"
      [] c.op = "USER"               -> IF c.number % 256 < 16 THEN "user" ELSE "check"
      [] c.op = "EXIT"               -> "exit"
      [] c.op = "ext"                -> "open"

\* F_DMAOFF; the FCBs of the command and of its parameter are set up, and the
\* line goes to the default buffer.  A line that is blank, a comment or no
\* command leaves them alone.
Parse ==
    /\ pc = "parse" /\ pc' = Entry(Command) /\ dmaAddr' = DefDMA /\ hl' = 0
    /\ IF Command.op \in {"blank", "comment", "bad", "select"}
         THEN UNCHANGED <<fcb, mem>>
         ELSE /\ fcb' = [fcb EXCEPT
                           ![CmdFCB] = Named(Command.drive, Command.name),
                           ![ParFCB] = Named(Command.parDrive, Command.parName)]
              /\ mem' = [mem EXCEPT ![DefDMA] = line]
    /\ UNCHANGED <<Status, driveVars, hostVars,
                   curDrive, curUser, sFlag, line, fresh, user, addr, calls>>

-----------------------------------------------------------------------------
(* Built-in commands.                                                      *)

\* A drive select.  The loop is continued: nothing looks at Status.
Select ==
    /\ pc = "select" /\ SelectDisk(Command.drive - 1) /\ pc' = "prompt"
    /\ UNCHANGED <<curDrive, curUser, sFlag, line, fresh, user, addr, calls>>

\* DIR: the search selects the drive and leaves a directory entry, here any
\* record, in the default buffer if it finds a file.
Dir ==
    /\ pc = "dir" /\ pc' = "check"
    /\ \/ SelectError(ParFCB)
       \/ /\ Selected(ParFCB, IF Matches(ParFCB) = {} THEN 255 ELSE 0)
          /\ mem' = IF Matches(ParFCB) = {} THEN mem ELSE [mem EXCEPT ![DefDMA] = Zero]
          /\ UNCHANGED <<files, fcb>>
    /\ UNCHANGED <<curDrive, curUser, sFlag, line, fresh, user, addr, calls>>

\* ERA and DEL.
Era ==
    /\ pc = "era" /\ DeleteFile(ParFCB) /\ pc' = "check"
    /\ UNCHANGED <<curDrive, curUser, sFlag, line, fresh, user, addr, calls>>

\* TYPE: open, then read until a read fails or the user stops at a full page.
OpenType ==
    /\ pc = "openType" /\ OpenFile(ParFCB)
    /\ pc' = IF hl' = 0 THEN "type" ELSE "check"
    /\ UNCHANGED <<curDrive, curUser, sFlag, line, fresh, user, addr, calls>>

\* A TYPE that stops only where the host reports an error.
TypeUntilError ==
    /\ pc = "type" /\ ReadSeq(ParFCB)
    /\ pc' = IF hl' = 16 THEN "check" ELSE "type"
    /\ UNCHANGED <<curDrive, curUser, sFlag, line, fresh, user, addr, calls>>

Type ==
    /\ pc = "type" /\ ReadSeq(ParFCB)
    /\ pc' \in IF hl' = 0 THEN {"type", "check"} ELSE {"check"}
    /\ UNCHANGED <<curDrive, curUser, sFlag, line, fresh, user, addr, calls>>

\* REN: the names are swapped first, so that the old one is in ParFCB.
Rename ==
    /\ pc = "rename" /\ RenameFile(ParFCB, Command.newName, 0) /\ pc' = "check"
    /\ UNCHANGED <<curDrive, curUser, sFlag, line, fresh, user, addr, calls>>

\* USER.
UserCommand ==
    /\ pc = "user" /\ SetUser(Command.number % 256) /\ pc' = "check"
    /\ curUser' = Command.number % 256
    /\ UNCHANGED <<curDrive, sFlag, line, fresh, user, addr, calls>>

\* EXIT.
Exit ==
    /\ pc = "exit" /\ Status' = 1 /\ pc' = "check"
    /\ UNCHANGED <<driveVars, hostVars, dataVars, hl,
                   curDrive, curUser, sFlag, line, fresh, user, addr, calls>>

-----------------------------------------------------------------------------
(* SAVE.                                                                   *)

\* Two records to a page.
Pages == 2 * (Command.number % 65536)

\* F_MAKE and F_OPEN, each of which ends the command if it fails.
SaveMake ==
    /\ pc = "make" /\ MakeFile(ParFCB)
    /\ pc' = IF hl' = 0 THEN "openSave" ELSE "check"
    /\ UNCHANGED <<curDrive, curUser, sFlag, line, fresh, user, addr, calls>>

SaveOpen ==
    /\ pc = "openSave" /\ OpenFile(ParFCB) /\ addr' = 1
    /\ pc' = IF hl' # 0 THEN "check" ELSE IF Pages = 0 THEN "saved" ELSE "dmaSave"
    /\ UNCHANGED <<curDrive, curUser, sFlag, line, fresh, user, calls>>

SaveDma ==
    /\ pc = "dmaSave" /\ SetDma(addr) /\ pc' = "write"
    /\ UNCHANGED <<curDrive, curUser, sFlag, line, fresh, user, addr, calls>>

\* A write of one record too few.
SaveWriteShort ==
    /\ pc = "write" /\ WriteSeq(ParFCB) /\ addr' = addr + 1
    /\ pc' = IF addr + 1 < Pages THEN "dmaSave" ELSE "saved"
    /\ UNCHANGED <<curDrive, curUser, sFlag, line, fresh, user, calls>>

\* F_WRITE, its result not looked at.
SaveWrite ==
    /\ pc = "write" /\ WriteSeq(ParFCB) /\ addr' = addr + 1
    /\ pc' = IF addr < Pages THEN "dmaSave" ELSE "saved"
    /\ UNCHANGED <<curDrive, curUser, sFlag, line, fresh, user, calls>>

SaveClose ==
    /\ pc = "saved" /\ CloseFile(ParFCB) /\ pc' = "check"
    /\ UNCHANGED <<curDrive, curUser, sFlag, line, fresh, user, addr, calls>>

-----------------------------------------------------------------------------
(* Programs: _ccp_ext.                                                     *)

\* F_OPEN as typed.  A program that names its drive is sought nowhere else.
Open ==
    /\ pc = "open" /\ OpenFile(CmdFCB)
    /\ pc' = IF hl' = 0 THEN "load"
             ELSE IF Command.drive # 0 THEN "lost" ELSE "driveA"
    /\ UNCHANGED <<curDrive, curUser, sFlag, line, fresh, user, addr, calls>>

\* The FCB names drive A:.
DriveA ==
    /\ pc = "driveA" /\ fcb' = [fcb EXCEPT ![CmdFCB].dr = 1]
    /\ pc' = IF curUser # 0 THEN "user0" ELSE "openA"
    /\ UNCHANGED <<Status, driveVars, hostVars, dmaAddr, mem, hl,
                   curDrive, curUser, sFlag, line, fresh, user, addr, calls>>

\* The current user is saved and user 0 set.
UserZero ==
    /\ pc = "user0" /\ SetUser(0) /\ user' = curUser /\ pc' = "openA"
    /\ UNCHANGED <<curDrive, curUser, sFlag, line, fresh, addr, calls>>

OpenA ==
    /\ pc = "openA" /\ OpenFile(CmdFCB)
    /\ pc' = IF hl' = 0 THEN "load" ELSE IF curUser # 0 THEN "driveHome" ELSE "lost"
    /\ UNCHANGED <<curDrive, curUser, sFlag, line, fresh, user, addr, calls>>

\* The FCB names the current drive again, still in user 0.
DriveHome ==
    /\ pc = "driveHome" /\ fcb' = [fcb EXCEPT ![CmdFCB].dr = 0] /\ pc' = "openHome"
    /\ UNCHANGED <<Status, driveVars, hostVars, dmaAddr, mem, hl,
                   curDrive, curUser, sFlag, line, fresh, user, addr, calls>>

OpenHome ==
    /\ pc = "openHome" /\ OpenFile(CmdFCB)
    /\ pc' = IF hl' = 0 THEN "load" ELSE "lost"
    /\ UNCHANGED <<curDrive, curUser, sFlag, line, fresh, user, addr, calls>>

\* F_DMAOFF to defLoad, for the first record.
Load ==
    /\ pc = "load" /\ SetDma(1) /\ addr' = 1 /\ pc' = "loading"
    /\ UNCHANGED <<curDrive, curUser, sFlag, line, fresh, user, calls>>

\* A load that does not stop below the BDOS.
LoadRecordUnbounded ==
    /\ pc = "loading" /\ ReadSeq(CmdFCB)
    /\ addr' = IF hl' = 0 THEN addr + 1 ELSE addr
    /\ pc' = IF hl' = 0 THEN "dmaLoad" ELSE "loaded"
    /\ UNCHANGED <<curDrive, curUser, sFlag, line, fresh, user, calls>>

\* F_READ until it fails or the next record would not fit: the program is
\* started even so, after "No Memory".
LoadRecord ==
    /\ pc = "loading" /\ ReadSeq(CmdFCB)
    /\ addr' = IF hl' = 0 THEN addr + 1 ELSE addr
    /\ pc' = IF hl' = 0 /\ addr + 1 <= TpaRecords THEN "dmaLoad" ELSE "loaded"
    /\ UNCHANGED <<curDrive, curUser, sFlag, line, fresh, user, calls>>

\* A load that sets the DMA address before it moves loadAddr.
LoadDmaLate ==
    /\ pc = "dmaLoad" /\ SetDma(addr - 1) /\ pc' = "loading"
    /\ UNCHANGED <<curDrive, curUser, sFlag, line, fresh, user, addr, calls>>

LoadDma ==
    /\ pc = "dmaLoad" /\ SetDma(addr) /\ pc' = "loading"
    /\ UNCHANGED <<curDrive, curUser, sFlag, line, fresh, user, addr, calls>>

\* The end of a load that forgets the user area.
LoadedElsewhere ==
    /\ pc = "loaded" /\ SetDma(DefDMA) /\ pc' = "start"
    /\ UNCHANGED <<curDrive, curUser, sFlag, line, fresh, user, addr, calls>>

\* F_DMAOFF to the default buffer.
Loaded ==
    /\ pc = "loaded" /\ SetDma(DefDMA)
    /\ pc' = IF user # 0 THEN "userBack" ELSE "start"
    /\ UNCHANGED <<curDrive, curUser, sFlag, line, fresh, user, addr, calls>>

\* The user area is set back before the program starts.
UserBack ==
    /\ pc = "userBack" /\ SetUser(curUser) /\ user' = 0 /\ pc' = "start"
    /\ UNCHANGED <<curDrive, curUser, sFlag, line, fresh, addr, calls>>

\* The drive of the FCB is set back, the CPU reset, which clears Status whatever
\* it was, and Z80run entered.
Start ==
    /\ pc = "start" /\ fcb' = [fcb EXCEPT ![CmdFCB].dr = Command.drive]
    /\ Status' = 0 /\ calls' = 0 /\ pc' = "program"
    /\ UNCHANGED <<driveVars, hostVars, dmaAddr, mem, hl,
                   curDrive, curUser, sFlag, line, fresh, user, addr>>

\* No program: the user area is set back, and with it the drive of the FCB.
Lost ==
    /\ pc = "lost" /\ user' = 0
    /\ IF user # 0 THEN SetUser(curUser) /\ pc' = "lost"
       ELSE /\ fcb' = [fcb EXCEPT ![CmdFCB].dr = Command.drive] /\ pc' = "check"
            /\ UNCHANGED <<Status, driveVars, hostVars, dmaAddr, mem, hl>>
    /\ UNCHANGED <<curDrive, curUser, sFlag, line, fresh, addr, calls>>

\* The program: any file call through the parameter FCB, any call on the system
\* state, and what it does to its memory, until the CPU stops.
ProgramCall ==
    /\ pc = "program" /\ Running /\ calls < MaxCalls
    /\ \/ FileCall(ParFCB)
       \/ SystemCall
       \/ \E d \in DriveByte, n \in Name : PrepareFcb(ParFCB, d, n)
       \/ \E v \in Value : FillBuffer(v)
       \/ StoreDrive
    /\ calls' = calls + 1
    /\ pc' = IF Status' = 0 THEN "program" ELSE "check"
    /\ UNCHANGED <<curDrive, curUser, sFlag, line, fresh, user, addr>>

ProgramEnds ==
    /\ pc = "program" /\ Running /\ (\E s \in 1..3 : LeaveProgram(s)) /\ pc' = "check"
    /\ UNCHANGED <<curDrive, curUser, sFlag, line, fresh, user, addr, calls>>

-----------------------------------------------------------------------------
\* An end of the loop that knows only the end of RunCPM.
CheckEndOnly ==
    /\ pc = "check" /\ pc' = IF Status = 1 THEN "end" ELSE "prompt"
    /\ UNCHANGED <<vars, curDrive, curUser, sFlag, line, fresh, user, addr, calls>>

\* The end of the loop: back to the main loop, which stops or boots, unless the
\* program returned with RET or the command did not ask for a boot.
Check ==
    /\ pc = "check"
    /\ pc' = CASE Status = 1 -> "end" [] Status = 2 -> "boot" [] OTHER -> "prompt"
    /\ UNCHANGED <<vars, curDrive, curUser, sFlag, line, fresh, user, addr, calls>>

\* RunCPM has ended.
Ended == pc = "end" /\ UNCHANGED allVars

\* Memory is clear at power-on: the FCBs name nothing yet, and any name will do.
CcpInit ==
    /\ PowerOn /\ files \in InitFiles
    /\ fcb = [f \in Fcb |-> FreshFcb(CHOOSE n \in Name : TRUE)]
    /\ pc = "reset" /\ curDrive = 0 /\ curUser = 0 /\ sFlag = FALSE
    /\ line = Zero /\ fresh = FALSE /\ user = 0 /\ addr = 0 /\ calls = 0

ReadInput ==
    \/ OpenBatch \/ SeekBatch \/ ReadBatch \/ TakeLine \/ CloseBatch \/ DropBatch

BuiltIn ==
    \/ Select \/ Dir \/ Era \/ OpenType \/ Type \/ Rename \/ UserCommand \/ Exit
    \/ SaveMake \/ SaveOpen \/ SaveDma \/ SaveWrite \/ SaveClose

External ==
    \/ Open \/ DriveA \/ UserZero \/ OpenA \/ DriveHome \/ OpenHome
    \/ Load \/ LoadRecord \/ LoadDma \/ Loaded \/ UserBack \/ Start \/ Lost

\* What the CCP and the main loop do on their own.
CcpStep ==
    \/ Boot \/ Reset \/ Home \/ TakeBatch \/ Prompt \/ Parse \/ Check
    \/ ReadInput \/ BuiltIn \/ External

CcpNext == CcpStep \/ ReadConsole \/ ProgramCall \/ ProgramEnds \/ Ended

\* The CCP is a loop in C that goes on by itself; users and programs need not.
CcpSpec == CcpInit /\ [][CcpNext]_allVars /\ WF_allVars(CcpStep)

-----------------------------------------------------------------------------
(* Properties.                                                             *)

\* Type invariant.
CcpTypeOK ==
    /\ TypeOK
    /\ pc \in {"boot", "reset", "home", "batch", "prompt", "console", "openBatch",
              "seekBatch", "readBatch", "takeLine", "closeBatch", "dropBatch", "parse",
              "select", "dir", "era", "openType", "type", "rename", "user", "exit",
              "make", "openSave", "dmaSave", "write", "saved",
              "open", "driveA", "user0", "openA", "driveHome", "openHome", "load",
              "loading", "dmaLoad", "loaded", "userBack", "start", "lost", "program",
              "check", "end"}
    /\ curDrive \in Drive /\ curUser \in User /\ user \in User
    /\ sFlag \in BOOLEAN /\ fresh \in BOOLEAN /\ line \in Value
    /\ addr \in 0..(TpaRecords + 1) /\ calls \in 0..MaxCalls

\* The drive the CCP goes back to after a boot always has a folder, whatever
\* selections failed in between (_ccp: DRV_SET, curDrive).
HomeExists == curDrive \in disks

\* The program is about to run its first instruction.
Starting == pc = "program" /\ calls = 0

\* A program starts in the drive and user area of the prompt it was typed at,
\* with the default DMA address and its FCB as it was typed, wherever it was
\* found (_ccp_ext).
StartsAtPrompt ==
    Starting => /\ cDrive = curDrive /\ userCode = curUser /\ user = 0
                /\ dmaAddr = DefDMA /\ fcb[CmdFCB].dr = Command.drive

\* Where a program is looked for, in order.
Places(c) ==
    IF c.drive # 0 THEN <<<<c.drive - 1, curUser, c.name>>>>
    ELSE <<<<curDrive, curUser, c.name>>, <<0, 0, c.name>>, <<curDrive, 0, c.name>>>>

\* What a program starts from is the file of that name that comes first in the
\* search order, whole or as much of it as fits below the BDOS (_ccp_ext).
StartsFromFile ==
    Starting =>
        \E i \in DOMAIN Places(Command) :
            LET file == files[Places(Command)[i]]
            IN  /\ file.len >= 0
                /\ \A j \in 1..(i - 1) : ~Exists(Places(Command)[j])
                /\ \A k \in 1..TpaRecords : InFile(file, k - 1) => mem[k] = file.data[k - 1]

\* When SAVE closes its file, the file begins with the pages it was to save
\* (_ccp_save, which looks at no write's result), if the host keeps what it takes.
SavesPages ==
    pc = "saved" /\ ~HostMayFail =>
        \A k \in 1..Pages : /\ InFile(files[Path(ParFCB)], k - 1)
                            /\ files[Path(ParFCB)].data[k - 1] = mem[k]

\* A line is run again without having been read again only when the submit file
\* was lost, and then once: the submit is over (_ccp_readInput).
StaleLineEndsSubmit == pc = "parse" /\ ~fresh => ~sFlag

\* The prompt is shown with a warm boot pending only after a line that the loop
\* does not check Status after: a drive select, or after one a comment, a bad
\* name or an empty submit (_ccp, _error).
PendingBoot ==
    pc = "prompt" /\ Status = 2 => Command.op \in {"select", "comment", "bad"}

\* Every command but a program comes to an end: the loops of TYPE and SAVE and of
\* the loader stop (_ccp_type, _ccp_save, _ccp_ext).
CommandEnds == pc = "parse" ~> pc \in {"prompt", "boot", "end", "program"}

\* "Prepare the file to be truncated", "And truncates it" (ccp.h): after the close
\* the submit file has the records that are left.
TruncatesBatch ==
    [][CloseBatch => files'[Path(BatchFCB)].len = fcb[BatchFCB].rc * BlkSZ]_allVars
=============================================================================
