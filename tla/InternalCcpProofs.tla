-------------------------- MODULE InternalCcpProofs --------------------------
(***************************************************************************)
(* Theorems about InternalCcp.  The BDOS half of each step is answered by  *)
(* the lemmas of BdosDiskProofs, which hold of a call whoever makes it.    *)
(***************************************************************************)
EXTENDS InternalCcp, BdosDiskProofs

(* Types.  The control states in which a later step counts on more than    *)
(* types: a record of the submit file is there to take, the buffer of a    *)
(* transfer is in the TPA, and a number read from the line is in range.    *)

BatchPcs == {"seekBatch", "readBatch", "takeLine"}
LoadPcs  == {"loading", "dmaLoad"}
SavePcs  == {"make", "openSave", "dmaSave", "write", "saved"}

CcpInv ==
    /\ CcpTypeOK
    /\ pc \in BatchPcs => fcb[BatchFCB].rc > 0
    /\ pc \in LoadPcs => addr \in 1..TpaRecords
    /\ pc \in {"dmaSave", "write"} => addr \in 1..Pages
    /\ pc \in SavePcs => Command.op = "SAVE" /\ Command.number % 65536 < 256
    /\ pc = "user" => Command.op = "USER" /\ Command.number % 256 < 16
    /\ pc = "select" => Command.op = "select"

LEMMA CommandType ==
    ASSUME CcpTypeOK
    PROVE  /\ Command \in Commands
           /\ Command.op = "select" => Command.drive - 1 \in Drive
           /\ Command.op = "USER" /\ Command.number % 256 < 16 => Command.number % 256 \in User
           /\ Command.op = "SAVE" /\ Command.number % 65536 < 256 => Pages \in 0..TpaRecords
           /\ Named(Command.drive, Command.name) \in FcbOf(DriveByte, Name)
           /\ Named(Command.parDrive, Command.parName) \in FcbOf(DriveByte, Name)
  <1>1. Command \in Commands /\ line \in Value
    BY CcpAssumption DEF Command, CcpTypeOK
  <1>2. Command.op = "select" => Command.drive - 1 \in Drive
    BY <1>1, CcpAssumption, DriveAssumption DEF Command, Commands, DriveByte
  <1>3. Command.op = "USER" /\ Command.number % 256 < 16 => Command.number % 256 \in User
    BY <1>1, CcpAssumption DEF Command
  <1>4. ASSUME Command.op = "SAVE", Command.number % 65536 < 256
        PROVE  Pages \in 0..TpaRecords
    <2>1. (Command.number % 65536) * 2 <= TpaRecords \/ Command.number % 65536 >= 256
      BY <1>1, <1>4, CcpAssumption DEF Command
    <2>2. PICK n \in Nat : n = Command.number % 65536
      BY <1>1 DEF Commands
    <2>3. TpaRecords \in Nat
      BY CcpAssumption, Widths
    <2> QED
      BY <1>4, <2>1, <2>2, <2>3 DEF Pages
  <1>5. ASSUME NEW d \in DriveByte, NEW n \in Name
        PROVE  Named(d, n) \in FcbOf(DriveByte, Name)
    <2>1. /\ 0 \in 0..MaxEX /\ 0 \in 0..MaxRC /\ 0 \in 0..MaxCR
          /\ 0 \in 0..(2 * S2Flag - 1) /\ 0 \in 0..(RandomSpan - 1)
      BY Widths
    <2> QED
      BY <2>1 DEF Named, FreshFcb, FcbOf
  <1> QED
    BY <1>1, <1>2, <1>3, <1>4, <1>5 DEF Commands

\* The calls of the CCP through its FCBs, and those on the system state.
LEMMA CallTypes ==
    ASSUME TypeOK
    PROVE  /\ \A f \in Fcb : OpenFile(f) \/ CloseFile(f) \/ MakeFile(f) \/ DeleteFile(f)
                             \/ ReadSeq(f) \/ WriteSeq(f) => TypeOK'
           /\ \A f \in Fcb, n \in Name : RenameFile(f, n, 0) => TypeOK'
           /\ \A d \in Drive : SelectDisk(d) => TypeOK'
           /\ \A a \in Buffer : SetDma(a) => TypeOK'
           /\ \A u \in User : SetUser(u) => TypeOK'
           /\ ResetDisks => TypeOK'
  <1>1. 0 \in DriveByte
    BY DEF DriveByte
  <1> QED
    BY <1>1, OpenFileType, CloseFileType, MakeFileType, DeleteFileType, ReadSeqType,
       WriteSeqType, RenameFileType, SystemCallType DEF SystemCall

\* A step that changes an FCB, and perhaps the buffers, and no more of the BDOS.
LEMMA MemoryType ==
    ASSUME TypeOK, fcb' \in [Fcb -> FcbOf(DriveByte, Name)], mem' \in [Buffer -> Value],
           dmaAddr' \in Buffer, hl' \in {0, 1, 16, 254, 255}, Status' \in 0..3,
           UNCHANGED <<driveVars, hostVars>>
    PROVE  TypeOK'
  BY DEF TypeOK, driveVars, hostVars

LEMMA CcpFcbs == BatchFCB \in Fcb /\ CmdFCB \in Fcb /\ ParFCB \in Fcb
  BY CcpAssumption

\* The CCP's own writes to its FCBs.
LEMMA FcbWrites ==
    ASSUME TypeOK
    PROVE  /\ \A f \in Fcb, F \in FcbOf(DriveByte, Name) :
                 [fcb EXCEPT ![f] = F] \in [Fcb -> FcbOf(DriveByte, Name)]
           /\ \A f \in Fcb, d \in DriveByte :
                 [fcb EXCEPT ![f].dr = d] \in [Fcb -> FcbOf(DriveByte, Name)]
           /\ \A f \in Fcb : fcb[f].rc > 0 =>
                 /\ [fcb EXCEPT ![f].cr = fcb[f].rc - 1] \in [Fcb -> FcbOf(DriveByte, Name)]
                 /\ [fcb EXCEPT ![f].rc = @ - 1] \in [Fcb -> FcbOf(DriveByte, Name)]
  <1>1. ASSUME NEW f \in Fcb, NEW d \in DriveByte
        PROVE  [fcb[f] EXCEPT !.dr = d] \in FcbOf(DriveByte, Name)
    BY TargetType DEF FcbOf
  <1>2. ASSUME NEW f \in Fcb, fcb[f].rc > 0
        PROVE  /\ [fcb[f] EXCEPT !.cr = fcb[f].rc - 1] \in FcbOf(DriveByte, Name)
               /\ [fcb[f] EXCEPT !.rc = @ - 1] \in FcbOf(DriveByte, Name)
    <2>1. fcb[f].rc - 1 \in 0..MaxCR /\ fcb[f].rc - 1 \in 0..MaxRC
      BY <1>2, TargetType, Widths DEF FcbOf
    <2> QED
      BY <2>1, TargetType DEF FcbOf
  <1> QED
    BY <1>1, <1>2 DEF TypeOK

\* Of a step that is not a call, and of the calls that are written out here.
LEMMA OwnStepType ==
    ASSUME CcpInv,
           \/ TakeBatch \/ Prompt \/ SeekBatch \/ TakeLine \/ Parse \/ Dir \/ Exit
           \/ DriveA \/ DriveHome \/ Start \/ Lost
    PROVE  TypeOK'
  <1> USE CcpFcbs
  <1>1. /\ TypeOK /\ DefDMA \in Buffer /\ 0 \in DriveByte /\ 1 \in DriveByte
        /\ line \in Value /\ curUser \in User /\ Zero \in Value
    BY FileAssumption, DriveAssumption DEF CcpInv, CcpTypeOK, DriveByte
  <1>2. /\ Command.drive \in DriveByte
        /\ Named(Command.drive, Command.name) \in FcbOf(DriveByte, Name)
        /\ Named(Command.parDrive, Command.parName) \in FcbOf(DriveByte, Name)
    BY CommandType DEF CcpInv, Commands
  <1>3. CASE TakeBatch
    <2>1. ASSUME NEW n \in SubName
          PROVE  Named(1, n) \in FcbOf(DriveByte, Name)
      <3>1. /\ 0 \in 0..MaxEX /\ 0 \in 0..MaxRC /\ 0 \in 0..MaxCR
            /\ 0 \in 0..(2 * S2Flag - 1) /\ 0 \in 0..(RandomSpan - 1)
        BY Widths
      <3> QED
        BY <1>1, <2>1, <3>1, FileAssumption DEF Named, FreshFcb, FcbOf
    <2>2. fcb' \in [Fcb -> FcbOf(DriveByte, Name)]
      <3>1. CASE UNCHANGED fcb
        BY <1>1, <3>1 DEF TypeOK
      <3>2. CASE \E n \in SubName : fcb' = [fcb EXCEPT ![BatchFCB] = Named(1, n)]
        BY <1>1, <2>1, <3>2, FcbWrites
      <3> QED
        BY <1>3, <3>1, <3>2 DEF TakeBatch
    <2> QED
      BY <1>1, <1>3, <2>2, MemoryType DEF TakeBatch, TypeOK
  <1>4. CASE Prompt
    BY <1>1, <1>4 DEF Prompt, TypeOK, hostVars, dataVars
  <1>5. CASE SeekBatch \/ TakeLine
    <2>1. fcb[BatchFCB].rc > 0
      BY <1>5 DEF SeekBatch, TakeLine, CcpInv, BatchPcs
    <2>2. fcb' \in [Fcb -> FcbOf(DriveByte, Name)]
      <3>1. CASE SeekBatch
        BY <1>1, <2>1, <3>1, FcbWrites DEF SeekBatch
      <3>2. CASE TakeLine
        BY <1>1, <2>1, <3>2, FcbWrites DEF TakeLine
      <3> QED
        BY <1>5, <3>1, <3>2
    <2> QED
      BY <1>1, <1>5, <2>2, MemoryType DEF SeekBatch, TakeLine, TypeOK
  <1>6. CASE Parse
    <2>1. fcb' \in [Fcb -> FcbOf(DriveByte, Name)] /\ mem' \in [Buffer -> Value]
      BY <1>1, <1>2, <1>6 DEF Parse, TypeOK
    <2> QED
      BY <1>1, <1>6, <2>1, MemoryType DEF Parse, TypeOK
  <1>7. CASE Dir
    <2>1. CASE SelectError(ParFCB)
      BY <1>1, <2>1, ErrorType
    <2>2. CASE /\ Selected(ParFCB, IF Matches(ParFCB) = {} THEN 255 ELSE 0)
               /\ mem' = IF Matches(ParFCB) = {} THEN mem ELSE [mem EXCEPT ![DefDMA] = Zero]
               /\ UNCHANGED <<files, fcb>>
      <3>1. mem' \in [Buffer -> Value] /\ (Selected(ParFCB, 0) \/ Selected(ParFCB, 255))
        BY <1>1, <2>2 DEF TypeOK
      <3>2. mem' \in [Buffer -> Value]
        BY <1>1, <2>2 DEF TypeOK
      <3> QED
        BY <1>1, <2>2, <3>1, <3>2, SelectedType DEF Code, TypeOK
    <2> QED
      BY <1>7, <2>1, <2>2 DEF Dir
  <1>8. CASE Exit
    BY <1>1, <1>8, MemoryType DEF Exit, TypeOK, dataVars
  <1>9. CASE DriveA \/ DriveHome \/ Start
    <2>1. fcb' \in [Fcb -> FcbOf(DriveByte, Name)]
      BY <1>1, <1>2, <1>9, FcbWrites DEF DriveA, DriveHome, Start
    <2> QED
      BY <1>1, <1>9, <2>1, MemoryType DEF DriveA, DriveHome, Start, TypeOK
  <1>10. CASE Lost
    <2>1. CASE SetUser(curUser)
      BY <1>1, <2>1, CallTypes
    <2>2. CASE /\ fcb' = [fcb EXCEPT ![CmdFCB].dr = Command.drive]
               /\ UNCHANGED <<Status, driveVars, hostVars, dmaAddr, mem, hl>>
      <3>1. fcb' \in [Fcb -> FcbOf(DriveByte, Name)]
        BY <1>1, <1>2, <2>2, FcbWrites
      <3> QED
        BY <1>1, <2>2, <3>1, MemoryType DEF TypeOK
    <2> QED
      BY <1>10, <2>1, <2>2 DEF Lost
  <1> QED
    BY <1>3, <1>4, <1>5, <1>6, <1>7, <1>8, <1>9, <1>10

LEMMA BdosStepType ==
    ASSUME CcpInv, [CcpNext]_allVars
    PROVE  TypeOK'
  <1> USE CcpFcbs
  <1>1. TypeOK /\ curDrive \in Drive /\ curUser \in User /\ 0 \in User /\ DefDMA \in Buffer
    BY FileAssumption, DriveAssumption DEF CcpInv, CcpTypeOK
  <1>2. CASE ReadConsole \/ Check \/ Ended \/ UNCHANGED allVars
    BY <1>1, <1>2, StutterType DEF ReadConsole, Check, Ended, allVars
  <1>3. CASE Boot
    BY <1>1, <1>3, WarmBootType DEF Boot
  <1>4. CASE Reset \/ Home
    BY <1>1, <1>4, CallTypes DEF Reset, Home
  <1>5. CASE OpenBatch \/ ReadBatch \/ CloseBatch \/ DropBatch
    BY <1>1, <1>5, CallTypes DEF OpenBatch, ReadBatch, CloseBatch, DropBatch
  <1>6. CASE BuiltIn /\ ~Dir /\ ~Exit
    <2>1. CASE Era \/ OpenType \/ Type \/ SaveMake \/ SaveOpen \/ SaveWrite \/ SaveClose
      BY <1>1, <2>1, CallTypes
      DEF Era, OpenType, Type, SaveMake, SaveOpen, SaveWrite, SaveClose
    <2>2. CASE Rename
      BY <1>1, <2>2, CallTypes, CommandType DEF Rename, CcpInv, Commands
    <2>3. CASE Select
      BY <1>1, <2>3, CallTypes, CommandType DEF Select, CcpInv
    <2>4. CASE UserCommand
      BY <1>1, <2>4, CallTypes, CommandType DEF UserCommand, CcpInv
    <2>5. CASE SaveDma
      <3>1. addr \in Buffer
        BY <2>5, CommandType, CcpAssumption, Widths DEF SaveDma, CcpInv, SavePcs
      <3> QED
        BY <1>1, <2>5, <3>1, CallTypes DEF SaveDma
    <2> QED
      BY <1>6, <2>1, <2>2, <2>3, <2>4, <2>5 DEF BuiltIn
  <1>7. CASE External /\ ~DriveA /\ ~DriveHome /\ ~Start /\ ~Lost
    <2>1. 1 \in Buffer /\ (pc \in LoadPcs => addr \in Buffer)
      BY CcpAssumption, Widths DEF CcpInv
    <2>2. CASE Open \/ OpenA \/ OpenHome \/ LoadRecord
      BY <1>1, <2>2, CallTypes DEF Open, OpenA, OpenHome, LoadRecord
    <2>3. CASE Load \/ LoadDma \/ Loaded
      BY <1>1, <2>1, <2>3, CallTypes DEF Load, LoadDma, Loaded, LoadPcs
    <2>4. CASE UserZero \/ UserBack
      BY <1>1, <2>4, CallTypes DEF UserZero, UserBack
    <2> QED
      BY <1>7, <2>2, <2>3, <2>4 DEF External
  <1>8. CASE ProgramCall \/ ProgramEnds
    BY <1>1, <1>8, FileCallType, SystemCallType, ProgramType
    DEF ProgramCall, ProgramEnds, Program
  <1> QED
    BY <1>2, <1>3, <1>4, <1>5, <1>6, <1>7, <1>8, OwnStepType
    DEF CcpNext, CcpStep, ReadInput, BuiltIn, External

\* A sequential read changes the position of its FCB alone.
LEMMA ReadSeqFcb ==
    ASSUME TypeOK, NEW f \in Fcb, ReadSeq(f)
    PROVE  /\ fcb'[f].rc = fcb[f].rc /\ fcb'[f].dr = fcb[f].dr /\ fcb'[f].name = fcb[f].name
           /\ \A g \in Fcb : g # f => fcb'[g] = fcb[g]
  <1>1. /\ Advance(fcb[f]).rc = fcb[f].rc /\ Advance(fcb[f]).dr = fcb[f].dr
        /\ Advance(fcb[f]).name = fcb[f].name
    BY TargetType DEF Advance, FcbOf
  <1>2. fcb' = fcb \/ fcb' = [fcb EXCEPT ![f] = Advance(@)]
    BY DEF ReadSeq, SelectError, dataVars
  <1> QED
    BY <1>1, <1>2 DEF TypeOK

\* The variables of the CCP, and what holds in the states that count on it.
ControlInv ==
    /\ pc \in BatchPcs => fcb[BatchFCB].rc > 0
    /\ pc \in LoadPcs => addr \in 1..TpaRecords
    /\ pc \in {"dmaSave", "write"} => addr \in 1..Pages
    /\ pc \in SavePcs => Command.op = "SAVE" /\ Command.number % 65536 < 256
    /\ pc = "user" => Command.op = "USER" /\ Command.number % 256 < 16
    /\ pc = "select" => Command.op = "select"

OwnTypes ==
    /\ pc \in {"boot", "reset", "home", "batch", "prompt", "console", "openBatch",
              "seekBatch", "readBatch", "takeLine", "closeBatch", "dropBatch", "parse",
              "select", "dir", "era", "openType", "type", "rename", "user", "exit",
              "make", "openSave", "dmaSave", "write", "saved",
              "open", "driveA", "user0", "openA", "driveHome", "openHome", "load",
              "loading", "dmaLoad", "loaded", "userBack", "start", "lost", "program",
              "check", "end"}
    /\ curDrive \in Drive /\ curUser \in User /\ user \in User
    /\ sFlag \in BOOLEAN /\ fresh \in BOOLEAN /\ line \in Value
    /\ addr \in 0..(TpaRecords + 1) /\ calls \in 0..MaxCalls

LEMMA CcpInvParts == CcpInv <=> TypeOK /\ OwnTypes /\ ControlInv
  BY DEF CcpInv, CcpTypeOK, OwnTypes, ControlInv

\* Where a parsed line leads.
LEMMA ParsedTo ==
    ASSUME CcpInv, Parse
    PROVE  /\ pc' \in {"prompt", "check", "select", "dir", "era", "openType", "make",
                       "rename", "user", "exit", "open"}
           /\ pc' = "make" => Command.op = "SAVE" /\ Command.number % 65536 < 256
           /\ pc' = "user" => Command.op = "USER" /\ Command.number % 256 < 16
           /\ pc' = "select" => Command.op = "select"
           /\ pc' = "open" => Command.op = "ext"
           /\ pc' = "prompt" => Command.op \in {"comment", "bad"}
  <1>1. Command.op \in {"blank", "comment", "bad", "select", "DIR", "ERA", "TYPE", "SAVE",
                        "REN", "USER", "CLS", "EXIT", "ext"}
    BY CommandType DEF CcpInv, Commands
  <1>2. pc' = Entry(Command)
    BY DEF Parse
  <1>3. CASE Command.op = "SAVE"
    <2>1. Entry(Command) = IF Command.number % 65536 < 256 THEN "make" ELSE "check"
      BY <1>3 DEF Entry
    <2> QED
      BY <1>2, <1>3, <2>1
  <1>4. CASE Command.op = "USER"
    <2>1. Entry(Command) = IF Command.number % 256 < 16 THEN "user" ELSE "check"
      BY <1>4 DEF Entry
    <2> QED
      BY <1>2, <1>4, <2>1
  <1>5. CASE Command.op \in {"select", "ext"}
    <2>1. Entry(Command) = IF Command.op = "select" THEN "select" ELSE "open"
      BY <1>5 DEF Entry
    <2> QED
      BY <1>2, <1>5, <2>1
  <1>6. CASE Command.op \in {"blank", "comment", "bad", "CLS"}
    <2>1. Entry(Command) = IF Command.op \in {"comment", "bad"} THEN "prompt" ELSE "check"
      BY <1>6 DEF Entry
    <2> QED
      BY <1>2, <1>6, <2>1
  <1>7. CASE Command.op \in {"DIR", "ERA", "TYPE", "REN", "EXIT"}
    <2>1. Entry(Command) \in {"dir", "era", "openType", "rename", "exit"}
      BY <1>7 DEF Entry
    <2> QED
      BY <1>2, <2>1
  <1> QED
    BY <1>1, <1>3, <1>4, <1>5, <1>6, <1>7

LEMMA ControlStep ==
    ASSUME CcpInv, [CcpNext]_allVars
    PROVE  OwnTypes' /\ ControlInv'
  <1>1. TypeOK /\ OwnTypes /\ ControlInv
    BY CcpInvParts
  <1>2. TpaRecords \in Nat \ {0} /\ MaxCalls \in Nat /\ Line \subseteq Value /\ 0 \in User
        /\ BatchFCB \in Fcb /\ DefDMA \in Buffer
    BY CcpAssumption, FileAssumption, DriveAssumption, Widths
  <1>3. /\ Command.op \in {"blank", "comment", "bad", "select", "DIR", "ERA", "TYPE", "SAVE",
                           "REN", "USER", "CLS", "EXIT", "ext"}
        /\ pc \in SavePcs => Pages \in 0..TpaRecords
        /\ pc = "user" => Command.number % 256 \in User
    BY <1>1, CommandType DEF CcpInv, Commands, ControlInv
  <1> USE DEF OwnTypes, ControlInv, BatchPcs, LoadPcs, SavePcs
  <1>4. ASSUME UNCHANGED line
        PROVE  Command' = Command /\ Pages' = Pages
    BY <1>4 DEF Command, Pages
  <1>5. CASE ReadConsole
    BY <1>1, <1>2, <1>5 DEF ReadConsole
  <1>6. CASE Check
    BY <1>1, <1>6 DEF Check
  <1>7. CASE Ended \/ UNCHANGED allVars
    <2>1. UNCHANGED <<pc, curDrive, curUser, sFlag, line, fresh, user, addr, calls, fcb>>
      BY <1>7 DEF Ended, allVars, ccpVars, vars, dataVars
    <2> QED
      BY <1>1, <1>4, <2>1
  <1>8. CASE Boot
    BY <1>1, <1>8 DEF Boot
  <1>9. CASE Reset
    BY <1>1, <1>9 DEF Reset
  <1>10. CASE Home
    BY <1>1, <1>10 DEF Home
  <1>11. CASE TakeBatch
    BY <1>1, <1>11 DEF TakeBatch
  <1>12. CASE Prompt
    <2>1. fresh' \in BOOLEAN
      BY <1>12, Zenon DEF Prompt
    <2>2. /\ curDrive' \in Drive /\ curUser' \in User /\ pc' \in {"openBatch", "console"}
          /\ UNCHANGED <<sFlag, line, user, addr, calls>>
      BY <1>1, <1>12 DEF Prompt, TypeOK
    <2> QED
      BY <1>1, <2>1, <2>2
  <1>13. CASE Parse
    <2>1. pc' = Entry(Command) /\ Command' = Command
      BY <1>4, <1>13 DEF Parse
    <2>2. /\ pc' \in {"prompt", "check", "select", "dir", "era", "openType", "make",
                      "rename", "user", "exit", "open"}
          /\ pc' = "make" => Command.op = "SAVE" /\ Command.number % 65536 < 256
          /\ pc' = "user" => Command.op = "USER" /\ Command.number % 256 < 16
          /\ pc' = "select" => Command.op = "select"
      BY <1>13, ParsedTo
    <2> QED
      BY <1>1, <1>13, <2>1, <2>2 DEF Parse
  <1>14. CASE OpenBatch
    BY <1>1, <1>14 DEF OpenBatch
  <1>15. CASE CloseBatch
    BY <1>1, <1>15 DEF CloseBatch
  <1>16. CASE DropBatch
    <2>1. sFlag' \in BOOLEAN
      BY <1>16, Zenon DEF DropBatch
    <2>2. pc' = "parse" /\ UNCHANGED <<curDrive, curUser, line, fresh, user, addr, calls>>
      BY <1>16 DEF DropBatch
    <2> QED
      BY <1>1, <2>1, <2>2
  <1>17. CASE SeekBatch
    <2>1. fcb'[BatchFCB].rc = fcb[BatchFCB].rc
      BY <1>1, <1>2, <1>17 DEF SeekBatch, TypeOK, FcbOf
    <2> QED
      BY <1>1, <1>17, <2>1 DEF SeekBatch
  <1>18. CASE ReadBatch
    <2>1. fcb'[BatchFCB].rc = fcb[BatchFCB].rc
      BY <1>1, <1>2, <1>18, ReadSeqFcb DEF ReadBatch
    <2> QED
      BY <1>1, <1>18, <2>1 DEF ReadBatch
  <1>19. CASE TakeLine
    <2>1. mem[DefDMA] \in Value
      BY <1>1, <1>2 DEF TypeOK
    <2> QED
      BY <1>1, <1>19, <2>1 DEF TakeLine
  <1>20. ASSUME pc' \in {"prompt", "type", "check"},
                UNCHANGED <<curDrive, curUser, sFlag, line, fresh, user, addr, calls>>
         PROVE  OwnTypes' /\ ControlInv'
    BY <1>1, <1>20
  <1>21. CASE Select \/ Dir \/ Era \/ OpenType \/ Type \/ Rename \/ Exit
    BY <1>20, <1>21 DEF Select, Dir, Era, OpenType, Type, Rename, Exit
  <1>22. CASE UserCommand
    BY <1>1, <1>3, <1>22 DEF UserCommand
  <1>23. CASE SaveMake
    BY <1>1, <1>4, <1>23 DEF SaveMake
  <1>24. CASE SaveOpen
    BY <1>1, <1>2, <1>3, <1>4, <1>24 DEF SaveOpen
  <1>25. CASE SaveDma
    BY <1>1, <1>4, <1>25 DEF SaveDma
  <1>26. CASE SaveWrite
    BY <1>1, <1>2, <1>3, <1>4, <1>26 DEF SaveWrite
  <1>27. CASE SaveClose
    BY <1>20, <1>27 DEF SaveClose
  <1>28. ASSUME pc' \in {"load", "lost", "driveA", "user0", "openA", "driveHome", "openHome"},
                UNCHANGED <<curDrive, curUser, sFlag, line, fresh, user, addr, calls>>
         PROVE  OwnTypes' /\ ControlInv'
    BY <1>1, <1>28
  <1>29. CASE Open \/ DriveA \/ OpenA \/ DriveHome \/ OpenHome
    BY <1>28, <1>29 DEF Open, DriveA, OpenA, DriveHome, OpenHome
  <1>30. CASE Load
    BY <1>1, <1>2, <1>30 DEF Load
  <1>31. CASE LoadRecord
    BY <1>1, <1>2, <1>31 DEF LoadRecord
  <1>32. CASE LoadDma
    BY <1>1, <1>32 DEF LoadDma
  <1>33. CASE Loaded
    BY <1>1, <1>33 DEF Loaded
  <1>34. CASE UserZero
    BY <1>1, <1>34 DEF UserZero
  <1>35. CASE UserBack
    BY <1>1, <1>2, <1>35 DEF UserBack
  <1>36. CASE Lost
    BY <1>1, <1>2, <1>36 DEF Lost
  <1>37. CASE Start
    BY <1>1, <1>2, <1>37 DEF Start
  <1>38. CASE ProgramCall
    BY <1>1, <1>2, <1>38 DEF ProgramCall
  <1>39. CASE ProgramEnds
    BY <1>1, <1>39 DEF ProgramEnds
  <1> QED
    BY <1>5, <1>6, <1>7, <1>8, <1>9, <1>10, <1>11, <1>12, <1>13, <1>14, <1>15, <1>16,
       <1>17, <1>18, <1>19, <1>21, <1>22, <1>23, <1>24, <1>25, <1>26, <1>27, <1>29, <1>30,
       <1>31, <1>32, <1>33, <1>34, <1>35, <1>36, <1>37, <1>38, <1>39
    DEF CcpNext, CcpStep, ReadInput, BuiltIn, External

LEMMA CcpInvStep ==
    ASSUME CcpInv, [CcpNext]_allVars
    PROVE  CcpInv'
  <1>1. TypeOK' /\ OwnTypes' /\ ControlInv'
    BY BdosStepType, ControlStep
  <1> QED
    BY <1>1 DEF CcpInv, CcpTypeOK, OwnTypes, ControlInv

LEMMA CcpInvInit ==
    ASSUME CcpInit
    PROVE  CcpInv
  <1>1. TypeOK
    BY PowerOnType, CcpAssumption DEF CcpInit
  <1>2. 0 \in Drive /\ 0 \in User /\ Zero \in Value /\ TpaRecords \in Nat /\ MaxCalls \in Nat
    BY DriveAssumption, FileAssumption, CcpAssumption, Widths
  <1>3. sFlag \in BOOLEAN /\ fresh \in BOOLEAN
    BY Zenon DEF CcpInit
  <1>4. /\ pc = "reset" /\ curDrive = 0 /\ curUser = 0 /\ line = Zero /\ user = 0
        /\ addr = 0 /\ calls = 0
    BY DEF CcpInit
  <1> QED
    BY <1>1, <1>2, <1>3, <1>4 DEF CcpInv, CcpTypeOK, BatchPcs, LoadPcs, SavePcs

\* The CCP is well formed whatever the user types and programs do, and with it the
\* BDOS: SAVE and the loader never transfer outside the TPA, the submit file's
\* record count never goes below zero, and USER sets no user that is not there
\* (ccp.h).
THEOREM CcpTypeCorrect == CcpSpec => []CcpTypeOK
  <1>1. CcpInit => CcpInv
    BY CcpInvInit
  <1>2. CcpInv /\ [CcpNext]_allVars => CcpInv'
    BY CcpInvStep
  <1>3. CcpInv => CcpTypeOK
    BY DEF CcpInv
  <1> QED
    BY <1>1, <1>2, <1>3, PTL DEF CcpSpec
-----------------------------------------------------------------------------
(* Folders.                                                                *)

\* A step that changes no drive, folder or file.
LEMMA SameFolders ==
    ASSUME FoldersInv, UNCHANGED <<cDrive, oDrive, loginVector, disks, areas, files>>,
           ram4' \in {ram4, cDrive}
    PROVE  FoldersInv'
  BY DEF FoldersInv, DriveExists, FilesInAreas, Exists

LEMMA CcpFoldersStep ==
    ASSUME CcpInv, FoldersInv, [CcpNext]_allVars
    PROVE  FoldersInv'
  <1> USE CcpFcbs
  <1>1. TypeOK /\ curDrive \in Drive /\ curUser \in User /\ 0 \in User /\ DefDMA \in Buffer
        /\ 0 \in DriveByte
    BY FileAssumption, DriveAssumption DEF CcpInv, CcpTypeOK, DriveByte
  <1>2. CASE \/ ReadConsole \/ Check \/ Ended \/ UNCHANGED allVars \/ TakeBatch \/ Prompt
             \/ SeekBatch \/ TakeLine \/ Parse \/ Exit \/ DriveA \/ DriveHome \/ Start
    BY <1>2, SameFolders
    DEF ReadConsole, Check, Ended, allVars, TakeBatch, Prompt, SeekBatch, TakeLine, Parse,
        Exit, DriveA, DriveHome, Start, vars, driveVars, hostVars
  <1>3. CASE Boot
    BY <1>1, <1>3, WarmBootFolders DEF Boot
  <1>4. CASE Reset \/ Home \/ UserZero \/ UserBack
    <2>1. SystemCall
      BY <1>1, <1>4 DEF Reset, Home, UserZero, UserBack, SystemCall
    <2> QED
      BY <1>1, <2>1, SystemCallFolders
  <1>5. CASE OpenBatch \/ ReadBatch \/ CloseBatch \/ DropBatch
    <2>1. FileCall(BatchFCB)
      BY <1>5 DEF OpenBatch, ReadBatch, CloseBatch, DropBatch, FileCall
    <2> QED
      BY <1>1, <2>1, FileCallFolders
  <1>6. CASE Era \/ OpenType \/ Type \/ SaveMake \/ SaveOpen \/ SaveWrite \/ SaveClose
    <2>1. FileCall(ParFCB)
      BY <1>6 DEF Era, OpenType, Type, SaveMake, SaveOpen, SaveWrite, SaveClose, FileCall
    <2> QED
      BY <1>1, <2>1, FileCallFolders
  <1>7. CASE Rename
    <2>1. FileCall(ParFCB)
      BY <1>1, <1>7, CommandType DEF Rename, FileCall, CcpInv, Commands
    <2> QED
      BY <1>1, <2>1, FileCallFolders
  <1>8. CASE Select \/ UserCommand
    <2>1. SystemCall
      BY <1>8, CommandType DEF Select, UserCommand, SystemCall, CcpInv
    <2> QED
      BY <1>1, <2>1, SystemCallFolders
  <1>9. CASE Dir
    <2>1. CASE SelectError(ParFCB)
      BY <2>1, ErrorFolders
    <2>2. CASE /\ Selected(ParFCB, IF Matches(ParFCB) = {} THEN 255 ELSE 0)
               /\ UNCHANGED files
      <3>1. FilesStay(Target(ParFCB), userCode)
        BY <2>2 DEF FilesStay, Exists
      <3> QED
        BY <2>2, <3>1, SelectedFolders
    <2> QED
      BY <1>9, <2>1, <2>2 DEF Dir
  <1>10. CASE Open \/ OpenA \/ OpenHome \/ LoadRecord
    <2>1. FileCall(CmdFCB)
      BY <1>10 DEF Open, OpenA, OpenHome, LoadRecord, FileCall
    <2> QED
      BY <1>1, <2>1, FileCallFolders
  <1>11. CASE SaveDma \/ Load \/ LoadDma \/ Loaded
    <2>1. UNCHANGED <<driveVars, hostVars>>
      BY <1>11 DEF SaveDma, Load, LoadDma, Loaded, SetDma
    <2> QED
      BY <2>1, SameFolders DEF driveVars, hostVars
  <1>12. CASE Lost
    <2>1. CASE SetUser(curUser)
      BY <1>1, <2>1, SystemCallFolders DEF SystemCall
    <2>2. CASE UNCHANGED <<driveVars, hostVars>>
      BY <2>2, SameFolders DEF driveVars, hostVars
    <2> QED
      BY <1>12, <2>1, <2>2 DEF Lost
  <1>13. CASE ProgramCall \/ ProgramEnds
    <2>1. FileCall(ParFCB) \/ SystemCall \/ Program
      BY <1>13 DEF ProgramCall, ProgramEnds, Program
    <2> QED
      BY <1>1, <2>1, FileCallFolders, SystemCallFolders, ProgramFolders
  <1> QED
    BY <1>2, <1>3, <1>4, <1>5, <1>6, <1>7, <1>8, <1>9, <1>10, <1>11, <1>12, <1>13
    DEF CcpNext, CcpStep, ReadInput, BuiltIn, External

\* What no file call touches.
LEMMA FileCallKeeps ==
    ASSUME NEW f \in Fcb, FileCall(f)
    PROVE  UNCHANGED <<oDrive, userCode, roVector, disks, areas, dmaAddr>>
  <1>1. CASE SelectError(f) \/ ReadOnlyError(f) \/ \E res : Selected(f, res) \/ Writable(f, res)
    BY <1>1 DEF SelectError, ReadOnlyError, Selected, Writable, hostVars, dataVars
  <1>2. CASE SetRandom(f)
    BY <1>2 DEF SetRandom, driveVars, hostVars
  <1>3. \/ SetRandom(f)
        \/ SelectError(f) \/ ReadOnlyError(f) \/ \E res : Selected(f, res) \/ Writable(f, res)
    BY DEF FileCall, OpenFile, CloseFile, MakeFile, DeleteFile, RenameFile, ReadSeq, WriteSeq,
       ReadRand, WriteRand, GetFileSize
  <1> QED
    BY <1>1, <1>2, <1>3

\* A host folder never goes away.
LEMMA DisksGrow ==
    ASSUME CcpInv, [CcpNext]_allVars
    PROVE  disks \subseteq disks'
  <1> USE CcpFcbs
  <1>1. TypeOK /\ 0 \in DriveByte
    BY DEF CcpInv, CcpTypeOK, DriveByte
  <1>2. ASSUME SystemCall \/ WarmBoot \/ Program
        PROVE  disks \subseteq disks'
    BY <1>2 DEF SystemCall, ResetDisks, WriteProtectDisk, SelectDisk, SetDma, SetUser, MakeDisk,
       WarmBoot, Program, PrepareFcb, PokeRandom, FillBuffer, LeaveProgram, StoreDrive, hostVars
  <1>3. CASE \/ ReadConsole \/ Check \/ Ended \/ UNCHANGED allVars \/ TakeBatch \/ Prompt
             \/ SeekBatch \/ TakeLine \/ Parse \/ Exit \/ DriveA \/ DriveHome \/ Start
    BY <1>3
    DEF ReadConsole, Check, Ended, allVars, TakeBatch, Prompt, SeekBatch, TakeLine, Parse,
        Exit, DriveA, DriveHome, Start, vars, hostVars
  <1>4. CASE Boot \/ Reset \/ ProgramEnds
    BY <1>2, <1>4 DEF Boot, Reset, SystemCall, ProgramEnds, Program
  <1>5. CASE \/ OpenBatch \/ ReadBatch \/ CloseBatch \/ DropBatch \/ Rename
             \/ Era \/ OpenType \/ Type \/ SaveMake \/ SaveOpen \/ SaveWrite \/ SaveClose
             \/ Open \/ OpenA \/ OpenHome \/ LoadRecord
    <2>1. \E f \in Fcb : FileCall(f)
      BY <1>1, <1>5, CommandType
      DEF OpenBatch, ReadBatch, CloseBatch, DropBatch, Rename, Era, OpenType, Type, SaveMake,
          SaveOpen, SaveWrite, SaveClose, Open, OpenA, OpenHome, LoadRecord, FileCall, CcpInv,
          Commands
    <2> QED
      BY <2>1, FileCallKeeps
  <1>6. CASE Home \/ Select \/ UserCommand \/ UserZero \/ UserBack \/ SaveDma \/ Load \/ LoadDma
             \/ Loaded \/ Lost
    BY <1>6 DEF Home, Select, UserCommand, UserZero, UserBack, SaveDma, Load, LoadDma, Loaded,
       Lost, SelectDisk, SetUser, SetDma, hostVars
  <1>7. CASE Dir
    BY <1>7 DEF Dir, SelectError, Selected, hostVars
  <1>8. CASE ProgramCall
    BY <1>2, <1>8, FileCallKeeps DEF ProgramCall, Program
  <1> QED
    BY <1>3, <1>4, <1>5, <1>6, <1>7, <1>8
    DEF CcpNext, CcpStep, ReadInput, BuiltIn, External

LEMMA HomeStep ==
    ASSUME CcpInv, FoldersInv, HomeExists, [CcpNext]_allVars
    PROVE  HomeExists'
  <1>1. disks \subseteq disks'
    BY DisksGrow
  <1>2. CASE Prompt
    BY <1>1, <1>2 DEF Prompt, HomeExists, FoldersInv, DriveExists
  <1>3. CASE ~Prompt
    <2>1. UNCHANGED curDrive
      BY <1>3 DEF CcpNext, CcpStep, ReadInput, BuiltIn, External, Boot, Reset, Home, TakeBatch,
         Parse, Check, OpenBatch, SeekBatch, ReadBatch, TakeLine, CloseBatch, DropBatch,
         Select, Dir, Era, OpenType, Type, Rename, UserCommand, Exit, SaveMake, SaveOpen,
         SaveDma, SaveWrite, SaveClose, Open, DriveA, UserZero, OpenA, DriveHome, OpenHome,
         Load, LoadRecord, LoadDma, Loaded, UserBack, Start, Lost, ReadConsole, ProgramCall,
         ProgramEnds, Ended, allVars, ccpVars
    <2> QED
      BY <1>1, <2>1 DEF HomeExists
  <1> QED
    BY <1>2, <1>3

LEMMA CcpFoldersInit ==
    ASSUME CcpInit
    PROVE  FoldersInv /\ HomeExists
  <1>1. ASSUME NEW id \in FileId, Exists(id)
        PROVE  <<id[1], id[2]>> \in areas
    <2>1. id[1] \in InitDisks /\ id[2] = 0
      BY <1>1, CcpAssumption DEF CcpInit, Exists
    <2> QED
      BY <2>1 DEF CcpInit, PowerOn
  <1>2. HomeExists
    BY DriveAssumption DEF CcpInit, PowerOn, HomeExists
  <1> QED
    BY <1>1, <1>2, PowerOnFolders DEF CcpInit

\* The drive that the CCP selects after a boot has a folder, and so have the default
\* drive and the one errors fall back to: a boot never ends in the next error,
\* whatever drives users and programs ask for (_ccp, _error, _SelectDisk).
THEOREM CcpHomeExists == CcpSpec => []HomeExists
  <1>1. CcpInit => CcpInv /\ FoldersInv /\ HomeExists
    BY CcpInvInit, CcpFoldersInit
  <1>2. CcpInv /\ FoldersInv /\ HomeExists /\ [CcpNext]_allVars
            => (CcpInv /\ FoldersInv /\ HomeExists)'
    BY CcpInvStep, CcpFoldersStep, HomeStep
  <1> QED
    BY <1>1, <1>2, PTL DEF CcpSpec
-----------------------------------------------------------------------------
(* Where the CCP is when it starts a program.                              *)

\* A line is being read, or a program sought and loaded.
ReadPcs  == {"console", "openBatch", "seekBatch", "readBatch", "takeLine", "closeBatch",
             "dropBatch", "parse"}
FindPcs  == {"open", "driveA", "user0", "openA", "driveHome", "openHome", "load", "loading",
             "dmaLoad", "loaded", "userBack", "start"}

\* The default drive and the one errors fall back to differ only after a reset, which
\* lifts every protection, and until the next selection.
ProtectInv == cDrive = oDrive \/ (cDrive = 0 /\ roVector \subseteq {0})

\* While a submit runs, the batch FCB names drive A:, or is about to.
BatchInv ==
    /\ sFlag /\ pc \in {"home", "batch"} =>
           userCode \in SearchUsers /\ \E n \in SubName : Exists(<<0, userCode, n>>)
    /\ sFlag /\ pc \notin {"home", "batch"} => fcb[BatchFCB].dr = 1
    /\ pc \in ReadPcs \ {"console", "parse"} => sFlag

\* No file call moves to another drive, but for an error.
LEMMA FileCallDrive ==
    ASSUME NEW f \in Fcb, FileCall(f)
    PROVE  \/ cDrive' = cDrive
           \/ cDrive' = oDrive /\ (Target(f) \notin disks \/ fcb[f].dr \in roVector)
  <1>1. CASE SelectError(f) \/ ReadOnlyError(f)
    BY <1>1 DEF SelectError, ReadOnlyError, BdosError, WriteProtected
  <1>2. CASE SetRandom(f) \/ \E res : Selected(f, res) \/ Writable(f, res)
    BY <1>2 DEF SetRandom, Selected, Writable, driveVars
  <1>3. \/ SetRandom(f)
        \/ SelectError(f) \/ ReadOnlyError(f) \/ \E res : Selected(f, res) \/ Writable(f, res)
    BY DEF FileCall, OpenFile, CloseFile, MakeFile, DeleteFile, RenameFile, ReadSeq, WriteSeq,
       ReadRand, WriteRand, GetFileSize
  <1> QED
    BY <1>1, <1>2, <1>3

\* A file call keeps the name in its FCB, and every other FCB.
LEMMA FileCallFcb ==
    ASSUME TypeOK, NEW f \in Fcb, FileCall(f)
    PROVE  /\ fcb'[f].dr = fcb[f].dr /\ fcb'[f].name = fcb[f].name
           /\ \A g \in Fcb : g # f => fcb'[g] = fcb[g]
  <1>1. fcb[f] \in FcbOf(DriveByte, Name)
    BY TargetType
  <1>2. ASSUME NEW F, F.dr = fcb[f].dr, F.name = fcb[f].name, fcb' = [fcb EXCEPT ![f] = F]
        PROVE  /\ fcb'[f].dr = fcb[f].dr /\ fcb'[f].name = fcb[f].name
               /\ \A g \in Fcb : g # f => fcb'[g] = fcb[g]
    BY <1>2 DEF TypeOK
  <1>3. ASSUME NEW G \in FcbOf(DriveByte, Name)
        PROVE  /\ Advance(G).dr = G.dr /\ Advance(G).name = G.name
               /\ Touched(G) \in FcbOf(DriveByte, Name)
               /\ Touched(G).dr = G.dr /\ Touched(G).name = G.name
               /\ Rewound(G).dr = G.dr /\ Rewound(G).name = G.name
               /\ \A record, flag : Seek(G, record, flag).dr = G.dr
                                   /\ Seek(G, record, flag).name = G.name
    BY TouchedType DEF Advance, Touched, Rewound, Seek, FcbOf
  <1>4. CASE UNCHANGED fcb
    BY <1>4
  <1>5. CASE OpenFile(f) /\ ~UNCHANGED fcb
    <2>1. PICK len : fcb' = [fcb EXCEPT ![f] =
                             [[@ EXCEPT !.s2 = S2Flag] EXCEPT
                                     !.rc = IF len > MaxRC THEN MaxRC ELSE len]]
      BY <1>5 DEF OpenFile, SelectError, dataVars
    <2> QED
      BY <1>1, <1>2, <2>1 DEF FcbOf
  <1>6. CASE MakeFile(f) /\ ~UNCHANGED fcb
    BY <1>1, <1>2, <1>3, <1>6 DEF MakeFile, SelectError, ReadOnlyError, dataVars
  <1>7. CASE ReadSeq(f) /\ ~UNCHANGED fcb
    BY <1>1, <1>2, <1>3, <1>7 DEF ReadSeq, SelectError, dataVars
  <1>8. CASE WriteSeq(f) /\ ~UNCHANGED fcb
    <2>1. fcb' = [fcb EXCEPT ![f] = Advance(Touched(fcb[f]))]
      BY <1>8 DEF WriteSeq, SelectError, ReadOnlyError, dataVars
    <2> QED
      BY <1>1, <1>2, <1>3, <2>1
  <1>9. CASE (ReadRand(f) \/ WriteRand(f)) /\ ~UNCHANGED fcb
    <2>1. PICK record, flag : fcb' = [fcb EXCEPT ![f] = Seek(fcb[f], record, flag)]
      BY <1>9 DEF ReadRand, WriteRand, SelectError, ReadOnlyError, dataVars
    <2> QED
      BY <1>1, <1>2, <1>3, <2>1
  <1>10. CASE (GetFileSize(f) \/ SetRandom(f)) /\ ~UNCHANGED fcb
    <2>1. PICK record : fcb' = [fcb EXCEPT ![f] = [fcb[f] EXCEPT !.r = record]]
      BY <1>10 DEF GetFileSize, SetRandom, SelectError, dataVars
    <2> QED
      BY <1>1, <1>2, <2>1 DEF FcbOf
  <1> QED
    BY <1>4, <1>5, <1>6, <1>7, <1>8, <1>9, <1>10
    DEF FileCall, CloseFile, DeleteFile, RenameFile, SelectError, ReadOnlyError, dataVars

LEMMA ProtectStep ==
    ASSUME CcpInv, FoldersInv, ProtectInv, [CcpNext]_allVars
    PROVE  ProtectInv'
  <1> USE CcpFcbs
  <1>1. TypeOK /\ 0 \in DriveByte /\ 0 \in disks
    BY DEF CcpInv, CcpTypeOK, DriveByte, FoldersInv
  <1>2. CASE \E f \in Fcb : FileCall(f)
    BY <1>2, FileCallDrive, FileCallKeeps DEF ProtectInv
  <1>3. CASE SystemCall
    BY <1>1, <1>3 DEF SystemCall, ResetDisks, WriteProtectDisk, SelectDisk, SetDma, SetUser,
       MakeDisk, BdosError, ProtectInv, driveVars, Bit
  <1>4. CASE UNCHANGED <<cDrive, oDrive, roVector>>
    BY <1>4 DEF ProtectInv
  <1>5. CASE \/ ReadConsole \/ Check \/ Ended \/ UNCHANGED allVars \/ TakeBatch \/ Prompt
             \/ SeekBatch \/ TakeLine \/ Parse \/ Exit \/ DriveA \/ DriveHome \/ Start
    BY <1>4, <1>5
    DEF ReadConsole, Check, Ended, allVars, TakeBatch, Prompt, SeekBatch, TakeLine, Parse,
        Exit, DriveA, DriveHome, Start, vars, driveVars
  <1>6. CASE Boot
    BY <1>4, <1>6 DEF Boot, WarmBoot
  <1>7. CASE \/ OpenBatch \/ ReadBatch \/ CloseBatch \/ DropBatch \/ Rename
             \/ Era \/ OpenType \/ Type \/ SaveMake \/ SaveOpen \/ SaveWrite \/ SaveClose
             \/ Open \/ OpenA \/ OpenHome \/ LoadRecord
    <2>1. \E f \in Fcb : FileCall(f)
      BY <1>1, <1>7, CommandType
      DEF OpenBatch, ReadBatch, CloseBatch, DropBatch, Rename, Era, OpenType, Type, SaveMake,
          SaveOpen, SaveWrite, SaveClose, Open, OpenA, OpenHome, LoadRecord, FileCall, CcpInv,
          Commands
    <2> QED
      BY <1>2, <2>1
  <1>8. CASE Reset \/ Home \/ Select
    BY <1>3, <1>8, CommandType DEF Reset, Home, Select, SystemCall, CcpInv, CcpTypeOK
  <1>9. CASE UserCommand \/ UserZero \/ UserBack \/ SaveDma \/ Load \/ LoadDma \/ Loaded \/ Lost
    BY <1>4, <1>9 DEF UserCommand, UserZero, UserBack, SaveDma, Load, LoadDma, Loaded, Lost,
       SetUser, SetDma, driveVars
  <1>10. CASE Dir
    BY <1>10 DEF Dir, SelectError, BdosError, Selected, ProtectInv
  <1>11. CASE ProgramCall \/ ProgramEnds
    BY <1>2, <1>3, <1>4, <1>11
    DEF ProgramCall, ProgramEnds, PrepareFcb, FillBuffer, StoreDrive, LeaveProgram, driveVars
  <1> QED
    BY <1>5, <1>6, <1>7, <1>8, <1>9, <1>10, <1>11
    DEF CcpNext, CcpStep, ReadInput, BuiltIn, External

LEMMA BatchStep ==
    ASSUME CcpInv, FoldersInv, BatchInv, [CcpNext]_allVars
    PROVE  BatchInv'
  <1> USE CcpFcbs
  <1>1. /\ TypeOK /\ 0 \in DriveByte /\ 0 \in disks
        /\ BatchFCB # CmdFCB /\ BatchFCB # ParFCB
    BY CcpAssumption DEF CcpInv, CcpTypeOK, DriveByte, FoldersInv
  <1>2. DOMAIN fcb = Fcb
    BY <1>1 DEF TypeOK
  <1>3. ASSUME fcb'[BatchFCB].dr = fcb[BatchFCB].dr, UNCHANGED sFlag,
               pc \notin {"home", "batch"}, pc' \notin {"home", "batch"},
               pc' \in ReadPcs \ {"console", "parse"} => sFlag
        PROVE  BatchInv'
    BY <1>3 DEF BatchInv
  <1>4. CASE UNCHANGED allVars \/ Ended
    BY <1>4 DEF Ended, allVars, vars, driveVars, hostVars, dataVars, ccpVars, BatchInv, Exists
  <1>5. CASE Reset
    <2>1. /\ pc' = "home" /\ UNCHANGED <<userCode, files>>
          /\ sFlag' => userCode \in SearchUsers /\ \E n \in SubName : Exists(<<0, userCode, n>>)
      <3>1. ASSUME sFlag'
            PROVE  userCode \in SearchUsers /\ \E n \in SubName : Exists(<<0, userCode, n>>)
        <4>1. hl' = 255 /\ ResetDisks
          BY <1>5, <3>1 DEF Reset
        <4> QED
          BY <1>1, <4>1 DEF ResetDisks
      <3>2. pc' = "home" /\ UNCHANGED <<userCode, files>>
        BY <1>5 DEF Reset, ResetDisks, hostVars
      <3> QED
        BY <3>1, <3>2
    <2>2. sFlag' => (userCode \in SearchUsers /\ \E n \in SubName : Exists(<<0, userCode, n>>))'
      BY <2>1 DEF Exists
    <2>3. pc' \notin ReadPcs \ {"console", "parse"}
      BY <2>1 DEF ReadPcs
    <2> QED
      BY <2>1, <2>2, <2>3 DEF BatchInv
  <1>6. CASE Home
    <2>1. /\ pc = "home" /\ pc' = "batch" /\ UNCHANGED <<userCode, files, sFlag>>
      BY <1>6 DEF Home, SelectDisk, hostVars
    <2> QED
      BY <2>1 DEF BatchInv, Exists, ReadPcs
  <1>7. CASE TakeBatch
    <2>1. ASSUME sFlag
          PROVE  fcb'[BatchFCB].dr = 1
      <3>1. PICK n \in SubName : fcb' = [fcb EXCEPT ![BatchFCB] = Named(1, n)]
        BY <1>7, <2>1 DEF TakeBatch, BatchInv
      <3> QED
        BY <1>2, <3>1 DEF Named, FreshFcb
    <2>2. pc' = "prompt" /\ UNCHANGED sFlag
      BY <1>7 DEF TakeBatch
    <2> QED
      BY <2>1, <2>2 DEF BatchInv, ReadPcs
  <1>8. CASE DropBatch
    <2>1. pc' = "parse" /\ sFlag' = FALSE
      BY <1>8 DEF DropBatch
    <2> QED
      BY <2>1 DEF BatchInv, ReadPcs
  <1>9. CASE Prompt
    <2>1. UNCHANGED <<fcb, sFlag>> /\ pc = "prompt"
          /\ pc' = IF sFlag THEN "openBatch" ELSE "console"
      BY <1>9 DEF Prompt, dataVars
    <2> QED
      BY <1>3, <2>1 DEF ReadPcs
  <1>10. CASE \/ ReadConsole \/ Check \/ SeekBatch \/ TakeLine \/ Exit \/ DriveA
              \/ DriveHome \/ Start \/ Boot
    <2>1. /\ UNCHANGED sFlag
          /\ pc \notin {"home", "batch"} /\ pc' \notin {"home", "batch"}
          /\ pc' \in ReadPcs \ {"console", "parse"} => pc \in ReadPcs \ {"console", "parse"}
      <3>1. CASE Check
        <4>1. pc' \in {"end", "boot", "prompt"} /\ pc = "check" /\ UNCHANGED sFlag
          BY <3>1 DEF Check
        <4> QED
          BY <4>1 DEF ReadPcs
      <3> QED
        BY <1>10, <3>1
        DEF ReadConsole, SeekBatch, TakeLine, Exit, DriveA, DriveHome, Start, Boot, ReadPcs
    <2>2. fcb'[BatchFCB].dr = fcb[BatchFCB].dr
      <3>1. CASE ReadConsole \/ Check \/ Exit \/ Boot
        BY <3>1 DEF ReadConsole, Check, Exit, Boot, WarmBoot, vars, dataVars
      <3>2. CASE DriveA \/ DriveHome \/ Start
        BY <1>1, <1>2, <3>2 DEF DriveA, DriveHome, Start
      <3>3. CASE SeekBatch \/ TakeLine
        <4>1. \/ fcb' = [fcb EXCEPT ![BatchFCB] = [fcb[BatchFCB] EXCEPT !.rc = @ - 1]]
              \/ fcb' = [fcb EXCEPT ![BatchFCB] =
                                [fcb[BatchFCB] EXCEPT !.cr = fcb[BatchFCB].rc - 1]]
          BY <3>3 DEF SeekBatch, TakeLine
        <4>2. fcb[BatchFCB] \in FcbOf(DriveByte, Name)
          BY <1>1, TargetType
        <4> QED
          BY <1>2, <4>1, <4>2 DEF FcbOf
      <3> QED
        BY <1>10, <3>1, <3>2, <3>3
    <2> QED
      BY <1>3, <2>1, <2>2 DEF BatchInv
  <1>11. CASE Parse
    <2>1. /\ UNCHANGED sFlag /\ pc = "parse" /\ fcb'[BatchFCB].dr = fcb[BatchFCB].dr
      BY <1>1, <1>2, <1>11 DEF Parse
    <2>2. pc' \notin {"home", "batch"} /\ pc' \notin ReadPcs \ {"console", "parse"}
      BY <1>11, ParsedTo DEF ReadPcs
    <2> QED
      BY <1>3, <2>1, <2>2
  <1>12. CASE OpenBatch \/ ReadBatch \/ CloseBatch
    <2>1. fcb'[BatchFCB].dr = fcb[BatchFCB].dr
      BY <1>1, <1>12, FileCallFcb DEF OpenBatch, ReadBatch, CloseBatch, FileCall
    <2>2. /\ UNCHANGED sFlag /\ pc \in ReadPcs \ {"console", "parse"}
          /\ pc' \notin {"home", "batch"}
      BY <1>12 DEF OpenBatch, ReadBatch, CloseBatch, ReadPcs
    <2> QED
      BY <1>3, <2>1, <2>2 DEF BatchInv, ReadPcs
  <1>13. CASE BuiltIn /\ ~Exit
    <2>1. fcb'[BatchFCB].dr = fcb[BatchFCB].dr
      <3>1. CASE \/ Era \/ OpenType \/ Type \/ SaveMake \/ SaveOpen \/ SaveWrite \/ SaveClose
                 \/ Rename
        <4>1. FileCall(ParFCB)
          BY <1>1, <3>1, CommandType
          DEF Era, OpenType, Type, SaveMake, SaveOpen, SaveWrite, SaveClose, Rename, FileCall,
              CcpInv, Commands
        <4> QED
          BY <1>1, <4>1, FileCallFcb
      <3>2. CASE Select \/ UserCommand \/ SaveDma
        BY <3>2 DEF Select, UserCommand, SaveDma, SelectDisk, SetUser, SetDma, dataVars
      <3>3. CASE Dir
        BY <3>3 DEF Dir, SelectError, dataVars
      <3> QED
        BY <1>13, <3>1, <3>2, <3>3 DEF BuiltIn
    <2>2. /\ UNCHANGED sFlag /\ pc \notin {"home", "batch"} /\ pc' \notin {"home", "batch"}
          /\ pc' \notin ReadPcs
      BY <1>13
      DEF BuiltIn, Select, Dir, Era, OpenType, Type, Rename, UserCommand, SaveMake, SaveOpen,
          SaveDma, SaveWrite, SaveClose, ReadPcs
    <2> QED
      BY <1>3, <2>1, <2>2
  <1>14. CASE External /\ ~DriveA /\ ~DriveHome /\ ~Start
    <2>1. fcb'[BatchFCB].dr = fcb[BatchFCB].dr
      <3>1. CASE Open \/ OpenA \/ OpenHome \/ LoadRecord
        <4>1. FileCall(CmdFCB)
          BY <3>1 DEF Open, OpenA, OpenHome, LoadRecord, FileCall
        <4> QED
          BY <1>1, <4>1, FileCallFcb
      <3>2. CASE UserZero \/ UserBack \/ Load \/ LoadDma \/ Loaded \/ Lost
        BY <1>1, <1>2, <3>2
        DEF UserZero, UserBack, Load, LoadDma, Loaded, Lost, SetUser, SetDma, dataVars
      <3> QED
        BY <1>14, <3>1, <3>2 DEF External
    <2>2. /\ UNCHANGED sFlag /\ pc \notin {"home", "batch"} /\ pc' \notin {"home", "batch"}
          /\ pc' \notin ReadPcs
      BY <1>14
      DEF External, Open, UserZero, OpenA, OpenHome, Load, LoadRecord, LoadDma, Loaded,
          UserBack, Lost, ReadPcs
    <2> QED
      BY <1>3, <2>1, <2>2
  <1>15. CASE ProgramCall \/ ProgramEnds
    <2>1. fcb'[BatchFCB].dr = fcb[BatchFCB].dr
      <3>1. CASE FileCall(ParFCB)
        BY <1>1, <3>1, FileCallFcb
      <3>2. CASE SystemCall
        BY <3>2 DEF SystemCall, ResetDisks, WriteProtectDisk, SelectDisk, SetDma, SetUser,
           MakeDisk, dataVars
      <3> QED
        BY <1>1, <1>2, <1>15, <3>1, <3>2
        DEF ProgramCall, ProgramEnds, PrepareFcb, FillBuffer, StoreDrive, LeaveProgram, dataVars
    <2>2. /\ UNCHANGED sFlag /\ pc \notin {"home", "batch"} /\ pc' \notin {"home", "batch"}
          /\ pc' \notin ReadPcs
      BY <1>15 DEF ProgramCall, ProgramEnds, ReadPcs
    <2> QED
      BY <1>3, <2>1, <2>2
  <1> QED
    BY <1>4, <1>5, <1>6, <1>7, <1>8, <1>9, <1>10, <1>11, <1>12, <1>13, <1>14, <1>15
    DEF CcpNext, CcpStep, ReadInput, BuiltIn, External

TryPcs == {"driveA", "user0", "openA", "driveHome", "openHome"}

\* Where the CCP is while it reads a line and finds and loads a program: in the drive of
\* the prompt, and in its user area unless that has been left for user 0.
PlaceInv ==
    /\ pc \in ReadPcs \cup FindPcs => cDrive = curDrive
    /\ pc \in ReadPcs \cup {"open", "driveA", "user0", "start"} => userCode = curUser
    /\ pc \notin (FindPcs \cup {"lost"}) \ {"open", "driveA", "user0", "start"} => user = 0
    /\ pc \in {"openA", "driveHome", "openHome"} => userCode = 0 /\ user = curUser
    /\ pc \in FindPcs => \/ user = 0 /\ userCode = curUser
                         \/ user = curUser /\ userCode = 0
    /\ pc \in {"userBack", "start"} => dmaAddr = DefDMA
    /\ pc \in LoadPcs \cup {"load"} => Target(CmdFCB) \in disks
    /\ pc \in TryPcs => Command.drive = 0
    /\ pc = "open" => fcb[CmdFCB].dr = Command.drive
    /\ pc \in {"user0", "openA"} => fcb[CmdFCB].dr = 1
    /\ pc = "openHome" => fcb[CmdFCB].dr = 0

LEMMA PlaceStep ==
    ASSUME CcpInv, FoldersInv, ProtectInv, BatchInv, PlaceInv, [CcpNext]_allVars
    PROVE  PlaceInv'
  <1> USE CcpFcbs DEF ReadPcs, FindPcs, TryPcs
  <1>1. /\ TypeOK /\ 0 \in DriveByte /\ 0 \in disks /\ cDrive \in disks /\ DOMAIN fcb = Fcb
        /\ BatchFCB # CmdFCB /\ CmdFCB # ParFCB
    BY CcpAssumption DEF CcpInv, CcpTypeOK, TypeOK, DriveByte, FoldersInv, DriveExists
  <1>2. ASSUME UNCHANGED line
        PROVE  Command' = Command
    BY <1>2 DEF Command
  <1>3. CASE UNCHANGED allVars \/ Ended
    BY <1>3 DEF Ended, allVars, vars, driveVars, hostVars, dataVars, ccpVars, PlaceInv, Command,
       Target
  <1>4. ASSUME UNCHANGED user, pc \notin FindPcs \cup {"lost"},
               pc' \notin ReadPcs \cup FindPcs \cup {"lost"}
        PROVE  PlaceInv'
    BY <1>4 DEF PlaceInv, LoadPcs
  <1>5. CASE Boot \/ Reset \/ Home \/ TakeBatch \/ BuiltIn \/ ProgramCall \/ ProgramEnds
    BY <1>4, <1>5
    DEF Boot, Reset, Home, TakeBatch, BuiltIn, Select, Dir, Era, OpenType, Type, Rename,
        UserCommand, Exit, SaveMake, SaveOpen, SaveDma, SaveWrite, SaveClose, ProgramCall,
        ProgramEnds
  <1>6. CASE Check
    <2>1. pc' \in {"end", "boot", "prompt"} /\ pc = "check" /\ UNCHANGED user
      BY <1>6 DEF Check
    <2> QED
      BY <1>4, <2>1
  <1>7. CASE Prompt
    <2>1. /\ pc = "prompt" /\ pc' \in {"openBatch", "console"} /\ UNCHANGED user
          /\ cDrive' = curDrive' /\ userCode' = curUser'
      BY <1>7 DEF Prompt
    <2> QED
      BY <2>1 DEF PlaceInv, LoadPcs
  <1>8. ASSUME pc \in ReadPcs, pc' \in ReadPcs,
               UNCHANGED <<cDrive, curDrive, userCode, curUser, user>>
        PROVE  PlaceInv'
    BY <1>8 DEF PlaceInv, LoadPcs
  <1>9. CASE ReadConsole \/ SeekBatch \/ TakeLine
    BY <1>8, <1>9 DEF ReadConsole, SeekBatch, TakeLine, vars, driveVars
  <1>10. CASE OpenBatch \/ ReadBatch \/ CloseBatch \/ DropBatch
    <2>1. FileCall(BatchFCB)
      BY <1>10 DEF OpenBatch, ReadBatch, CloseBatch, DropBatch, FileCall
    <2>2. /\ pc \in ReadPcs \ {"console", "parse"} /\ pc' \in ReadPcs
          /\ UNCHANGED <<curDrive, curUser, user>>
      BY <1>10 DEF OpenBatch, ReadBatch, CloseBatch, DropBatch
    <2>3. fcb[BatchFCB].dr = 1
      BY <2>2 DEF BatchInv
    <2>4. Target(BatchFCB) = 0
      BY <2>3 DEF Target
    <2>5. 1 \in roVector => cDrive = oDrive
      BY DEF ProtectInv
    <2>6. UNCHANGED <<cDrive, userCode>>
      BY <1>1, <2>1, <2>3, <2>4, <2>5, FileCallDrive, FileCallKeeps
    <2> QED
      BY <1>8, <2>2, <2>6
  <1>11. CASE Parse
    <2>1. /\ pc = "parse" /\ UNCHANGED <<user, line>>
          /\ pc' \in {"prompt", "check", "select", "dir", "era", "openType", "make",
                       "rename", "user", "exit", "open"}
          /\ pc' = "open" => Command.op = "ext"
      BY <1>11, ParsedTo DEF Parse
    <2>2. CASE pc' = "open"
      <3>1. /\ fcb' = [fcb EXCEPT ![CmdFCB] = Named(Command.drive, Command.name),
                                   ![ParFCB] = Named(Command.parDrive, Command.parName)]
            /\ UNCHANGED <<cDrive, userCode, curDrive, curUser>>
        BY <1>11, <2>1, <2>2 DEF Parse, driveVars
      <3>2. fcb'[CmdFCB] = Named(Command.drive, Command.name)
        BY <1>1, <3>1
      <3>3. fcb'[CmdFCB].dr = Command'.drive
        BY <1>2, <2>1, <3>2 DEF Named, FreshFcb
      <3> QED
        BY <2>1, <2>2, <3>1, <3>3 DEF PlaceInv, LoadPcs
    <2>3. CASE pc' # "open"
      BY <1>4, <2>1, <2>3
    <2> QED
      BY <2>2, <2>3
  <1>12. ASSUME pc \in FindPcs, FileCall(CmdFCB), UNCHANGED <<curDrive, curUser, user, line>>,
                Target(CmdFCB) \in disks, fcb[CmdFCB].dr \in roVector => cDrive' = cDrive
         PROVE  /\ UNCHANGED <<cDrive, userCode, disks>> /\ fcb'[CmdFCB].dr = fcb[CmdFCB].dr
                /\ Target(CmdFCB)' = Target(CmdFCB)
    <2>1. UNCHANGED <<cDrive, userCode, disks>>
      BY <1>12, FileCallDrive, FileCallKeeps
    <2>2. fcb'[CmdFCB].dr = fcb[CmdFCB].dr
      BY <1>1, <1>12, FileCallFcb
    <2> QED
      BY <2>1, <2>2 DEF Target
  <1>13. CASE Open
    <2>1. /\ pc = "open" /\ UNCHANGED <<curDrive, curUser, user, line>> /\ OpenFile(CmdFCB)
          /\ pc' = IF hl' = 0 THEN "load" ELSE IF Command.drive # 0 THEN "lost" ELSE "driveA"
          /\ FileCall(CmdFCB)
      BY <1>13 DEF Open, FileCall
    <2>2. CASE Target(CmdFCB) \in disks
      <3>1. UNCHANGED cDrive
        BY <2>1, <2>2 DEF OpenFile, SelectError, Selected
      <3>2. /\ UNCHANGED <<cDrive, userCode, disks>>
            /\ Target(CmdFCB)' = Target(CmdFCB)
        BY <1>12, <2>1, <2>2, <3>1
      <3> QED
        BY <1>2, <2>1, <2>2, <3>2 DEF PlaceInv, LoadPcs
    <2>3. CASE Target(CmdFCB) \notin disks
      <3>1. Command.drive # 0 /\ hl' # 0
        BY <1>1, <2>1, <2>3 DEF PlaceInv, Target, OpenFile, SelectError, Selected
      <3> QED
        BY <2>1, <3>1 DEF PlaceInv, LoadPcs
    <2> QED
      BY <2>2, <2>3
  <1>14. CASE DriveA
    <2>1. /\ pc = "driveA" /\ fcb'[CmdFCB].dr = 1 /\ pc' = IF curUser # 0 THEN "user0" ELSE "openA"
          /\ UNCHANGED <<cDrive, userCode, curDrive, curUser, user, line>>
      BY <1>1, <1>14, TargetType DEF DriveA, driveVars, FcbOf
    <2> QED
      BY <1>2, <2>1 DEF PlaceInv, LoadPcs
  <1>15. CASE UserZero
    <2>1. /\ pc = "user0" /\ pc' = "openA" /\ userCode' = 0 /\ user' = curUser
          /\ UNCHANGED <<cDrive, curDrive, curUser, line, fcb>>
      BY <1>15 DEF UserZero, SetUser, dataVars
    <2> QED
      BY <1>2, <2>1 DEF PlaceInv, LoadPcs
  <1>16. CASE OpenA \/ OpenHome
    <2>1. /\ pc \in {"openA", "openHome"} /\ UNCHANGED <<curDrive, curUser, user, line>>
          /\ pc' \in {"load", "driveHome", "lost"} /\ OpenFile(CmdFCB) /\ FileCall(CmdFCB)
      BY <1>16 DEF OpenA, OpenHome, FileCall
    <2>2. Target(CmdFCB) \in disks
      BY <1>1, <2>1 DEF PlaceInv, Target
    <2>3. UNCHANGED cDrive
      BY <2>1, <2>2 DEF OpenFile, SelectError, Selected
    <2>4. UNCHANGED <<cDrive, userCode, disks>> /\ Target(CmdFCB)' = Target(CmdFCB)
      BY <1>12, <2>1, <2>2, <2>3
    <2> QED
      BY <1>2, <2>1, <2>2, <2>4 DEF PlaceInv, LoadPcs
  <1>17. CASE DriveHome
    <2>1. /\ pc = "driveHome" /\ fcb'[CmdFCB].dr = 0 /\ pc' = "openHome"
          /\ UNCHANGED <<cDrive, userCode, curDrive, curUser, user, line>>
      BY <1>1, <1>17, TargetType DEF DriveHome, driveVars, FcbOf
    <2> QED
      BY <1>2, <2>1 DEF PlaceInv, LoadPcs
  <1>18. CASE Load \/ LoadDma \/ Loaded
    <2>1. /\ pc \in {"load", "dmaLoad", "loaded"}
          /\ UNCHANGED <<cDrive, userCode, disks, fcb, curDrive, curUser, user>>
          /\ \/ pc' = "loading" /\ pc \in {"load", "dmaLoad"}
             \/ pc' = "userBack" /\ dmaAddr' = DefDMA
             \/ pc' = "start" /\ dmaAddr' = DefDMA /\ user = 0
      BY <1>18 DEF Load, LoadDma, Loaded, SetDma, driveVars, hostVars
    <2>2. Target(CmdFCB)' = Target(CmdFCB)
      BY <2>1 DEF Target
    <2> QED
      BY <2>1, <2>2 DEF PlaceInv, LoadPcs
  <1>19. CASE LoadRecord
    <2>1. /\ pc = "loading" /\ UNCHANGED <<curDrive, curUser, user, line>>
          /\ pc' \in {"dmaLoad", "loaded"} /\ ReadSeq(CmdFCB) /\ FileCall(CmdFCB)
      BY <1>19 DEF LoadRecord, FileCall
    <2>2. Target(CmdFCB) \in disks
      BY <2>1 DEF PlaceInv, LoadPcs
    <2>3. UNCHANGED cDrive
      BY <2>1, <2>2 DEF ReadSeq, SelectError, Selected
    <2>4. UNCHANGED <<cDrive, userCode, disks>> /\ Target(CmdFCB)' = Target(CmdFCB)
      BY <1>12, <2>1, <2>2, <2>3
    <2> QED
      BY <2>1, <2>2, <2>4 DEF PlaceInv, LoadPcs
  <1>20. CASE UserBack
    <2>1. /\ pc = "userBack" /\ pc' = "start" /\ userCode' = curUser /\ user' = 0
          /\ UNCHANGED <<cDrive, curDrive, curUser, dmaAddr>>
      BY <1>20 DEF UserBack, SetUser, dataVars
    <2> QED
      BY <2>1 DEF PlaceInv, LoadPcs
  <1>21. CASE Start
    <2>1. pc = "start" /\ pc' = "program" /\ UNCHANGED user
      BY <1>21 DEF Start
    <2> QED
      BY <2>1 DEF PlaceInv, LoadPcs
  <1>22. CASE Lost
    <2>1. pc' \in {"lost", "check"} /\ user' = 0
      BY <1>22 DEF Lost
    <2> QED
      BY <2>1 DEF PlaceInv, LoadPcs
  <1> QED
    BY <1>3, <1>5, <1>6, <1>7, <1>9, <1>10, <1>11, <1>13, <1>14, <1>15, <1>16, <1>17, <1>18,
       <1>19, <1>20, <1>21, <1>22
    DEF CcpNext, CcpStep, ReadInput, External

LEMMA StartStep ==
    ASSUME CcpInv, PlaceInv, StartsAtPrompt, [CcpNext]_allVars
    PROVE  StartsAtPrompt'
  <1>1. CASE UNCHANGED allVars \/ Ended
    BY <1>1 DEF Ended, allVars, vars, driveVars, dataVars, ccpVars, StartsAtPrompt, Starting,
       Command
  <1>2. CASE Start
    <2>1. /\ pc = "start" /\ fcb' = [fcb EXCEPT ![CmdFCB].dr = Command.drive]
          /\ UNCHANGED <<cDrive, curDrive, userCode, curUser, user, dmaAddr, line>>
      BY <1>2 DEF Start, driveVars
    <2>2. fcb'[CmdFCB].dr = Command'.drive
      BY <2>1, CcpFcbs, TargetType DEF Command, CcpInv, CcpTypeOK, TypeOK, FcbOf
    <2> QED
      BY <2>1, <2>2 DEF PlaceInv, StartsAtPrompt, ReadPcs, FindPcs
  <1>3. CASE ProgramCall
    <2>1. calls' # 0
      BY <1>3 DEF ProgramCall, CcpInv, CcpTypeOK
    <2> QED
      BY <2>1 DEF StartsAtPrompt, Starting
  <1>4. CASE Parse
    BY <1>4, ParsedTo DEF StartsAtPrompt, Starting
  <1>5. CASE ~(UNCHANGED allVars \/ Ended \/ Start \/ ProgramCall \/ Parse)
    <2>1. pc' # "program"
      BY <1>5
      DEF CcpNext, CcpStep, ReadInput, BuiltIn, External, Boot, Reset, Home, TakeBatch,
         Prompt, Check, OpenBatch, SeekBatch, ReadBatch, TakeLine, CloseBatch, DropBatch,
         Select, Dir, Era, OpenType, Type, Rename, UserCommand, Exit, SaveMake, SaveOpen,
         SaveDma, SaveWrite, SaveClose, Open, DriveA, UserZero, OpenA, DriveHome, OpenHome,
         Load, LoadRecord, LoadDma, Loaded, UserBack, Lost, ReadConsole, ProgramEnds
    <2> QED
      BY <2>1 DEF StartsAtPrompt, Starting
  <1> QED
    BY <1>1, <1>2, <1>3, <1>4, <1>5

\* All that the CCP's control state stands for.
CcpStateInv == CcpInv /\ FoldersInv /\ ProtectInv /\ BatchInv /\ PlaceInv

LEMMA CcpStateInit ==
    ASSUME CcpInit
    PROVE  CcpStateInv /\ StartsAtPrompt
  <1>1. CcpInv /\ FoldersInv
    BY CcpInvInit, CcpFoldersInit
  <1>2. /\ pc = "reset" /\ user = 0 /\ sFlag = FALSE /\ cDrive = oDrive
    BY DEF CcpInit, PowerOn
  <1> QED
    BY <1>1, <1>2 DEF CcpStateInv, ProtectInv, BatchInv, PlaceInv, StartsAtPrompt, Starting,
       ReadPcs, FindPcs, TryPcs, LoadPcs

LEMMA CcpStateStep ==
    ASSUME CcpStateInv, [CcpNext]_allVars
    PROVE  CcpStateInv'
  BY CcpInvStep, CcpFoldersStep, ProtectStep, BatchStep, PlaceStep DEF CcpStateInv

\* A program starts in the drive and user area of the prompt, with the default DMA
\* address and its FCB as it was typed, however often the search for it moved to drive A:
\* and user area 0 and whatever failed on the way (_ccp_ext, _error).
THEOREM CcpStartsAtPrompt == CcpSpec => []StartsAtPrompt
  <1>1. CcpInit => CcpStateInv /\ StartsAtPrompt
    BY CcpStateInit
  <1>2. CcpStateInv /\ StartsAtPrompt /\ [CcpNext]_allVars => (CcpStateInv /\ StartsAtPrompt)'
    BY CcpStateStep, StartStep DEF CcpStateInv
  <1> QED
    BY <1>1, <1>2, PTL DEF CcpSpec

-----------------------------------------------------------------------------
(* The line that is run.                                                   *)

LineInv ==
    /\ pc = "closeBatch" => fresh = TRUE
    /\ pc = "parse" => fresh = TRUE \/ sFlag = FALSE

\* A line is run again only when the submit file is lost, and that ends the submit, so it
\* is run again once (_ccp_readInput).
THEOREM CcpStaleLine == CcpSpec => []StaleLineEndsSubmit
  <1>1. CcpInit => LineInv
    BY DEF CcpInit, LineInv
  <1>2. CcpInv /\ LineInv /\ [CcpNext]_allVars => LineInv'
    <2> SUFFICES ASSUME CcpInv, LineInv, [CcpNext]_allVars
                 PROVE  LineInv'
      OBVIOUS
    <2>1. CASE ReadConsole \/ TakeLine \/ DropBatch
      BY <2>1 DEF ReadConsole, TakeLine, DropBatch, LineInv
    <2>2. CASE CloseBatch
      BY <2>2 DEF CloseBatch, LineInv
    <2>3. CASE UNCHANGED allVars \/ Ended
      BY <2>3 DEF Ended, allVars, ccpVars, LineInv
    <2>4. CASE Parse
      BY <2>4, ParsedTo DEF LineInv
    <2>5. CASE ~(\/ ReadConsole \/ TakeLine \/ DropBatch \/ CloseBatch \/ UNCHANGED allVars
                 \/ Ended \/ Parse)
      <3>1. pc' \notin {"closeBatch", "parse"}
        BY <2>5
        DEF CcpNext, CcpStep, ReadInput, BuiltIn, External, Boot, Reset, Home, TakeBatch,
           Prompt, Check, OpenBatch, SeekBatch, ReadBatch, Select, Dir, Era, OpenType, Type,
           Rename, UserCommand, Exit, SaveMake, SaveOpen, SaveDma, SaveWrite, SaveClose,
           Open, DriveA, UserZero, OpenA, DriveHome, OpenHome, Load, LoadRecord, LoadDma,
           Loaded, UserBack, Start, Lost, ProgramCall, ProgramEnds
      <3> QED
        BY <3>1 DEF LineInv
    <2> QED
      BY <2>1, <2>2, <2>3, <2>4, <2>5
  <1>3. LineInv => StaleLineEndsSubmit
    BY DEF LineInv, StaleLineEndsSubmit
  <1>4. CcpInit => CcpInv
    BY CcpInvInit
  <1>5. CcpInv /\ [CcpNext]_allVars => CcpInv'
    BY CcpInvStep
  <1> QED
    BY <1>1, <1>2, <1>3, <1>4, <1>5, PTL DEF CcpSpec
-----------------------------------------------------------------------------
(* What is loaded is the file that the search finds first.                 *)

\* The i-th place to look holds the file, and no place before it does.
FirstAt(i) ==
    /\ i \in DOMAIN Places(Command) /\ Exists(Places(Command)[i])
    /\ \A j \in 1..(i - 1) : ~Exists(Places(Command)[j])

\* The first n records of the program are in place.
Copied(i, n) ==
    \A k \in 1..n : InFile(files[Places(Command)[i]], k - 1)
                       => mem[k] = files[Places(Command)[i]].data[k - 1]

FromFile == \E i \in Nat : FirstAt(i) /\ Copied(i, TpaRecords)

\* The FCB names the place where the program was found, and n records are in place.
Located(n) ==
    \E i \in Nat : Path(CmdFCB) = Places(Command)[i] /\ FirstAt(i) /\ Copied(i, n)

\* Records fetched so far.
Fetched == IF pc = "load" THEN 0 ELSE addr - 1

FoundInv ==
    /\ pc = "open" => fcb[CmdFCB] = Named(Command.drive, Command.name)
    /\ pc \in TryPcs => /\ fcb[CmdFCB] = Named(fcb[CmdFCB].dr, Command.name)
                        /\ ~Exists(Places(Command)[1])
    /\ pc \in {"driveHome", "openHome"} => ~Exists(Places(Command)[2])
    /\ pc \in LoadPcs \cup {"load"} =>
           /\ fcb[CmdFCB].s2 = S2Flag
           /\ SeqRecord(fcb[CmdFCB]) = Fetched
           /\ \E n \in Nat : n = Fetched /\ Located(n)
    /\ pc = "loading" => dmaAddr = addr
    /\ pc \in {"loaded", "userBack", "start"} \/ Starting => FromFile

\* A file that an open finds is at its start.
LEMMA OpenedAtStart ==
    ASSUME TypeOK, NEW f \in Fcb, NEW d \in DriveByte, NEW n \in Name, OpenFile(f), hl' = 0,
           fcb[f] = Named(d, n)
    PROVE  /\ Exists(Path(f)) /\ UNCHANGED <<cDrive, userCode, files, mem>>
           /\ Path(f)' = Path(f)
           /\ fcb'[f].s2 = S2Flag /\ SeqRecord(fcb'[f]) = 0
  <1>1. Exists(Path(f)) /\ Selected(f, 0) /\ UNCHANGED <<files, mem>>
    BY DEF OpenFile, SelectError, Selected
  <1>2. PICK rc : fcb' = [fcb EXCEPT ![f] = [fcb[f] EXCEPT !.s2 = S2Flag, !.rc = rc]]
    <2>1. PICK len : len = FileSize(files[Path(f)]) \div BlkSZ
      OBVIOUS
    <2>2. fcb' = [fcb EXCEPT ![f] = [fcb[f] EXCEPT !.s2 = S2Flag,
                                              !.rc = IF len > MaxRC THEN MaxRC ELSE len]]
      BY <2>1 DEF OpenFile, SelectError, Selected
    <2> QED
      BY <2>2
  <1>3. fcb[f] = [dr |-> d, name |-> n, rc |-> 0, cr |-> 0, ex |-> 0, s2 |-> 0, r |-> 0]
    BY DEF Named, FreshFcb
  <1>4. /\ fcb'[f].dr = d /\ fcb'[f].name = n /\ fcb'[f].cr = 0 /\ fcb'[f].ex = 0
        /\ fcb'[f].s2 = S2Flag
    <2>1. fcb'[f] = [fcb[f] EXCEPT !.s2 = S2Flag, !.rc = rc]
      BY <1>2 DEF TypeOK
    <2> QED
      BY <1>3, <2>1
  <1>5. Module(S2Flag) = 0
    <2>1. Module(0 + S2Flag) = 0
      BY FlagRange, Widths
    <2> QED
      BY <2>1, Widths
  <1>6. SeqRecord(fcb'[f]) = 0
    BY <1>4, <1>5, Widths DEF SeqRecord
  <1>7. Path(f)' = Path(f) /\ UNCHANGED <<cDrive, userCode>>
    BY <1>1, <1>3, <1>4 DEF Selected, Path, Target
  <1> QED
    BY <1>1, <1>4, <1>6, <1>7

\* A file that an open does not find, on a drive that is there, is not there.
LEMMA NotOpened ==
    ASSUME TypeOK, NEW f \in Fcb, OpenFile(f), hl' # 0, Target(f) \in disks
    PROVE  ~Exists(Path(f)) /\ UNCHANGED <<cDrive, userCode, files, fcb>>
  BY DEF OpenFile, SelectError, Selected

\* A step inside the first module of a file leaves s2 alone.
LEMMA AdvanceInside ==
    ASSUME NEW F \in FcbOf(DriveByte, Name), Module(F.s2) = 0,
           NEW a \in 1..(BlkS2 - 1), SeqRecord(F) = a - 1
    PROVE  Advance(F).s2 = F.s2 /\ SeqRecord(Advance(F)) = a
  <1>1. /\ F.cr \in 0..BlkEX /\ F.ex \in 0..MaxEX /\ MaxCR = BlkEX
        /\ BlkEX \in Nat /\ MaxEX \in Nat /\ BlkS2 \in Nat
    BY Widths DEF FcbOf
  <1>2. F.ex * BlkEX \in Nat /\ MaxEX * BlkEX \in Nat
    BY <1>1
  <1>3. a - 1 = F.ex * BlkEX + F.cr
    BY <1>1, <1>2 DEF SeqRecord
  <1>4. BlkS2 = MaxEX * BlkEX + BlkEX
    BY <1>1 DEF BlkS2
  <1>5. ~(F.ex = MaxEX /\ F.cr = BlkEX)
    BY <1>1, <1>2, <1>3, <1>4
  <1>6. F.cr + 1 > MaxCR => F.ex + 1 <= MaxEX
    BY <1>1, <1>5
  <1>7. Advance(F).s2 = F.s2
    BY <1>1, <1>6 DEF Advance, FcbOf
  <1>8. a - 1 # Capacity
    BY Widths
  <1> QED
    BY <1>7, <1>8, AdvanceNext

\* A read of one more record of a program, and where the search leaves off.
LEMMA LoadOne ==
    ASSUME TypeOK, NEW f \in Fcb, ReadSeq(f), Target(f) \in disks, Exists(Path(f)),
           NEW a \in 1..(BlkS2 - 1), fcb[f].s2 = S2Flag, SeqRecord(fcb[f]) = a - 1,
           dmaAddr = a
    PROVE  /\ UNCHANGED files /\ Path(f)' = Path(f)
           /\ hl' = 0 => /\ InFile(files[Path(f)], a - 1)
                         /\ mem' = [mem EXCEPT ![a] = files[Path(f)].data[a - 1]]
                         /\ fcb'[f].s2 = S2Flag /\ SeqRecord(fcb'[f]) = a
           /\ hl' # 0 => ~InFile(files[Path(f)], a - 1) /\ mem' = mem
  <1>1. ~SelectError(f)
    BY DEF SelectError
  <1>2. CASE ~InFile(files[Path(f)], a - 1)
    <2>1. Selected(f, 1) /\ UNCHANGED <<files, fcb, mem>>
      BY <1>1, <1>2 DEF ReadSeq
    <2> QED
      BY <1>2, <2>1 DEF Selected, Path, Target
  <1>3. CASE InFile(files[Path(f)], a - 1)
    <2>1. /\ mem' = [mem EXCEPT ![a] = files[Path(f)].data[a - 1]]
          /\ fcb' = [fcb EXCEPT ![f] = Advance(fcb[f])]
          /\ Selected(f, IF MarkModified(fcb'[f].s2) > MaxS2 THEN 254 ELSE 0)
          /\ UNCHANGED files
      BY <1>1, <1>3 DEF ReadSeq, FetchRecord
    <2>2. fcb[f] \in FcbOf(DriveByte, Name) /\ fcb'[f] = Advance(fcb[f])
      BY <2>1, TargetType DEF TypeOK
    <2>3. SeqRecord(fcb'[f]) = a
      <3>1. a - 1 # Capacity
        BY Widths
      <3> QED
        BY <2>2, <3>1, AdvanceNext
    <2>4. fcb'[f].s2 = S2Flag
      <3>1. Module(fcb[f].s2) = 0
        <4>1. Module(0 + S2Flag) = 0
          BY FlagRange, Widths
        <4> QED
          BY <4>1, Widths
      <3> QED
        BY <2>2, <3>1, AdvanceInside
    <2>5. MarkModified(S2Flag) = 0
      BY Widths DEF MarkModified
    <2>6. hl' = 0 /\ UNCHANGED <<cDrive, userCode>>
      BY <2>1, <2>4, <2>5, Widths DEF Selected
    <2>7. Path(f)' = Path(f)
      <3>1. FileCall(f)
        BY DEF FileCall
      <3> QED
        BY <2>6, <3>1, FileCallFcb DEF Path, Target
    <2> QED
      BY <1>3, <2>1, <2>3, <2>4, <2>6, <2>7
  <1> QED
    BY <1>2, <1>3

LEMMA PlacesAre ==
    /\ Command.drive = 0 =>
           /\ DOMAIN Places(Command) = 1..3
           /\ Places(Command)[1] = <<curDrive, curUser, Command.name>>
           /\ Places(Command)[2] = <<0, 0, Command.name>>
           /\ Places(Command)[3] = <<curDrive, 0, Command.name>>
    /\ Command.drive # 0 =>
           /\ DOMAIN Places(Command) = 1..1
           /\ Places(Command)[1] = <<Command.drive - 1, curUser, Command.name>>
  BY DEF Places

\* What a step that changes neither files nor the prompt's place leaves as it was.
LEMMA SamePlaces ==
    ASSUME UNCHANGED <<curDrive, curUser, line, files>>
    PROVE  /\ Command' = Command /\ Places(Command)' = Places(Command)
           /\ \A i : FirstAt(i)' = FirstAt(i)
           /\ UNCHANGED mem => \A i, n : Copied(i, n)' = Copied(i, n)
           /\ UNCHANGED mem => FromFile' = FromFile
           /\ UNCHANGED mem /\ Path(CmdFCB)' = Path(CmdFCB)
                  => \A n : Located(n)' = Located(n)
  <1>1. Command' = Command
    BY DEF Command
  <1>2. Places(Command)' = Places(Command)
    BY <1>1 DEF Places
  <1>3. ASSUME NEW i
        PROVE  FirstAt(i)' = FirstAt(i)
    BY <1>1, <1>2 DEF FirstAt, Exists
  <1>4. ASSUME UNCHANGED mem, NEW i, NEW n
        PROVE  Copied(i, n)' = Copied(i, n)
    BY <1>2, <1>4 DEF Copied
  <1>5. ASSUME UNCHANGED mem
        PROVE  FromFile' = FromFile
    BY <1>3, <1>4, <1>5 DEF FromFile
  <1>6. ASSUME UNCHANGED mem, Path(CmdFCB)' = Path(CmdFCB), NEW n
        PROVE  Located(n)' = Located(n)
    BY <1>2, <1>3, <1>4, <1>6 DEF Located
  <1> QED
    BY <1>1, <1>2, <1>3, <1>4, <1>5, <1>6

LEMMA FoundStep ==
    ASSUME CcpStateInv, FoundInv, [CcpNext]_allVars
    PROVE  FoundInv'
  <1> USE CcpFcbs
  <1>1. /\ CcpInv /\ TypeOK /\ PlaceInv /\ CmdFCB # ParFCB /\ DOMAIN fcb = Fcb
        /\ TpaRecords \in Nat /\ TpaRecords <= BlkS2 - 1 /\ BlkS2 \in Nat
        /\ Command.drive \in DriveByte /\ Command.name \in Name
        /\ 0 \in DriveByte /\ 1 \in DriveByte /\ 0 \in disks /\ cDrive \in disks
    <2>1. CcpInv /\ TypeOK /\ PlaceInv /\ FoldersInv /\ CmdFCB # ParFCB /\ DOMAIN fcb = Fcb
      BY CcpAssumption DEF CcpStateInv, CcpInv, CcpTypeOK, TypeOK
    <2>2. TpaRecords \in Nat /\ TpaRecords <= BlkS2 - 1 /\ BlkS2 \in Nat
      BY CcpAssumption, Widths
    <2>3. Command.drive \in DriveByte /\ Command.name \in Name
      BY <2>1, CommandType DEF CcpInv, Commands
    <2>4. 0 \in DriveByte /\ 1 \in DriveByte
      BY DriveAssumption DEF DriveByte
    <2> QED
      BY <2>1, <2>2, <2>3, <2>4 DEF FoldersInv, DriveExists
  <1>2. ASSUME pc' \notin {"open", "loaded", "userBack", "start", "load"} \cup TryPcs \cup LoadPcs,
               ~Starting'
        PROVE  FoundInv'
    <2>1. /\ pc' # "open" /\ pc' \notin TryPcs /\ pc' \notin {"driveHome", "openHome"}
          /\ pc' \notin LoadPcs \cup {"load"} /\ pc' # "loading"
          /\ pc' \notin {"loaded", "userBack", "start"}
      BY <1>2 DEF TryPcs, LoadPcs
    <2> QED
      BY <1>2, <2>1 DEF FoundInv
  <1>3. CASE UNCHANGED allVars \/ Ended
    <2>1. UNCHANGED <<pc, curDrive, curUser, line, files, mem, fcb, addr, dmaAddr, cDrive,
                      userCode, calls>>
      BY <1>3 DEF Ended, allVars, vars, driveVars, hostVars, dataVars, ccpVars
    <2>2. /\ Path(CmdFCB)' = Path(CmdFCB) /\ Starting' = Starting /\ Fetched' = Fetched
          /\ SeqRecord(fcb[CmdFCB])' = SeqRecord(fcb[CmdFCB])
      BY <2>1 DEF Path, Target, Starting, Fetched, SeqRecord
    <2>3. ASSUME pc \in LoadPcs \cup {"load"}
          PROVE  \E n \in Nat : n = Fetched' /\ Located(n)'
      BY <2>1, <2>2, <2>3, SamePlaces DEF FoundInv
    <2>4. /\ Command' = Command /\ FromFile' = FromFile
          /\ Exists(Places(Command)[1])' = Exists(Places(Command)[1])
          /\ Exists(Places(Command)[2])' = Exists(Places(Command)[2])
      BY <2>1, SamePlaces DEF Exists
    <2> QED
      BY <2>1, <2>2, <2>3, <2>4 DEF FoundInv
  <1>11. ASSUME NEW i \in Nat, pc' = "load", Path(CmdFCB)' = Places(Command)'[i], FirstAt(i)',
                fcb'[CmdFCB].s2 = S2Flag, SeqRecord(fcb'[CmdFCB]) = 0
         PROVE  FoundInv'
    <2>1. Copied(i, 0)'
      BY DEF Copied
    <2>2. Located(0)' /\ Fetched' = 0
      BY <1>11, <2>1 DEF Located, Fetched
    <2> QED
      BY <1>11, <2>2 DEF FoundInv, TryPcs, LoadPcs, Starting
  <1>4. CASE Parse
    <2>1. CASE pc' = "open"
      <3>1. /\ fcb' = [fcb EXCEPT ![CmdFCB] = Named(Command.drive, Command.name),
                                   ![ParFCB] = Named(Command.parDrive, Command.parName)]
            /\ Command' = Command
        BY <1>4, <2>1, ParsedTo, <1>1 DEF Parse, Command
      <3>2. fcb'[CmdFCB] = Named(Command'.drive, Command'.name)
        BY <1>1, <3>1
      <3> QED
        BY <2>1, <3>2 DEF FoundInv, TryPcs, LoadPcs, Starting, Named, FreshFcb
    <2>2. CASE pc' # "open"
      BY <1>1, <1>2, <1>4, <2>2, ParsedTo DEF TryPcs, LoadPcs, Starting
    <2> QED
      BY <2>1, <2>2
  <1>5. CASE Open
    <2>1. /\ pc = "open" /\ UNCHANGED <<curDrive, curUser, line>> /\ OpenFile(CmdFCB)
          /\ pc' = IF hl' = 0 THEN "load" ELSE IF Command.drive # 0 THEN "lost" ELSE "driveA"
      BY <1>5 DEF Open
    <2>2. /\ fcb[CmdFCB] = Named(Command.drive, Command.name)
          /\ fcb[CmdFCB].dr = Command.drive /\ fcb[CmdFCB].name = Command.name
          /\ cDrive = curDrive /\ userCode = curUser
      BY <1>1, <2>1 DEF FoundInv, PlaceInv, FindPcs, ReadPcs, Named, FreshFcb
    <2>3. Path(CmdFCB) = Places(Command)[1] /\ 1 \in DOMAIN Places(Command)
      BY <2>2, PlacesAre DEF Path, Target
    <2>4. CASE hl' = 0
      <3>1. /\ Exists(Path(CmdFCB)) /\ UNCHANGED <<files, mem>>
            /\ Path(CmdFCB)' = Path(CmdFCB)
            /\ fcb'[CmdFCB].s2 = S2Flag /\ SeqRecord(fcb'[CmdFCB]) = 0
        BY <1>1, <2>1, <2>2, <2>4, OpenedAtStart
      <3>2. FirstAt(1)
        BY <2>3, <3>1 DEF FirstAt
      <3>3. pc' = "load" /\ Path(CmdFCB)' = Places(Command)'[1] /\ FirstAt(1)'
        BY <2>1, <2>3, <2>4, <3>1, <3>2, SamePlaces
      <3> QED
        BY <1>11, <3>1, <3>3
    <2>5. CASE hl' # 0 /\ Command.drive = 0
      <3>1. ~Exists(Path(CmdFCB)) /\ UNCHANGED <<files, fcb>>
        BY <1>1, <2>1, <2>2, <2>5, NotOpened DEF Target
      <3>2. Command' = Command /\ ~Exists(Places(Command)[1])'
        BY <2>1, <2>3, <3>1, SamePlaces DEF Exists
      <3> QED
        BY <2>1, <2>2, <2>5, <3>1, <3>2 DEF FoundInv, TryPcs, LoadPcs, Starting
    <2>6. CASE hl' # 0 /\ Command.drive # 0
      BY <1>2, <2>1, <2>6 DEF TryPcs, LoadPcs, Starting
    <2> QED
      BY <2>4, <2>5, <2>6
  <1>6. CASE DriveA \/ DriveHome
    <2>1. PICK d \in {0, 1} : fcb' = [fcb EXCEPT ![CmdFCB].dr = d]
      BY <1>6 DEF DriveA, DriveHome
    <2>2. /\ pc \in {"driveA", "driveHome"} /\ UNCHANGED <<curDrive, curUser, line, files>>
          /\ pc = "driveA" => pc' \in {"user0", "openA"}
          /\ pc = "driveHome" => pc' = "openHome"
      BY <1>6 DEF DriveA, DriveHome, hostVars
    <2>3. fcb'[CmdFCB] = Named(d, Command.name) /\ fcb'[CmdFCB].dr = d
      BY <1>1, <2>1, <2>2 DEF FoundInv, TryPcs, Named, FreshFcb
    <2>4. /\ Command' = Command /\ Places(Command)' = Places(Command)
          /\ ~Exists(Places(Command)[1])'
          /\ pc = "driveHome" => ~Exists(Places(Command)[2])'
      BY <2>2, SamePlaces DEF FoundInv, TryPcs, Exists
    <2> QED
      BY <2>2, <2>3, <2>4 DEF FoundInv, TryPcs, LoadPcs, Starting
  <1>7. CASE UserZero
    <2>1. /\ pc = "user0" /\ pc' = "openA" /\ UNCHANGED <<curDrive, curUser, line, files, fcb>>
      BY <1>7 DEF UserZero, SetUser, dataVars
    <2> QED
      BY <2>1, SamePlaces DEF FoundInv, TryPcs, LoadPcs, Starting, Exists
  <1>8. CASE OpenA \/ OpenHome
    <2>1. /\ pc \in {"openA", "openHome"} /\ UNCHANGED <<curDrive, curUser, line>>
          /\ OpenFile(CmdFCB)
          /\ hl' = 0 => pc' = "load"
          /\ hl' # 0 => pc' = "lost" \/ (pc' = "driveHome" /\ pc = "openA")
      <3>1. CASE OpenA
        BY <3>1 DEF OpenA
      <3>2. CASE OpenHome
        BY <3>2 DEF OpenHome
      <3> QED
        BY <1>8, <3>1, <3>2
    <2>2. PICK n \in {2, 3} : n = IF pc = "openA" THEN 2 ELSE 3
      OBVIOUS
    <2>3. /\ Command.drive = 0 /\ ~Exists(Places(Command)[1])
          /\ n = 3 => ~Exists(Places(Command)[2])
          /\ fcb[CmdFCB] = Named(fcb[CmdFCB].dr, Command.name)
          /\ fcb[CmdFCB].dr = IF n = 2 THEN 1 ELSE 0
          /\ cDrive = curDrive /\ userCode = 0
      BY <1>1, <2>1, <2>2 DEF FoundInv, PlaceInv, TryPcs, FindPcs
    <2>4. fcb[CmdFCB].name = Command.name /\ fcb[CmdFCB].dr \in DriveByte
      BY <1>1, <2>3 DEF Named, FreshFcb
    <2>5. Path(CmdFCB) = Places(Command)[n] /\ n \in DOMAIN Places(Command)
          /\ Target(CmdFCB) \in disks
      BY <1>1, <2>3, <2>4, PlacesAre DEF Path, Target
    <2>6. CASE hl' = 0
      <3>1. /\ Exists(Path(CmdFCB)) /\ UNCHANGED <<files, mem>>
            /\ Path(CmdFCB)' = Path(CmdFCB)
            /\ fcb'[CmdFCB].s2 = S2Flag /\ SeqRecord(fcb'[CmdFCB]) = 0
        BY <1>1, <2>1, <2>3, <2>4, <2>6, OpenedAtStart
      <3>2. FirstAt(n)
        BY <2>2, <2>3, <2>5, <3>1 DEF FirstAt
      <3>3. pc' = "load" /\ Path(CmdFCB)' = Places(Command)'[n] /\ FirstAt(n)'
        BY <2>1, <2>5, <2>6, <3>1, <3>2, SamePlaces
      <3>4. n \in Nat
        OBVIOUS
      <3> QED
        BY <1>11, <3>1, <3>3, <3>4
    <2>7. CASE hl' # 0
      <3>1. ~Exists(Path(CmdFCB)) /\ UNCHANGED <<files, fcb>>
        BY <1>1, <2>1, <2>5, <2>7, NotOpened
      <3>2. CASE pc' = "lost"
        BY <1>2, <3>2 DEF TryPcs, LoadPcs, Starting
      <3>3. CASE pc' = "driveHome"
        <4>1. /\ Command' = Command /\ ~Exists(Places(Command)[1])'
              /\ ~Exists(Places(Command)[2])'
          BY <2>1, <2>2, <2>3, <2>5, <2>7, <3>1, <3>3, SamePlaces DEF Exists
        <4> QED
          BY <2>3, <3>1, <3>3, <4>1 DEF FoundInv, TryPcs, LoadPcs, Starting
      <3> QED
        BY <2>1, <2>7, <3>2, <3>3
    <2> QED
      BY <2>6, <2>7
  <1>9. CASE Load
    <2>1. /\ pc = "load" /\ pc' = "loading" /\ addr' = 1 /\ dmaAddr' = 1
          /\ UNCHANGED <<curDrive, curUser, line, files, mem, fcb, cDrive, userCode>>
      BY <1>9 DEF Load, SetDma, driveVars, hostVars
    <2>2. Located(0) /\ fcb[CmdFCB].s2 = S2Flag /\ SeqRecord(fcb[CmdFCB]) = 0
      BY <2>1 DEF FoundInv, Fetched
    <2>3. Path(CmdFCB)' = Path(CmdFCB) /\ Fetched' = 0
      BY <2>1 DEF Path, Target, Fetched
    <2>4. Located(0)'
      BY <2>1, <2>2, <2>3, SamePlaces
    <2> QED
      BY <2>1, <2>2, <2>3, <2>4 DEF FoundInv, TryPcs, LoadPcs, Starting
  <1>10. CASE LoadRecord
    <2>1. PICK a \in 1..TpaRecords : a = addr
      BY <1>10 DEF LoadRecord, CcpStateInv, CcpInv, LoadPcs
    <2>2. /\ pc = "loading" /\ UNCHANGED <<curDrive, curUser, line>> /\ ReadSeq(CmdFCB)
          /\ addr' = IF hl' = 0 THEN a + 1 ELSE a
          /\ pc' = IF hl' = 0 /\ a + 1 <= TpaRecords THEN "dmaLoad" ELSE "loaded"
      BY <1>10, <2>1 DEF LoadRecord
    <2>3. /\ a \in 1..(BlkS2 - 1) /\ dmaAddr = a /\ Target(CmdFCB) \in disks
          /\ fcb[CmdFCB].s2 = S2Flag /\ SeqRecord(fcb[CmdFCB]) = a - 1 /\ Located(a - 1)
      BY <1>1, <2>1, <2>2 DEF FoundInv, Fetched, LoadPcs, PlaceInv
    <2>4. PICK i \in Nat : /\ Path(CmdFCB) = Places(Command)[i] /\ FirstAt(i)
                           /\ Copied(i, a - 1)
      BY <2>3 DEF Located
    <2>5. Exists(Path(CmdFCB))
      BY <2>4 DEF FirstAt
    <2> DEFINE file == files[Path(CmdFCB)]
    <2>6. /\ UNCHANGED files /\ Path(CmdFCB)' = Path(CmdFCB)
          /\ hl' = 0 => /\ InFile(file, a - 1)
                        /\ mem' = [mem EXCEPT ![a] = file.data[a - 1]]
                        /\ fcb'[CmdFCB].s2 = S2Flag /\ SeqRecord(fcb'[CmdFCB]) = a
          /\ hl' # 0 => ~InFile(file, a - 1) /\ mem' = mem
      BY <1>1, <2>2, <2>3, <2>5, LoadOne
    <2>7. /\ Places(Command)' = Places(Command) /\ FirstAt(i)'
          /\ Path(CmdFCB)' = Places(Command)'[i]
      BY <2>2, <2>4, <2>6, SamePlaces
    <2>8. \A k \in 1..(a - 1) : InFile(file, k - 1) => mem[k] = file.data[k - 1]
      BY <2>4 DEF Copied
    <2>9. /\ files'[Places(Command)'[i]] = file
      BY <2>4, <2>6, <2>7
    <2>10. a \in Buffer /\ DOMAIN mem = Buffer
      BY <1>1, CcpAssumption DEF TypeOK
    <2>11. CASE hl' = 0
      <3>1. ASSUME NEW k \in 1..a, InFile(file, k - 1)
            PROVE  mem'[k] = file.data[k - 1]
        <4>1. CASE k = a
          BY <2>6, <2>10, <2>11, <4>1
        <4>2. CASE k # a
          <5>1. k \in 1..(a - 1)
            BY <4>2
          <5>2. mem[k] = file.data[k - 1]
            BY <2>8, <3>1, <5>1
          <5>3. mem'[k] = mem[k]
            <6>1. k \in Buffer
              BY <1>1, <2>1, <3>1, CcpAssumption
            <6> QED
              BY <2>6, <2>10, <2>11, <4>2, <6>1
          <5> QED
            BY <5>2, <5>3
        <4> QED
          BY <4>1, <4>2
      <3>2. Copied(i, a)'
        BY <2>9, <3>1 DEF Copied
      <3>3. CASE a + 1 <= TpaRecords
        <4>1. pc' = "dmaLoad" /\ addr' = a + 1 /\ Fetched' = a
          BY <2>2, <2>11, <3>3 DEF Fetched
        <4>2. Located(a)' /\ a \in Nat
          BY <2>7, <3>2 DEF Located
        <4> QED
          BY <2>6, <2>11, <4>1, <4>2 DEF FoundInv, TryPcs, LoadPcs, Starting
      <3>4. CASE ~(a + 1 <= TpaRecords)
        <4>1. a = TpaRecords /\ pc' = "loaded"
          BY <1>1, <2>2, <3>4
        <4>2. FromFile'
          BY <2>7, <3>2, <4>1 DEF FromFile
        <4> QED
          BY <4>1, <4>2 DEF FoundInv, TryPcs, LoadPcs, Starting
      <3> QED
        BY <3>3, <3>4
    <2>12. CASE hl' # 0
      <3>1. ASSUME NEW k \in 1..TpaRecords, InFile(file, k - 1)
            PROVE  mem'[k] = file.data[k - 1]
        <4>1. k <= a - 1
          <5>1. file.len \in Int /\ BlkSZ \in Nat
            BY <1>1, TargetType, FileAssumption DEF HostFile
          <5>2. ~((a - 1) * BlkSZ < file.len) /\ (k - 1) * BlkSZ < file.len
            BY <2>6, <2>12, <3>1 DEF InFile
          <5>3. a - 1 <= k - 1 => (a - 1) * BlkSZ <= (k - 1) * BlkSZ
            BY <5>1, ProductMonotone
          <5>4. (a - 1) * BlkSZ \in Int /\ (k - 1) * BlkSZ \in Int
            BY <5>1
          <5> QED
            BY <5>1, <5>2, <5>3, <5>4
        <4> QED
          BY <2>6, <2>8, <2>12, <3>1, <4>1
      <3>2. Copied(i, TpaRecords)'
        BY <2>9, <3>1 DEF Copied
      <3>3. FromFile' /\ pc' = "loaded"
        BY <2>2, <2>7, <2>12, <3>2 DEF FromFile
      <3> QED
        BY <3>3 DEF FoundInv, TryPcs, LoadPcs, Starting
    <2> QED
      BY <2>11, <2>12
  <1>12. CASE LoadDma
    <2>1. /\ pc = "dmaLoad" /\ pc' = "loading" /\ dmaAddr' = addr /\ addr' = addr
          /\ UNCHANGED <<curDrive, curUser, line, files, mem, fcb, cDrive, userCode>>
      BY <1>12 DEF LoadDma, SetDma, driveVars, hostVars
    <2>2. PICK n \in Nat : n = Fetched /\ Located(n)
      BY <2>1 DEF FoundInv, LoadPcs
    <2>3. Path(CmdFCB)' = Path(CmdFCB) /\ Fetched' = n
      BY <2>1, <2>2 DEF Path, Target, Fetched
    <2>4. Located(n)' /\ fcb'[CmdFCB].s2 = S2Flag /\ SeqRecord(fcb'[CmdFCB]) = n
      BY <2>1, <2>2, <2>3, SamePlaces DEF FoundInv, LoadPcs
    <2> QED
      BY <2>1, <2>3, <2>4 DEF FoundInv, TryPcs, LoadPcs, Starting
  <1>13. CASE Loaded \/ UserBack \/ Start
    <2>1. /\ pc \in {"loaded", "userBack", "start"} /\ pc' \in {"userBack", "start", "program"}
          /\ UNCHANGED <<curDrive, curUser, line, files, mem>>
      BY <1>13 DEF Loaded, UserBack, Start, SetDma, SetUser, hostVars, dataVars
    <2>2. FromFile'
      BY <2>1, SamePlaces DEF FoundInv
    <2> QED
      BY <2>1, <2>2 DEF FoundInv, TryPcs, LoadPcs
  <1>14. CASE ProgramCall
    <2>1. calls' # 0 /\ pc' \in {"program", "check"}
      BY <1>1, <1>14 DEF ProgramCall, CcpInv, CcpTypeOK
    <2> QED
      BY <1>2, <2>1 DEF Starting, TryPcs, LoadPcs
  <1>15. CASE Check
    <2>1. pc' \in {"end", "boot", "prompt"}
      BY <1>15 DEF Check
    <2> QED
      BY <1>2, <2>1 DEF Starting, TryPcs, LoadPcs
  <1>16. CASE \/ Boot \/ Reset \/ Home \/ TakeBatch \/ Prompt \/ ReadInput \/ BuiltIn \/ Lost
              \/ ReadConsole \/ ProgramEnds
    BY <1>2, <1>16
    DEF Boot, Reset, Home, TakeBatch, Prompt, ReadInput, OpenBatch, SeekBatch, ReadBatch,
        TakeLine, CloseBatch, DropBatch, BuiltIn, Select, Dir, Era, OpenType, Type, Rename,
        UserCommand, Exit, SaveMake, SaveOpen, SaveDma, SaveWrite, SaveClose, Lost,
        ReadConsole, ProgramEnds, Starting, TryPcs, LoadPcs
  <1> QED
    BY <1>3, <1>4, <1>5, <1>6, <1>7, <1>8, <1>9, <1>10, <1>12, <1>13, <1>14, <1>15, <1>16
    DEF CcpNext, CcpStep, External

\* What a program starts from is the file of its name that the search meets first, from
\* its first record to its last or to the last that fits below the BDOS (_ccp_ext).
THEOREM CcpStartsFromFile == CcpSpec => []StartsFromFile
  <1>1. CcpInit => CcpStateInv /\ FoundInv
    <2>1. CcpInit => FoundInv
      BY DEF CcpInit, FoundInv, TryPcs, LoadPcs, Starting
    <2> QED
      BY <2>1, CcpStateInit
  <1>2. CcpStateInv /\ FoundInv /\ [CcpNext]_allVars => (CcpStateInv /\ FoundInv)'
    BY CcpStateStep, FoundStep
  <1>3. FoundInv => StartsFromFile
    BY DEF FoundInv, StartsFromFile, FromFile, FirstAt, Copied, Exists
  <1> QED
    BY <1>1, <1>2, <1>3, PTL DEF CcpSpec

-----------------------------------------------------------------------------
(* A boot that is asked for.                                               *)

\* Between a boot and the prompt no call fails: the drives it selects have folders.
PendingInv ==
    /\ pc \in {"reset", "home", "batch"} => Status = 0
    /\ PendingBoot

LEMMA PendingStep ==
    ASSUME CcpInv, FoldersInv, HomeExists, PendingInv, [CcpNext]_allVars
    PROVE  PendingInv'
  <1>1. CASE UNCHANGED allVars \/ Ended
    BY <1>1 DEF Ended, allVars, vars, ccpVars, PendingInv, PendingBoot, Command
  <1>2. CASE Boot
    BY <1>2 DEF Boot, WarmBoot, PendingInv, PendingBoot
  <1>3. CASE Reset
    <2>1. Status' = 0 /\ pc' = "home"
      BY <1>3 DEF Reset, ResetDisks, PendingInv, FoldersInv
    <2> QED
      BY <2>1 DEF PendingInv, PendingBoot
  <1>4. CASE Home
    <2>1. Status' = 0 /\ pc' = "batch"
      BY <1>4 DEF Home, SelectDisk, PendingInv, HomeExists
    <2> QED
      BY <2>1 DEF PendingInv, PendingBoot
  <1>5. CASE TakeBatch
    <2>1. Status' = 0 /\ pc' = "prompt"
      BY <1>5 DEF TakeBatch, PendingInv
    <2> QED
      BY <2>1 DEF PendingInv, PendingBoot
  <1>6. CASE Select
    <2>1. pc' = "prompt" /\ Command' = Command /\ Command.op = "select"
      BY <1>6 DEF Select, Command, CcpInv
    <2> QED
      BY <2>1 DEF PendingInv, PendingBoot
  <1>7. CASE Parse
    <2>1. Command' = Command
      BY <1>7 DEF Parse, Command
    <2> QED
      BY <1>7, <2>1, ParsedTo DEF PendingInv, PendingBoot
  <1>8. CASE Check
    <2>1. pc' = "prompt" => Status' # 2
      BY <1>8 DEF Check, vars
    <2>2. pc' \in {"end", "boot", "prompt"}
      BY <1>8 DEF Check
    <2> QED
      BY <2>1, <2>2 DEF PendingInv, PendingBoot
  <1>9. CASE ~(UNCHANGED allVars \/ Ended \/ Boot \/ Reset \/ Home \/ TakeBatch \/ Select
               \/ Parse \/ Check)
    <2>1. pc' \notin {"reset", "home", "batch", "prompt"}
      BY <1>9
      DEF CcpNext, CcpStep, ReadInput, BuiltIn, External, Prompt, OpenBatch, SeekBatch,
         ReadBatch, TakeLine, CloseBatch, DropBatch, Dir, Era, OpenType, Type, Rename,
         UserCommand, Exit, SaveMake, SaveOpen, SaveDma, SaveWrite, SaveClose, Open, DriveA,
         UserZero, OpenA, DriveHome, OpenHome, Load, LoadRecord, LoadDma, Loaded, UserBack,
         Start, Lost, ReadConsole, ProgramCall, ProgramEnds
    <2> QED
      BY <2>1 DEF PendingInv, PendingBoot
  <1> QED
    BY <1>1, <1>2, <1>3, <1>4, <1>5, <1>6, <1>7, <1>8, <1>9

\* The prompt is shown with a warm boot pending only after a line that the loop
\* does not check Status after: a drive select, or after one a comment, a bad
\* name or an empty submit (_ccp, _error).
THEOREM CcpPendingBoot == CcpSpec => []PendingBoot
  <1>1. CcpInit => CcpInv /\ FoldersInv /\ HomeExists /\ PendingInv
    <2>1. CcpInit => PendingInv
      BY DEF CcpInit, PowerOn, PendingInv, PendingBoot
    <2> QED
      BY <2>1, CcpInvInit, CcpFoldersInit
  <1>2. CcpInv /\ FoldersInv /\ HomeExists /\ PendingInv /\ [CcpNext]_allVars
          => (CcpInv /\ FoldersInv /\ HomeExists /\ PendingInv)'
    BY CcpInvStep, CcpFoldersStep, HomeStep, PendingStep
  <1>3. PendingInv => PendingBoot
    BY DEF PendingInv
  <1> QED
    BY <1>1, <1>2, <1>3, PTL DEF CcpSpec

-----------------------------------------------------------------------------
(* What SAVE writes.                                                       *)

\* The first n records of memory are in the file of the parameter.
Saved(n) ==
    \A k \in 1..n : /\ InFile(files[Path(ParFCB)], k - 1)
                    /\ files[Path(ParFCB)].data[k - 1] = mem[k]

\* Between the make and the close no call fails, and the FCB is at the record that
\* the next write is to store.
SaveInv ==
    /\ pc \in {"openSave", "dmaSave", "write"} =>
           Target(ParFCB) \in disks /\ ~WriteProtected(ParFCB) /\ Exists(Path(ParFCB))
    /\ pc = "openSave" => fcb[ParFCB].cr = 0 /\ fcb[ParFCB].ex = 0
    /\ pc \in {"dmaSave", "write"} =>
           /\ fcb[ParFCB].s2 \in {0, S2Flag} /\ SeqRecord(fcb[ParFCB]) = addr - 1
           /\ ~HostMayFail => Saved(addr - 1)
    /\ pc = "write" => dmaAddr = addr
    /\ pc = "saved" /\ ~HostMayFail => Saved(Pages)

\* Of an FCB with no module number; a write leaves it as it counts.
LEMMA FirstModule ==
    /\ Module(0) = 0 /\ Module(S2Flag) = 0
    /\ MarkModified(0) = 0 /\ MarkModified(S2Flag) = 0
  <1>1. 0 \in 0..MaxS2 /\ 0 \in Nat
    BY Widths
  <1>2. Module(0) = 0 /\ Module(0 + S2Flag) = 0
    BY <1>1, FlagRange
  <1> QED
    BY <1>2, Widths DEF MarkModified

\* A write of one more record of memory, to a drive that is there and a file that is.
LEMMA StoreOne ==
    ASSUME TypeOK, NEW f \in Fcb, WriteSeq(f), Target(f) \in disks, ~WriteProtected(f),
           Exists(Path(f)), NEW a \in 1..(BlkS2 - 1), fcb[f].s2 \in {0, S2Flag},
           SeqRecord(fcb[f]) = a - 1, dmaAddr = a
    PROVE  /\ Path(f)' = Path(f) /\ Target(f)' = Target(f) /\ UNCHANGED <<disks, mem>>
           /\ ~WriteProtected(f)' /\ Exists(Path(f))'
           /\ fcb'[f].s2 = 0 /\ SeqRecord(fcb'[f]) = a
           /\ \/ files'[Path(f)] = WithRecord(files[Path(f)], a - 1, mem[a])
              \/ HostMayFail
  <1>1. /\ StoreRecord(f, a - 1) /\ fcb' = [fcb EXCEPT ![f] = Advance(Touched(fcb[f]))]
        /\ \E res : Writable(f, res)
        /\ UNCHANGED mem
    BY DEF WriteSeq, SelectError, ReadOnlyError
  <1>2. UNCHANGED <<cDrive, userCode, roVector, disks>>
    BY <1>1 DEF Writable, Selected
  <1>3. fcb[f] \in FcbOf(DriveByte, Name) /\ Touched(fcb[f]) \in FcbOf(DriveByte, Name)
    BY TargetType, TouchedType
  <1>4. Touched(fcb[f]).s2 = 0 /\ SeqRecord(Touched(fcb[f])) = a - 1
    <2>1. /\ Touched(fcb[f]).cr = fcb[f].cr /\ Touched(fcb[f]).ex = fcb[f].ex
          /\ Touched(fcb[f]).s2 = MarkModified(fcb[f].s2)
      BY <1>3 DEF Touched, FcbOf
    <2> QED
      BY <2>1, FirstModule DEF SeqRecord
  <1>5. fcb'[f].s2 = 0 /\ SeqRecord(fcb'[f]) = a
    <2>1. fcb'[f] = Advance(Touched(fcb[f]))
      BY <1>1 DEF TypeOK
    <2> QED
      BY <1>3, <1>4, <2>1, FirstModule, AdvanceInside
  <1>6. fcb'[f].dr = fcb[f].dr /\ fcb'[f].name = fcb[f].name
    BY FileCallFcb DEF FileCall
  <1>7. /\ Path(f)' = Path(f) /\ Target(f)' = Target(f) /\ ~WriteProtected(f)'
    BY <1>2, <1>6 DEF Path, Target, WriteProtected
  <1>8. files[Path(f)] \in HostFile /\ Path(f) \in FileId /\ DOMAIN files = FileId
    BY TargetType DEF TypeOK
  <1>9. \/ files'[Path(f)] = WithRecord(files[Path(f)], a - 1, mem[a])
        \/ HostMayFail /\ files' = files
    BY <1>1, <1>8 DEF StoreRecord
  <1>10. Exists(Path(f))'
    <2>1. CASE files'[Path(f)] = WithRecord(files[Path(f)], a - 1, mem[a])
      <3>1. /\ a - 1 + 1 \in 0..RandomSpan /\ files[Path(f)].len \in Int
            /\ files[Path(f)].len >= 0
        BY <1>8, Widths DEF HostFile, Exists
      <3>2. (a - 1 + 1) * BlkSZ \in Nat
        BY <3>1, SizeRange
      <3>3. WithRecord(files[Path(f)], a - 1, mem[a]).len >= 0
        BY <3>1, <3>2 DEF WithRecord
      <3> QED
        BY <1>7, <2>1, <3>3 DEF Exists
    <2>2. CASE files' = files
      BY <1>7, <2>2 DEF Exists
    <2> QED
      BY <1>9, <2>1, <2>2
  <1> QED
    BY <1>1, <1>2, <1>5, <1>7, <1>9, <1>10

\* A record that is written is in its file, with those that were before it.
LEMMA StoredRecords ==
    ASSUME NEW h \in HostFile, NEW n \in 0..(BlkS2 - 2), NEW v,
           NEW k \in 1..(n + 1), k <= n => InFile(h, k - 1)
    PROVE  /\ InFile(WithRecord(h, n, v), k - 1)
           /\ WithRecord(h, n, v).data[k - 1] = IF k = n + 1 THEN v ELSE h.data[k - 1]
  <1>1. /\ n \in Nat /\ k - 1 \in 0..n /\ k - 1 \in Record /\ n \in Record
        /\ h.len \in Int /\ BlkSZ \in Nat \ {0} /\ DOMAIN h.data = Record
    BY Widths, SizeRange DEF HostFile, Record
  <1>2. (k - 1) * BlkSZ <= n * BlkSZ /\ (n + 1) * BlkSZ = n * BlkSZ + BlkSZ
        /\ (k - 1) * BlkSZ \in Nat /\ n * BlkSZ \in Nat
    BY <1>1, ProductMonotone
  <1>3. InFile(WithRecord(h, n, v), k - 1)
    BY <1>1, <1>2 DEF InFile, WithRecord
  <1>4. WithRecord(h, n, v).data[k - 1] = IF k = n + 1 THEN v ELSE h.data[k - 1]
    BY <1>1 DEF WithRecord
  <1> QED
    BY <1>3, <1>4

LEMMA SaveStep ==
    ASSUME CcpInv, SaveInv, [CcpNext]_allVars
    PROVE  SaveInv'
  <1> USE CcpFcbs
  <1>1. TypeOK /\ fcb[ParFCB] \in FcbOf(DriveByte, Name) /\ DOMAIN fcb = Fcb
    BY TargetType DEF CcpInv, CcpTypeOK, TypeOK
  <1>2. CASE UNCHANGED allVars \/ Ended
    <2>1. /\ UNCHANGED <<pc, addr, line, dmaAddr, files, mem, fcb, cDrive, userCode, roVector,
                         disks>>
      BY <1>2 DEF Ended, allVars, vars, driveVars, hostVars, dataVars, ccpVars
    <2>2. /\ Path(ParFCB)' = Path(ParFCB) /\ Target(ParFCB)' = Target(ParFCB)
          /\ WriteProtected(ParFCB)' = WriteProtected(ParFCB)
          /\ Exists(Path(ParFCB))' = Exists(Path(ParFCB)) /\ Pages' = Pages
      BY <2>1 DEF Path, Target, WriteProtected, Exists, Pages, Command
    <2>3. \A n : Saved(n)' = Saved(n)
      BY <2>1, <2>2 DEF Saved
    <2> QED
      BY <2>1, <2>2, <2>3 DEF SaveInv
  <1>3. ASSUME pc' \notin {"openSave", "dmaSave", "write", "saved"} PROVE SaveInv'
    BY <1>3 DEF SaveInv
  <1>4. CASE SaveMake
    <2>1. CASE hl' = 0
      <3>1. /\ MakeFile(ParFCB) /\ pc' = "openSave"
        BY <1>4, <2>1 DEF SaveMake
      <3>2. /\ Writable(ParFCB, 0) /\ fcb' = [fcb EXCEPT ![ParFCB] = Rewound(fcb[ParFCB])]
            /\ files' = IF Exists(Path(ParFCB)) THEN files
                        ELSE [files EXCEPT ![Path(ParFCB)] = NewFile]
        BY <2>1, <3>1 DEF MakeFile, SelectError, ReadOnlyError, Writable, Selected
      <3>3. /\ Target(ParFCB) \in disks /\ ~WriteProtected(ParFCB)
            /\ UNCHANGED <<cDrive, userCode, roVector, disks>>
        BY <3>2 DEF Writable, Selected
      <3>4. /\ fcb'[ParFCB].cr = 0 /\ fcb'[ParFCB].ex = 0
            /\ fcb'[ParFCB].dr = fcb[ParFCB].dr /\ fcb'[ParFCB].name = fcb[ParFCB].name
        BY <1>1, <3>2 DEF Rewound, FcbOf
      <3>5. /\ Path(ParFCB)' = Path(ParFCB) /\ Target(ParFCB)' = Target(ParFCB)
            /\ WriteProtected(ParFCB)' = WriteProtected(ParFCB)
        BY <3>3, <3>4 DEF Path, Target, WriteProtected
      <3>6. Exists(Path(ParFCB))'
        <4>1. Path(ParFCB) \in FileId /\ DOMAIN files = FileId /\ NewFile.len = 0
          BY <1>1, TargetType DEF TypeOK, NewFile
        <4> QED
          BY <3>2, <3>5, <4>1 DEF Exists
      <3> QED
        BY <3>1, <3>3, <3>4, <3>5, <3>6 DEF SaveInv
    <2>2. CASE hl' # 0
      BY <1>3, <1>4, <2>2 DEF SaveMake
    <2> QED
      BY <2>1, <2>2
  <1>5. CASE SaveOpen
    <2>1. CASE hl' = 0
      <3>1. /\ pc = "openSave" /\ OpenFile(ParFCB) /\ addr' = 1 /\ UNCHANGED line
            /\ pc' = IF Pages = 0 THEN "saved" ELSE "dmaSave"
        BY <1>5, <2>1 DEF SaveOpen
      <3>2. /\ Target(ParFCB) \in disks /\ ~WriteProtected(ParFCB) /\ Exists(Path(ParFCB))
            /\ fcb[ParFCB].cr = 0 /\ fcb[ParFCB].ex = 0
        BY <3>1 DEF SaveInv
      <3>3. /\ Selected(ParFCB, 0) /\ UNCHANGED <<files, mem>>
        BY <3>1, <3>2 DEF OpenFile, SelectError
      <3>4. PICK rc : fcb' = [fcb EXCEPT ![ParFCB] = [fcb[ParFCB] EXCEPT !.s2 = S2Flag, !.rc = rc]]
        <4>1. PICK len : len = FileSize(files[Path(ParFCB)]) \div BlkSZ
          OBVIOUS
        <4>2. fcb' = [fcb EXCEPT ![ParFCB] = [fcb[ParFCB] EXCEPT !.s2 = S2Flag,
                                               !.rc = IF len > MaxRC THEN MaxRC ELSE len]]
          BY <3>1, <3>2, <4>1 DEF OpenFile, SelectError
        <4> QED
          BY <4>2
      <3>5. /\ fcb'[ParFCB].cr = 0 /\ fcb'[ParFCB].ex = 0 /\ fcb'[ParFCB].s2 = S2Flag
            /\ fcb'[ParFCB].dr = fcb[ParFCB].dr /\ fcb'[ParFCB].name = fcb[ParFCB].name
        BY <1>1, <3>2, <3>4 DEF FcbOf
      <3>6. /\ Path(ParFCB)' = Path(ParFCB) /\ Target(ParFCB)' = Target(ParFCB)
            /\ WriteProtected(ParFCB)' = WriteProtected(ParFCB)
            /\ Exists(Path(ParFCB))' /\ UNCHANGED disks
        BY <3>2, <3>3, <3>5 DEF Selected, Path, Target, WriteProtected, Exists
      <3>7. SeqRecord(fcb'[ParFCB]) = 0
        BY <3>5, FirstModule, Widths DEF SeqRecord
      <3>8. Saved(0)' /\ Pages' = Pages /\ addr' - 1 = 0
        BY <3>1 DEF Saved, Pages, Command
      <3> QED
        BY <3>1, <3>2, <3>5, <3>6, <3>7, <3>8 DEF SaveInv
    <2>2. CASE hl' # 0
      BY <1>3, <1>5, <2>2 DEF SaveOpen
    <2> QED
      BY <2>1, <2>2
  <1>6. CASE SaveDma
    <2>1. /\ pc = "dmaSave" /\ pc' = "write" /\ addr' = addr /\ dmaAddr' = addr
          /\ UNCHANGED <<files, mem, fcb, cDrive, userCode, roVector, disks>>
      BY <1>6 DEF SaveDma, SetDma, driveVars, hostVars
    <2>2. /\ Path(ParFCB)' = Path(ParFCB) /\ Target(ParFCB)' = Target(ParFCB)
          /\ WriteProtected(ParFCB)' = WriteProtected(ParFCB)
          /\ Exists(Path(ParFCB))' = Exists(Path(ParFCB))
      BY <2>1 DEF Path, Target, WriteProtected, Exists
    <2>3. \A n : Saved(n)' = Saved(n)
      BY <2>1, <2>2 DEF Saved
    <2> QED
      BY <2>1, <2>2, <2>3 DEF SaveInv
  <1>7. CASE SaveWrite
    <2>1. /\ pc = "write" /\ WriteSeq(ParFCB) /\ addr' = addr + 1 /\ UNCHANGED line
          /\ pc' = IF addr < Pages THEN "dmaSave" ELSE "saved"
      BY <1>7 DEF SaveWrite
    <2>2. addr \in 1..Pages /\ Pages \in 0..TpaRecords /\ TpaRecords \in 1..(BlkS2 - 1)
      BY <2>1, CommandType, CcpAssumption DEF CcpInv, SavePcs
    <2>3. addr \in 1..(BlkS2 - 1) /\ addr \in Nat /\ Pages \in Nat
      BY <2>2, Widths
    <2>4. /\ Target(ParFCB) \in disks /\ ~WriteProtected(ParFCB) /\ Exists(Path(ParFCB))
          /\ fcb[ParFCB].s2 \in {0, S2Flag} /\ SeqRecord(fcb[ParFCB]) = addr - 1
          /\ dmaAddr = addr /\ (~HostMayFail => Saved(addr - 1))
      BY <2>1 DEF SaveInv
    <2>5. /\ Path(ParFCB)' = Path(ParFCB) /\ Target(ParFCB)' = Target(ParFCB)
          /\ UNCHANGED <<disks, mem>>
          /\ ~WriteProtected(ParFCB)' /\ Exists(Path(ParFCB))'
          /\ fcb'[ParFCB].s2 = 0 /\ SeqRecord(fcb'[ParFCB]) = addr
          /\ ~HostMayFail =>
                 files'[Path(ParFCB)] = WithRecord(files[Path(ParFCB)], addr - 1, mem[addr])
      BY <1>1, <2>1, <2>3, <2>4, StoreOne
    <2>6. PICK a \in Nat : a = addr
      BY <2>3
    <2>7. ~HostMayFail => Saved(a)'
      <3> SUFFICES ASSUME ~HostMayFail, NEW k \in 1..a
                   PROVE  /\ InFile(files'[Path(ParFCB)], k - 1)
                          /\ files'[Path(ParFCB)].data[k - 1] = mem[k]
        BY <2>5 DEF Saved
      <3>1. k <= a - 1 => /\ InFile(files[Path(ParFCB)], k - 1)
                          /\ files[Path(ParFCB)].data[k - 1] = mem[k]
        BY <2>4, <2>6 DEF Saved
      <3>2. /\ files[Path(ParFCB)] \in HostFile /\ a - 1 \in 0..(BlkS2 - 2)
            /\ k \in 1..((a - 1) + 1) /\ (k = (a - 1) + 1 <=> k = a)
            /\ (k # a => k <= a - 1)
        BY <1>1, <2>3, <2>6, TargetType, Widths
      <3>3. /\ InFile(WithRecord(files[Path(ParFCB)], a - 1, mem[a]), k - 1)
            /\ WithRecord(files[Path(ParFCB)], a - 1, mem[a]).data[k - 1] =
                  IF k = (a - 1) + 1 THEN mem[a] ELSE files[Path(ParFCB)].data[k - 1]
        BY <3>1, <3>2, StoredRecords
      <3> QED
        BY <2>5, <2>6, <3>1, <3>2, <3>3
    <2>8. a = addr' - 1 /\ Pages' = Pages /\ (~(addr < Pages) => a = Pages)
      BY <2>1, <2>2, <2>3, <2>6 DEF Pages, Command
    <2>9. ~HostMayFail => Saved(addr - 1)' /\ (pc' = "saved" => Saved(Pages)')
      BY <2>1, <2>7, <2>8
    <2> QED
      BY <2>1, <2>4, <2>5, <2>6, <2>8, <2>9 DEF SaveInv
  <1>8. CASE Parse
    BY <1>3, <1>8, ParsedTo
  <1>9. CASE ~(UNCHANGED allVars \/ Ended \/ SaveMake \/ SaveOpen \/ SaveDma \/ SaveWrite \/ Parse)
    <2>1. pc' \notin {"openSave", "dmaSave", "write", "saved"}
      BY <1>9
      DEF CcpNext, CcpStep, ReadInput, BuiltIn, External, Boot, Reset, Home, TakeBatch,
         Prompt, Check, OpenBatch, SeekBatch, ReadBatch, TakeLine, CloseBatch, DropBatch,
         Select, Dir, Era, OpenType, Type, Rename, UserCommand, Exit, SaveClose, Open,
         DriveA, UserZero, OpenA, DriveHome, OpenHome, Load, LoadRecord, LoadDma, Loaded,
         UserBack, Start, Lost, ReadConsole, ProgramCall, ProgramEnds
    <2> QED
      BY <1>3, <2>1
  <1> QED
    BY <1>2, <1>4, <1>5, <1>6, <1>7, <1>8, <1>9

\* When SAVE closes its file, the file begins with the pages it was to save
\* (_ccp_save, which looks at no write's result), if the host keeps what it takes.
THEOREM CcpSavesPages == CcpSpec => []SavesPages
  <1>1. CcpInit => CcpInv /\ SaveInv
    <2>1. CcpInit => SaveInv
      BY DEF CcpInit, SaveInv
    <2> QED
      BY <2>1, CcpInvInit
  <1>2. CcpInv /\ SaveInv /\ [CcpNext]_allVars => (CcpInv /\ SaveInv)'
    BY CcpInvStep, SaveStep
  <1>3. SaveInv => SavesPages
    BY DEF SaveInv, SavesPages, Saved
  <1> QED
    BY <1>1, <1>2, <1>3, PTL DEF CcpSpec
=============================================================================
