---------------------------- MODULE MCInternalCcp ----------------------------
(***************************************************************************)
(* Instances of InternalCcp for TLC: drives A: and B: with folders, C:     *)
(* without; a program on A: that does not fit in the two records of the    *)
(* TPA, another on B:; a submit file of two lines.                         *)
(***************************************************************************)
EXTENDS InternalCcp

CONSTANTS x, wild, sub,                  \* names
          codeA, codeB, blank,           \* records
          runX, runAX, toB, toC, userOne, user256, saveOne, saveB, save256, eraX, eraAll,
          typeX, renX, dirC, cls, exit, comment \* lines

DrivesABC    == {0, 1, 2}
DrivesAB     == {0, 1}
UsersZeroOne == {0, 1}
Buffers      == 0..2
NoLengths    == {}
NoRecords    == {}

Plain(o) == [op |-> o, drive |-> 0, name |-> x, parDrive |-> 0, parName |-> x,
             newName |-> sub, number |-> 0]

Means ==
    [v \in Value |->
        CASE v = runX    -> Plain("ext")
          [] v = runAX   -> [Plain("ext") EXCEPT !.drive = 1]
          [] v = toB     -> [Plain("select") EXCEPT !.drive = 2]
          [] v = toC     -> [Plain("select") EXCEPT !.drive = 3]
          [] v = userOne -> [Plain("USER") EXCEPT !.number = 1]
          [] v = user256 -> [Plain("USER") EXCEPT !.number = 256]
          [] v = saveOne -> [Plain("SAVE") EXCEPT !.number = 1]
          [] v = saveB   -> [Plain("SAVE") EXCEPT !.number = 1, !.parDrive = 2]
          [] v = save256 -> [Plain("SAVE") EXCEPT !.number = 256]
          [] v = eraX    -> Plain("ERA")
          [] v = eraAll  -> [Plain("ERA") EXCEPT !.parName = wild]
          [] v = typeX   -> Plain("TYPE")
          [] v = renX    -> Plain("REN")
          [] v = dirC    -> [Plain("DIR") EXCEPT !.parDrive = 3]
          [] v = cls     -> Plain("CLS")
          [] v = exit    -> Plain("EXIT")
          [] v = comment -> Plain("comment")
          [] v = blank   -> Plain("blank")
          [] OTHER       -> Plain("bad")]

\* A file of the records of s.
Holding(s) ==
    [len |-> Len(s) * BlkSZ, data |-> [i \in Record |-> IF i < Len(s) THEN s[i + 1] ELSE Zero]]

\* A program on both drives, or on B: with a submit file of one or two lines.
OnBoth == [id \in FileId |-> CASE id = <<0, 0, x>> -> Holding(<<codeA, codeB, codeA>>)
                               [] id = <<1, 0, x>> -> Holding(<<codeB>>)
                               [] OTHER -> NoFile]
WithSub(s) == [id \in FileId |-> CASE id = <<1, 0, x>> -> Holding(<<codeB>>)
                                   [] id = <<0, 0, sub>> -> Holding(s)
                                   [] OTHER -> NoFile]
OnlySub == {WithSub(<<toB, userOne>>)}
Worlds == {OnBoth, WithSub(<<toB>>), WithSub(<<toB, userOne>>)}

\* Two files at most, user area 1 on one drive at most, no drive made or protected.
FewFiles ==
    /\ Cardinality({id \in FileId : Exists(id)}) <= 2 /\ Cardinality(areas) <= 3
    /\ disks = InitDisks /\ roVector = {}
=============================================================================
