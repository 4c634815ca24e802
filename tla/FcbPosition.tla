----------------------------- MODULE FcbPosition -----------------------------
(***************************************************************************)
(* The file position a CP/M file control block (FCB) stands for.           *)
(*                                                                         *)
(* An FCB has no 32-bit file offset.  The sequential position is split     *)
(* over three bytes: cr counts records in an extent, ex counts extents in  *)
(* a module and s2 counts modules; the top bit of s2 says "not modified    *)
(* since open".  The random position r is the 24-bit number in r0..r2.     *)
(* RunCPM opens the host file anew on every call, so these bytes are all   *)
(* the position there is (RunCPM/disk.h, _ReadSeq to _SetRandom).          *)
(*                                                                         *)
(* The widths of globals.h are constants here; the source's values are     *)
(*    BlkEX = 128, MaxEX = 31, MaxS2 = 15, S2Flag = 128, RandomSpan = 2^24 *)
(* and the bit masks of the source are written as the remainders they are. *)
(***************************************************************************)
EXTENDS Integers

CONSTANTS
    BlkEX,       \* records in an extent; MaxCR and MaxRC are the same number
    MaxEX,       \* largest value of ex
    MaxS2,       \* largest value the s2 field is meant to take
    S2Flag,      \* the "unmodified" bit of s2 (0x80)
    RandomSpan   \* how many values r2:r1:r0 can take

ASSUME WidthAssumption ==
    /\ BlkEX \in Nat \ {0}
    /\ MaxEX \in Nat
    /\ MaxS2 \in Nat
    /\ S2Flag \in Nat /\ S2Flag > MaxS2
    /\ S2Flag % (MaxS2 + 1) = 0

MaxCR == BlkEX
MaxRC == BlkEX

\* Records in a module (globals.h's BlkS2) and in the largest CP/M file.
BlkS2 == BlkEX * (MaxEX + 1)
Capacity == BlkS2 * (MaxS2 + 1)

ASSUME SpanAssumption == RandomSpan \in Nat /\ RandomSpan > Capacity

Module(s2) == s2 % (MaxS2 + 1)          \* F->s2 & MaxS2
Unmodified(s2) == s2 >= S2Flag          \* F->s2 & 0x80
MarkModified(s2) == s2 % S2Flag         \* F->s2 & 0x7F

\* The FCBs a program can have; rc counts the records of the file's last extent.
FcbOf(drives, names) ==
    [dr : drives, name : names, rc : 0..MaxRC, cr : 0..MaxCR, ex : 0..MaxEX,
     s2 : 0..(2 * S2Flag - 1), r : 0..(RandomSpan - 1)]

\* The record a sequential call reads or writes: fpos / BlkSZ.
SeqRecord(F) == Module(F.s2) * BlkS2 + F.ex * BlkEX + F.cr

\* A step that lets cr run one past MaxCR before it carries.
AdvanceLate(F) ==
    IF F.cr > MaxCR THEN [F EXCEPT !.cr = 1, !.ex = F.ex + 1]
                    ELSE [F EXCEPT !.cr = F.cr + 1]

\* The FCB after a sequential call that succeeded.  cr runs 1..MaxCR once the
\* file is in use: the last record of an extent leaves cr = MaxCR, not 0.
Advance(F) ==
    LET newExtent == F.cr + 1 > MaxCR
        ex        == IF newExtent THEN F.ex + 1 ELSE F.ex
        newModule == ex > MaxEX
    IN  [F EXCEPT !.cr = IF newExtent THEN 1 ELSE F.cr + 1,
                  !.ex = IF newModule THEN 0 ELSE ex,
                  !.s2 = IF newModule THEN (F.s2 + 1) % (2 * S2Flag) ELSE F.s2]

\* The FCB of a file that is written.
Touched(F) == [F EXCEPT !.s2 = MarkModified(F.s2)]

\* A seek that drops the module number.
SeekInModule(F, record, flag) ==
    [F EXCEPT !.cr = record % BlkEX,
              !.ex = (record \div BlkEX) % (MaxEX + 1),
              !.s2 = flag]

\* The flag bit of s2, as a number.
FlagOf(F) == IF Unmodified(F.s2) THEN S2Flag ELSE 0

\* The FCB after a random call: the next sequential call meets the same record.
Seek(F, record, flag) ==
    [F EXCEPT !.cr = record % BlkEX,
              !.ex = (record \div BlkEX) % (MaxEX + 1),
              !.s2 = Module(record \div BlkS2) + flag]

\* A record number without the module.
RandomRecordInModule(F) == (F.cr % BlkEX) + (F.ex % (MaxEX + 1)) * BlkEX

\* The record number _SetRandom leaves in r.
RandomRecord(F) ==
    (F.cr % BlkEX) + (F.ex % (MaxEX + 1)) * BlkEX + Module(F.s2) * BlkS2
=============================================================================
