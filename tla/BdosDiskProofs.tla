--------------------------- MODULE BdosDiskProofs ---------------------------
(***************************************************************************)
(* Theorems about FcbPosition and BdosDisk, for every number of drives,    *)
(* users, names, FCBs and every choice of the widths of an FCB; and that   *)
(* the BDOS implements RecordFile where there is one file.                 *)
(***************************************************************************)
EXTENDS BdosRecordFile, TLAPS

-----------------------------------------------------------------------------
(* Division.                                                               *)

\* Multiplication by a natural number keeps the order.
LEMMA ProductMonotone ==
    ASSUME NEW a \in Int, NEW b \in Int, NEW c \in Nat, a <= b
    PROVE  a * c <= b * c
  OBVIOUS

\* A remainder is below the divisor, and with the quotient it gives the
\* dividend back.
LEMMA Division ==
    ASSUME NEW a \in Int, NEW b \in Nat \ {0}
    PROVE  /\ a \div b \in Int
           /\ a % b \in 0..(b - 1)
           /\ a = b * (a \div b) + (a % b)
           /\ a >= 0 => a \div b >= 0
  OBVIOUS

\* There is one way to divide with remainder.
LEMMA DivisionUnique ==
    ASSUME NEW a \in Int, NEW b \in Nat \ {0}, NEW q \in Int, NEW r \in 0..(b - 1),
           a = b * q + r
    PROVE  a \div b = q /\ a % b = r
  OBVIOUS

LEMMA AddMultiple ==
    ASSUME NEW b \in Nat \ {0}, NEW m \in Int, NEW x \in Int
    PROVE  (b * m + x) % b = x % b
  <1>1. PICK q \in Int, r \in 0..(b - 1) : x = b * q + r /\ r = x % b
    OBVIOUS
  <1>2. PICK y \in Int, k \in Int : y = b * m + x /\ k = m + q
    OBVIOUS
  <1>3. PICK u \in Int, w \in Int, z \in Int : u = b * m /\ w = b * q /\ z = b * k
    OBVIOUS
  <1>4. u + w = z
    BY <1>2, <1>3
  <1>5. y = u + x /\ x = w + r
    BY <1>1, <1>2, <1>3
  <1>7. y = z + r
    <2> HIDE <1>1, <1>2, <1>3
    <2> QED
      BY <1>4, <1>5
  <1>6. y % b = r
    BY <1>3, <1>7, DivisionUnique
  <1> QED
    BY <1>1, <1>2, <1>6

\* Dividing by b and then by c is dividing by b * c.
LEMMA DivisionNested ==
    ASSUME NEW a \in Nat, NEW b \in Nat \ {0}, NEW c \in Nat \ {0}
    PROVE  /\ (a \div b) \div c = a \div (b * c)
           /\ ((a \div b) % c) * b + (a % b) = a % (b * c)
  <1>1. PICK q \in Nat, r \in 0..(b - 1) :
           q = a \div b /\ r = a % b /\ a = b * q + r
    OBVIOUS
  <1>2. PICK qq \in Nat, qr \in 0..(c - 1) :
           qq = q \div c /\ qr = q % c /\ q = c * qq + qr
    OBVIOUS
  <1>3. PICK m \in Nat \ {0} : m = b * c
    OBVIOUS
  <1>4. qr * b + r \in 0..(m - 1)
    <2>1. qr * b <= (c - 1) * b
      BY ProductMonotone
    <2>2. qr * b \in Nat /\ (c - 1) * b = m - b
      BY <1>3
    <2> QED
      BY <2>1, <2>2
  <1>5. PICK rest \in 0..(m - 1) : rest = qr * b + r
    BY <1>4
  <1>6. a = m * qq + rest
    <2>1. b * q = b * (c * qq) + b * qr
      BY <1>2
    <2>2. b * (c * qq) = m * qq
      BY <1>3
    <2>3. /\ b * q \in Int /\ m * qq \in Int /\ b * qr \in Int
          /\ b * qr = qr * b
      OBVIOUS
    <2> HIDE <1>2, <1>3
    <2> QED
      BY <1>1, <1>5, <2>1, <2>2, <2>3
  <1>7. a \div m = qq /\ a % m = rest
    BY ONLY <1>6, DivisionUnique
  <1> QED
    BY <1>1, <1>2, <1>3, <1>5, <1>7

-----------------------------------------------------------------------------
(* The position in an FCB.                                                 *)

LEMMA Widths ==
    /\ MaxCR = BlkEX /\ MaxRC = BlkEX
    /\ BlkEX \in Nat \ {0} /\ MaxEX \in Nat /\ MaxS2 \in Nat /\ S2Flag \in Nat
    /\ S2Flag > MaxS2
    /\ BlkS2 \in Nat \ {0} /\ BlkS2 >= BlkEX
    /\ Capacity \in Nat \ {0} /\ Capacity >= BlkS2
    /\ RandomSpan \in Nat /\ RandomSpan > Capacity
  <1>1. BlkEX \in Nat \ {0} /\ MaxEX \in Nat /\ MaxS2 \in Nat
    BY WidthAssumption
  <1>2. BlkS2 \in Nat \ {0} /\ BlkS2 >= BlkEX
    BY <1>1 DEF BlkS2
  <1>3. Capacity \in Nat \ {0} /\ Capacity >= BlkS2
    BY <1>1, <1>2 DEF Capacity
  <1> QED
    BY <1>1, <1>2, <1>3, WidthAssumption, SpanAssumption DEF MaxCR, MaxRC

\* Module numbers are small, and the one after the last is 0.
LEMMA ModuleRange ==
    ASSUME NEW n \in Int
    PROVE  /\ Module(n) \in 0..MaxS2
           /\ Module(n + 1) = IF Module(n) = MaxS2 THEN 0 ELSE Module(n) + 1
  <1>1. PICK b \in Nat \ {0} : b = MaxS2 + 1
    BY Widths
  <1>2. PICK q \in Int, r \in 0..(b - 1) : r = n % b /\ n = b * q + r
    OBVIOUS
  <1>3. CASE r = b - 1
    <2>1. PICK next \in Int, p \in Int : next = n + 1 /\ p = q + 1
      OBVIOUS
    <2>2. next = b * p
      BY <1>2, <1>3, <2>1
    <2>3. next % b = 0
      BY <2>2
    <2> QED
      BY <1>1, <1>2, <1>3, <2>1, <2>3, Widths DEF Module
  <1>4. CASE r # b - 1
    <2>1. PICK next \in Int, s \in 0..(b - 1) : next = n + 1 /\ s = r + 1
      BY <1>4
    <2>2. next = b * q + s
      BY <1>2, <2>1
    <2>3. next % b = s
      BY <2>2
    <2>4. Module(n) = r /\ Module(n + 1) = s
      BY <1>1, <1>2, <2>1, <2>3 DEF Module
    <2> QED
      BY <1>1, <1>4, <2>1, <2>4, Widths
  <1> QED
    BY <1>3, <1>4

\* The flag bit of s2 is no part of the module number, so clearing it (a write)
\* or setting it (a random read) leaves the module alone.
LEMMA FlagRange ==
    ASSUME NEW s2 \in Nat
    PROVE  /\ MarkModified(s2) \in 0..(S2Flag - 1)
           /\ Module(MarkModified(s2)) = Module(s2)
           /\ \A m \in 0..MaxS2 : Module(m) = m /\ Module(m + S2Flag) = m
  <1>1. PICK b \in Nat \ {0} : b = MaxS2 + 1
    BY Widths
  <1>2. PICK k \in Nat : S2Flag = b * k
    BY <1>1, WidthAssumption
  <1>3. S2Flag \in Nat \ {0}
    BY Widths
  <1>4. PICK q \in Nat, rest \in 0..(S2Flag - 1) :
           rest = s2 % S2Flag /\ s2 = S2Flag * q + rest
    BY <1>3
  <1>5. rest % b = s2 % b
    <2>1. PICK j \in Nat, m \in 0..(b - 1) : rest = b * j + m /\ m = rest % b
      OBVIOUS
    <2>2. PICK kq \in Nat, i \in Nat : kq = k * q /\ i = kq + j
      OBVIOUS
    <2>3. S2Flag * q = b * kq
      BY <1>2, <2>2
    <2>4. b * kq + b * j = b * i
      BY <2>2
    <2>5. s2 = b * i + m
      <3>1. PICK x \in Nat, y \in Nat : x = b * kq /\ y = b * j
        OBVIOUS
      <3>2. s2 = x + (y + m) /\ x + y = b * i
        BY <1>4, <2>1, <2>3, <2>4, <3>1
      <3> QED
        BY <3>2
    <2>6. s2 % b = m
      BY <2>5
    <2> QED
      BY <2>1, <2>6
  <1>6. ASSUME NEW m \in 0..MaxS2
        PROVE  Module(m) = m /\ Module(m + S2Flag) = m
    <2>1. m % b = m
      BY <1>1, Widths
    <2>2. PICK x \in Nat, d \in 0..(b - 1) : x = m + S2Flag /\ d = m
      BY <1>1, <1>3, Widths
    <2>3. x = b * k + d
      BY <1>2, <2>2
    <2>4. x % b = d
      BY <2>3
    <2> QED
      BY <1>1, <2>1, <2>2, <2>4 DEF Module
  <1> QED
    BY <1>1, <1>4, <1>5, <1>6 DEF MarkModified, Module

\* The sequential position of an FCB is at most Capacity: exactly Capacity
\* after the last record of the largest file.
LEMMA SeqRecordRange ==
    ASSUME NEW D, NEW N, NEW F \in FcbOf(D, N)
    PROVE  SeqRecord(F) \in 0..Capacity
  <1> F.cr \in 0..BlkEX /\ F.ex \in 0..MaxEX /\ F.s2 \in Nat
    BY Widths DEF FcbOf
  <1>1. PICK m \in 0..MaxS2 : m = Module(F.s2)
    BY ModuleRange, F.s2 \in Int
  <1>2. F.ex * BlkEX \in Nat /\ F.ex * BlkEX <= MaxEX * BlkEX
    BY Widths, ProductMonotone
  <1>3. MaxEX * BlkEX + BlkEX = BlkS2
    BY Widths DEF BlkS2
  <1>4. m * BlkS2 \in Nat /\ m * BlkS2 <= MaxS2 * BlkS2
    BY Widths, ProductMonotone
  <1>5. MaxS2 * BlkS2 + BlkS2 = Capacity /\ MaxS2 * BlkS2 \in Nat
    BY Widths DEF Capacity
  <1>6. MaxEX * BlkEX \in Nat
    BY Widths
  <1> QED
    BY <1>1, <1>2, <1>3, <1>4, <1>5, <1>6, Widths DEF SeqRecord

\* Counting modules in a byte that wraps loses no module.
LEMMA DoubleFlag ==
    ASSUME NEW s2 \in 0..(2 * S2Flag - 1)
    PROVE  /\ (s2 + 1) % (2 * S2Flag) \in 0..(2 * S2Flag - 1)
           /\ Module((s2 + 1) % (2 * S2Flag)) = Module(s2 + 1)
  <1>1. S2Flag \in Nat \ {0}
    BY Widths
  <1>2. CASE s2 + 1 < 2 * S2Flag
    <2>1. (s2 + 1) % (2 * S2Flag) = s2 + 1
      BY <1>1, <1>2
    <2> QED
      BY <1>1, <1>2, <2>1
  <1>3. CASE s2 + 1 = 2 * S2Flag
    <2>1. (s2 + 1) % (2 * S2Flag) = 0
      BY <1>1, <1>3
    <2>2. MarkModified(s2 + 1) = 0
      BY <1>1, <1>3 DEF MarkModified
    <2>3. Module(s2 + 1) = Module(0)
      BY <2>2, FlagRange
    <2> QED
      BY <1>1, <2>1, <2>3
  <1> QED
    BY <1>1, <1>2, <1>3

\* A sequential call keeps the bytes of the FCB in their ranges, and moves the
\* position to the next record as long as there is one: the wrap after record
\* Capacity leads to record 1 (_ReadSeq, _WriteSeq).
THEOREM AdvanceNext ==
    ASSUME NEW D, NEW N, NEW F \in FcbOf(D, N)
    PROVE  /\ Advance(F) \in FcbOf(D, N)
           /\ SeqRecord(Advance(F)) =
                IF SeqRecord(F) = Capacity THEN 1 ELSE SeqRecord(F) + 1
  <1>1. /\ F.cr \in 0..BlkEX /\ F.ex \in 0..MaxEX /\ F.s2 \in 0..(2 * S2Flag - 1)
        /\ F = [F EXCEPT !.cr = F.cr, !.ex = F.ex, !.s2 = F.s2]
    BY Widths DEF FcbOf
  <1>2. PICK m \in 0..MaxS2, s \in 0..(2 * S2Flag - 1) :
           /\ m = Module(F.s2) /\ s = (F.s2 + 1) % (2 * S2Flag)
           /\ Module(s) = IF m = MaxS2 THEN 0 ELSE m + 1
    BY <1>1, Widths, DoubleFlag, ModuleRange, F.s2 \in Int
  <1>3. BlkS2 = MaxEX * BlkEX + BlkEX /\ Capacity = MaxS2 * BlkS2 + BlkS2
    BY Widths DEF BlkS2, Capacity
  <1>4. CASE F.cr < BlkEX
    <2>1. ~(F.cr + 1 > MaxCR) /\ ~(F.ex > MaxEX)
      BY <1>1, <1>4, Widths
    <2>2. /\ Advance(F) \in FcbOf(D, N) /\ Advance(F).cr = F.cr + 1
          /\ Advance(F).ex = F.ex /\ Advance(F).s2 = F.s2
      <3>1. Advance(F) = [F EXCEPT !.cr = F.cr + 1, !.ex = F.ex, !.s2 = F.s2]
        BY <2>1 DEF Advance
      <3>2. F.cr + 1 \in 0..MaxCR
        BY <1>1, <1>4, Widths
      <3> QED
        BY <1>1, <3>1, <3>2 DEF FcbOf
    <2>3. SeqRecord(Advance(F)) = SeqRecord(F) + 1
      BY <1>1, <1>2, <2>2, Widths DEF SeqRecord
    <2>4. SeqRecord(Advance(F)) <= Capacity /\ SeqRecord(F) \in Nat
      BY <1>1, <2>2, SeqRecordRange, Widths
    <2> QED
      BY <2>2, <2>3, <2>4, Widths
  <1>5. CASE F.cr = BlkEX /\ F.ex < MaxEX
    <2>1. F.cr + 1 > MaxCR /\ ~(F.ex + 1 > MaxEX) /\ 1 \in 0..MaxCR
      BY <1>1, <1>5, Widths
    <2>2. /\ Advance(F) \in FcbOf(D, N) /\ Advance(F).cr = 1
          /\ Advance(F).ex = F.ex + 1 /\ Advance(F).s2 = F.s2
      <3>1. Advance(F) = [F EXCEPT !.cr = 1, !.ex = F.ex + 1, !.s2 = F.s2]
        BY <2>1 DEF Advance
      <3>2. F.ex + 1 \in 0..MaxEX
        BY <1>1, <1>5, Widths
      <3> QED
        BY <1>1, <2>1, <3>1, <3>2 DEF FcbOf
    <2>3. SeqRecord(Advance(F)) = SeqRecord(F) + 1
      BY <1>1, <1>2, <1>5, <2>2, Widths DEF SeqRecord
    <2>4. SeqRecord(Advance(F)) <= Capacity /\ SeqRecord(F) \in Nat
      BY <1>1, <2>2, SeqRecordRange, Widths
    <2> QED
      BY <2>2, <2>3, <2>4, Widths
  <1>6. CASE F.cr = BlkEX /\ F.ex = MaxEX
    <2>1. F.cr + 1 > MaxCR /\ F.ex + 1 > MaxEX /\ 1 \in 0..MaxCR /\ 0 \in 0..MaxEX
      BY <1>1, <1>6, Widths
    <2>2. /\ Advance(F) \in FcbOf(D, N) /\ Advance(F).cr = 1
          /\ Advance(F).ex = 0 /\ Advance(F).s2 = s
      BY <1>1, <1>2, <2>1 DEF Advance, FcbOf
    <2>3. SeqRecord(F) = m * BlkS2 + BlkS2
      BY <1>1, <1>2, <1>3, <1>6, Widths DEF SeqRecord
    <2>4. CASE m = MaxS2
      BY <1>2, <1>3, <2>2, <2>3, <2>4, Widths DEF SeqRecord
    <2>5. CASE m < MaxS2
      <3>1. m * BlkS2 + BlkS2 < MaxS2 * BlkS2 + BlkS2
        BY <2>5, Widths, ProductMonotone
      <3>2. SeqRecord(Advance(F)) = (m + 1) * BlkS2 + 1
        BY <1>2, <2>2, <2>5, Widths DEF SeqRecord
      <3> QED
        BY <1>3, <2>2, <2>3, <3>1, <3>2, Widths
    <2> QED
      BY <2>4, <2>5, Widths
  <1> QED
    BY <1>1, <1>4, <1>5, <1>6, Widths

\* After a random call the next sequential call meets the same record, for every
\* record of the largest file; a record past it is taken modulo Capacity
\* (_ReadRand, _WriteRand).
THEOREM SeekThere ==
    ASSUME NEW D, NEW N, NEW F \in FcbOf(D, N),
           NEW record \in 0..(RandomSpan - 1), NEW flag \in {0, S2Flag}
    PROVE  /\ Seek(F, record, flag) \in FcbOf(D, N)
           /\ SeqRecord(Seek(F, record, flag)) = record % Capacity
  <1> record \in Nat
    BY Widths
  <1>a. BlkEX \in Nat \ {0} /\ MaxEX + 1 \in Nat \ {0} /\ BlkS2 \in Nat \ {0}
        /\ MaxS2 + 1 \in Nat \ {0}
    BY Widths
  <1>1. PICK c \in 0..(BlkEX - 1), extent \in Nat :
           c = record % BlkEX /\ extent = record \div BlkEX
    BY <1>a
  <1>2. PICK e \in 0..MaxEX : e = extent % (MaxEX + 1)
    BY <1>a, Widths
  <1>3. PICK m \in 0..MaxS2 : m = Module(record \div BlkS2)
    BY <1>a, ModuleRange, record \div BlkS2 \in Int
  <1>4. m + flag \in 0..(2 * S2Flag - 1) /\ Module(m + flag) = m
    <2>1. CASE flag = 0
      BY <2>1, Widths, FlagRange, m + 0 = m
    <2>2. CASE flag = S2Flag
      BY <2>2, Widths, FlagRange
    <2> QED
      BY <2>1, <2>2
  <1>5. /\ Seek(F, record, flag) \in FcbOf(D, N)
        /\ Seek(F, record, flag).cr = c
        /\ Seek(F, record, flag).ex = e
        /\ Seek(F, record, flag).s2 = m + flag
    <2>1. c \in 0..MaxCR
      BY Widths
    <2> QED
      BY <1>1, <1>2, <1>3, <1>4, <2>1 DEF Seek, FcbOf
  <1>6. e * BlkEX + c = record % BlkS2
    <2>1. ((record \div BlkEX) % (MaxEX + 1)) * BlkEX + (record % BlkEX)
             = record % (BlkEX * (MaxEX + 1))
      BY <1>a, DivisionNested, Zenon
    <2> QED
      BY <1>1, <1>2, <2>1 DEF BlkS2
  <1>7. m * BlkS2 + (record % BlkS2) = record % Capacity
    <2>1. ((record \div BlkS2) % (MaxS2 + 1)) * BlkS2 + (record % BlkS2)
             = record % (BlkS2 * (MaxS2 + 1))
      BY <1>a, DivisionNested, Zenon
    <2> QED
      BY <1>3, <2>1 DEF Capacity, Module
  <1>8. SeqRecord(Seek(F, record, flag)) = m * BlkS2 + (e * BlkEX + c)
    BY <1>4, <1>5, Widths DEF SeqRecord
  <1> QED
    BY <1>5, <1>6, <1>7, <1>8

\* The record number _SetRandom computes fits r, and is the sequential position
\* itself except after the last record of an extent, where it falls short by
\* the whole extent.
THEOREM RandomRecordFits ==
    ASSUME NEW D, NEW N, NEW F \in FcbOf(D, N)
    PROVE  /\ RandomRecord(F) \in 0..(Capacity - 1)
           /\ RandomRecord(F) =
                IF F.cr = BlkEX THEN SeqRecord(F) - BlkEX ELSE SeqRecord(F)
  <1>1. F.cr \in 0..BlkEX /\ F.ex \in 0..MaxEX /\ F.s2 \in Nat
    BY Widths DEF FcbOf
  <1>2. PICK m \in 0..MaxS2 : m = Module(F.s2)
    BY <1>1, ModuleRange
  <1>3. F.ex % (MaxEX + 1) = F.ex
    BY <1>1, Widths
  <1>4. F.cr % BlkEX = IF F.cr = BlkEX THEN 0 ELSE F.cr
    BY <1>1, Widths
  <1>5. RandomRecord(F) = IF F.cr = BlkEX THEN SeqRecord(F) - BlkEX ELSE SeqRecord(F)
    BY <1>1, <1>2, <1>3, <1>4, Widths DEF RandomRecord, SeqRecord
  <1>6. SeqRecord(F) \in 0..Capacity
    BY SeqRecordRange
  <1>7. RandomRecord(F) >= 0
    BY <1>1, <1>2, <1>3, <1>4, Widths DEF RandomRecord
  <1>8. ASSUME F.cr < BlkEX
        PROVE  SeqRecord(F) < Capacity
    <2>1. F.ex * BlkEX \in Nat /\ F.ex * BlkEX <= MaxEX * BlkEX /\ MaxEX * BlkEX \in Nat
      BY <1>1, Widths, ProductMonotone
    <2>2. m * BlkS2 \in Nat /\ m * BlkS2 <= MaxS2 * BlkS2 /\ MaxS2 * BlkS2 \in Nat
      BY Widths, ProductMonotone
    <2>3. MaxEX * BlkEX + BlkEX = BlkS2 /\ MaxS2 * BlkS2 + BlkS2 = Capacity
      BY Widths DEF BlkS2, Capacity
    <2> QED
      BY <1>1, <1>2, <1>8, <2>1, <2>2, <2>3, Widths DEF SeqRecord
  <1> QED
    BY <1>1, <1>5, <1>6, <1>7, <1>8, Widths

Code == {0, 1, 16, 254, 255}

-----------------------------------------------------------------------------
(* Host files.                                                             *)

\* Every record number of an FCB, sequential or random, is one a file can have.
LEMMA RecordRange ==
    ASSUME NEW D, NEW N, NEW F \in FcbOf(D, N)
    PROVE  SeqRecord(F) \in Record /\ F.r \in Record
  <1>1. SeqRecord(F) \in 0..Capacity
    BY SeqRecordRange
  <1> QED
    BY <1>1, Widths DEF Record, FcbOf

LEMMA SizeRange ==
    /\ BlkSZ \in Nat \ {0}
    /\ RandomSpan * BlkSZ \in Nat
    /\ \A n \in 0..RandomSpan : n * BlkSZ \in 0..(RandomSpan * BlkSZ)
  <1>1. BlkSZ \in Nat \ {0} /\ RandomSpan \in Nat
    BY FileAssumption, Widths
  <1>2. ASSUME NEW n \in 0..RandomSpan
        PROVE  n * BlkSZ \in 0..(RandomSpan * BlkSZ)
    <2>1. n * BlkSZ \in Nat /\ n * BlkSZ <= RandomSpan * BlkSZ
      BY <1>1, ProductMonotone
    <2> QED
      BY <1>1, <2>1
  <1> QED
    BY <1>1, <1>2

LEMMA BlankType == NoFile \in HostFile /\ NewFile \in HostFile
  BY SizeRange, FileAssumption DEF NoFile, NewFile, Blank, HostFile

LEMMA HostMadeType ==
    ASSUME NEW n \in InitLen
    PROVE  HostMade(n) \in HostFile
  BY SizeRange, FileAssumption DEF HostMade, HostFile

LEMMA WithRecordType ==
    ASSUME NEW h \in HostFile, NEW record \in Record, NEW v \in Value
    PROVE  WithRecord(h, record, v) \in HostFile
  <1>1. (record + 1) * BlkSZ \in 0..(RandomSpan * BlkSZ)
    BY SizeRange, Widths DEF Record
  <1> QED
    BY <1>1, SizeRange DEF WithRecord, HostFile

LEMMA TruncatedType ==
    ASSUME NEW h \in HostFile, NEW rc \in 0..MaxRC
    PROVE  Truncated(h, rc) \in HostFile
  <1>1. rc * BlkSZ \in 0..(RandomSpan * BlkSZ)
    BY SizeRange, Widths
  <1> QED
    BY <1>1, SizeRange, FileAssumption DEF Truncated, HostFile

\* The size of a file that exists is never negative, and that of one that does
\* not is an integer all the same.
LEMMA FileSizeType ==
    ASSUME NEW h \in HostFile
    PROVE  /\ FileSize(h) \in Int
           /\ h.len >= 0 => FileSize(h) \in Nat /\ FileSize(h) \div BlkSZ \in Nat
  <1>1. h.len \in Int /\ BlkSZ \in Nat \ {0}
    BY SizeRange DEF HostFile
  <1>2. h.len % BlkSZ \in 0..(BlkSZ - 1) /\ (-h.len) % BlkSZ \in 0..(BlkSZ - 1)
    BY <1>1
  <1>3. FileSize(h) \in Int /\ (h.len >= 0 => FileSize(h) \in Nat)
    BY <1>1, <1>2 DEF FileSize, CRemainder
  <1> QED
    BY <1>1, <1>3

-----------------------------------------------------------------------------
(* The type invariant.                                                     *)

LEMMA TargetType ==
    ASSUME TypeOK, NEW f \in Fcb
    PROVE  /\ fcb[f] \in FcbOf(DriveByte, Name)
           /\ Target(f) \in Drive /\ Path(f) \in FileId
           /\ files[Path(f)] \in HostFile
  <1>1. fcb[f] \in FcbOf(DriveByte, Name)
    BY DEF TypeOK
  <1>2. fcb[f].dr \in DriveByte /\ fcb[f].name \in Name
    BY <1>1 DEF FcbOf
  <1>3. Target(f) \in Drive
    BY <1>2, DriveAssumption DEF Target, DriveByte, TypeOK
  <1>4. Path(f) \in FileId
    BY <1>2, <1>3 DEF Path, FileId, TypeOK
  <1> QED
    BY <1>1, <1>3, <1>4 DEF TypeOK

LEMMA BitType ==
    ASSUME NEW d \in Drive
    PROVE  Bit(d) \subseteq 0..(VectorBits - 1)
  BY DriveAssumption DEF Bit

LEMMA RewoundType ==
    ASSUME NEW D, NEW N, NEW F \in FcbOf(D, N)
    PROVE  Rewound(F) \in FcbOf(D, N)
  <1>1. /\ 0 \in 0..MaxEX /\ 0 \in 0..MaxRC /\ 0 \in 0..MaxCR
        /\ 0 \in 0..(2 * S2Flag - 1)
    BY Widths
  <1> QED
    BY <1>1 DEF Rewound, FcbOf

LEMMA TouchedType ==
    ASSUME NEW D, NEW N, NEW F \in FcbOf(D, N)
    PROVE  Touched(F) \in FcbOf(D, N)
  <1>1. MarkModified(F.s2) \in 0..(2 * S2Flag - 1)
    BY FlagRange, Widths DEF FcbOf
  <1> QED
    BY <1>1 DEF Touched, FcbOf

\* A call that ends in an error changes drives and vectors only.
LEMMA ErrorType ==
    ASSUME TypeOK, NEW f \in Fcb, SelectError(f) \/ ReadOnlyError(f)
    PROVE  TypeOK'
  <1>1. CASE SelectError(f)
    BY <1>1 DEF SelectError, BdosError, hostVars, dataVars, TypeOK, Exists
  <1>2. CASE ReadOnlyError(f)
    <2>1. Bit(Target(f)) \subseteq 0..(VectorBits - 1)
      BY TargetType, BitType
    <2>2. /\ loginVector' = loginVector \cup Bit(Target(f))
          /\ Status' = 2 /\ cDrive' = oDrive /\ ram4' = oDrive /\ hl' = 255
          /\ UNCHANGED <<oDrive, userCode, roVector, hostVars, dataVars>>
      BY <1>2 DEF ReadOnlyError, BdosError
    <2>3. loginVector' \subseteq 0..(VectorBits - 1)
      BY <2>1, <2>2 DEF TypeOK
    <2>4. UNCHANGED <<oDrive, userCode, roVector, disks, areas, files, fcb, dmaAddr, mem>>
      BY <2>2 DEF hostVars, dataVars
    <2> QED
      BY <2>2, <2>3, <2>4 DEF TypeOK
  <1> QED
    BY <1>1, <1>2

\* A call that runs to its end has only files, FCBs and the buffer to answer for.
LEMMA SelectedType ==
    ASSUME TypeOK, NEW f \in Fcb, NEW res \in Code, Selected(f, res),
           files' \in [FileId -> HostFile],
           fcb' \in [Fcb -> FcbOf(DriveByte, Name)],
           mem' \in [Buffer -> Value]
    PROVE  TypeOK'
  <1>1. Bit(Target(f)) \subseteq 0..(VectorBits - 1)
    BY TargetType, BitType
  <1> QED
    BY <1>1 DEF Selected, TypeOK, Code

LEMMA OpenFileType ==
    ASSUME TypeOK, NEW f \in Fcb, OpenFile(f)
    PROVE  TypeOK'
  <1>1. CASE SelectError(f)
    BY <1>1, ErrorType
  <1>2. CASE /\ ~Exists(Path(f)) /\ Selected(f, 255)
             /\ UNCHANGED <<files, fcb, mem>>
    BY <1>2, SelectedType DEF Code, TypeOK
  <1>3. CASE Exists(Path(f)) /\ ~SelectError(f)
    <2> DEFINE len == FileSize(files[Path(f)]) \div BlkSZ
               rc == IF len > MaxRC THEN MaxRC ELSE len
    <2>1. rc \in 0..MaxRC /\ S2Flag \in 0..(2 * S2Flag - 1)
      BY <1>3, TargetType, FileSizeType, Widths DEF Exists
    <2>2. /\ Selected(f, 0) /\ UNCHANGED <<files, mem>>
          /\ fcb' = [fcb EXCEPT ![f] = [fcb[f] EXCEPT !.s2 = S2Flag, !.rc = rc]]
      BY <1>3 DEF OpenFile
    <2> HIDE DEF rc
    <2>3. fcb' \in [Fcb -> FcbOf(DriveByte, Name)]
      <3>1. [fcb[f] EXCEPT !.s2 = S2Flag, !.rc = rc] \in FcbOf(DriveByte, Name)
        BY <2>1, TargetType DEF FcbOf
      <3> QED
        BY <2>2, <3>1 DEF TypeOK
    <2> QED
      BY <2>2, <2>3, SelectedType DEF Code, TypeOK
  <1> QED
    BY <1>1, <1>2, <1>3 DEF OpenFile

LEMMA CloseFileType ==
    ASSUME TypeOK, NEW f \in Fcb, CloseFile(f)
    PROVE  TypeOK'
  <1>1. CASE SelectError(f) \/ ReadOnlyError(f)
    BY <1>1, ErrorType
  <1>2. CASE ~SelectError(f) /\ ~ReadOnlyError(f)
    <2>1. /\ Selected(f, 0) /\ UNCHANGED <<fcb, mem>>
          /\ \/ files' = files
             \/ files' = [files EXCEPT ![Path(f)] = Truncated(@, fcb[f].rc)]
      BY <1>2 DEF CloseFile, Writable
    <2>2. Truncated(files[Path(f)], fcb[f].rc) \in HostFile
      BY TargetType, TruncatedType DEF FcbOf
    <2>3. files' \in [FileId -> HostFile]
      BY <2>1, <2>2, TargetType DEF TypeOK
    <2>4. fcb' \in [Fcb -> FcbOf(DriveByte, Name)] /\ mem' \in [Buffer -> Value]
      BY <2>1 DEF TypeOK
    <2> QED
      BY <2>1, <2>3, <2>4, SelectedType DEF Code
  <1> QED
    BY <1>1, <1>2

LEMMA MakeFileType ==
    ASSUME TypeOK, NEW f \in Fcb, MakeFile(f)
    PROVE  TypeOK'
  <1>1. CASE SelectError(f) \/ ReadOnlyError(f)
    BY <1>1, ErrorType
  <1>2. CASE ~SelectError(f) /\ ~ReadOnlyError(f)
    <2>1. /\ Selected(f, 0) \/ Selected(f, 255)
          /\ UNCHANGED mem
          /\ files' \in {files, [files EXCEPT ![Path(f)] = NewFile]}
          /\ fcb' \in {fcb, [fcb EXCEPT ![f] = Rewound(@)]}
      BY <1>2 DEF MakeFile, Writable
    <2>2. fcb' \in [Fcb -> FcbOf(DriveByte, Name)]
      BY <2>1, TargetType, RewoundType DEF TypeOK
    <2>3. files' \in [FileId -> HostFile]
      BY <2>1, BlankType, TargetType DEF TypeOK
    <2> QED
      BY <2>1, <2>2, <2>3, SelectedType DEF Code, TypeOK
  <1> QED
    BY <1>1, <1>2

LEMMA DeleteFileType ==
    ASSUME TypeOK, NEW f \in Fcb, DeleteFile(f)
    PROVE  TypeOK'
  <1>1. CASE SelectError(f) \/ ReadOnlyError(f)
    BY <1>1, ErrorType
  <1>2. CASE ~SelectError(f) /\ ~ReadOnlyError(f)
    <2>1. /\ Selected(f, 0) \/ Selected(f, 255)
          /\ UNCHANGED <<fcb, mem>>
          /\ files' = [id \in FileId |-> IF id \in Matches(f) THEN NoFile ELSE files[id]]
      BY <1>2 DEF DeleteFile, Writable
    <2>2. files' \in [FileId -> HostFile]
      BY <2>1, BlankType DEF TypeOK
    <2>3. fcb' \in [Fcb -> FcbOf(DriveByte, Name)] /\ mem' \in [Buffer -> Value]
      BY <2>1 DEF TypeOK
    <2> QED
      BY <2>1, <2>2, <2>3, SelectedType DEF Code
  <1> QED
    BY <1>1, <1>2

LEMMA RenameFileType ==
    ASSUME TypeOK, NEW f \in Fcb, NEW n \in Name, NEW d \in DriveByte, RenameFile(f, n, d)
    PROVE  TypeOK'
  <1>1. CASE SelectError(f) \/ ReadOnlyError(f)
    BY <1>1, ErrorType
  <1>2. CASE ~SelectError(f) /\ ~ReadOnlyError(f)
    <2>1. /\ Selected(f, 0) \/ Selected(f, 255)
          /\ UNCHANGED <<fcb, mem>>
          /\ \/ files' = files
             \/ files' = [files EXCEPT ![NewPath(f, n, d)] = files[Path(f)],
                                       ![Path(f)] = NoFile]
      BY <1>2 DEF RenameFile, Writable
    <2>2. NewPath(f, n, d) \in FileId
      BY TargetType DEF NewPath, FileId, TypeOK
    <2>3. files' \in [FileId -> HostFile]
      BY <2>1, <2>2, BlankType, TargetType DEF TypeOK
    <2>4. fcb' \in [Fcb -> FcbOf(DriveByte, Name)] /\ mem' \in [Buffer -> Value]
      BY <2>1 DEF TypeOK
    <2> QED
      BY <2>1, <2>3, <2>4, SelectedType DEF Code
  <1> QED
    BY <1>1, <1>2

\* The host's part of a transfer keeps files and buffers what they are.
LEMMA TransferType ==
    ASSUME TypeOK, NEW f \in Fcb, NEW record \in Record
    PROVE  /\ FetchRecord(f, record) => mem' \in [Buffer -> Value]
           /\ StoreRecord(f, record) => files' \in [FileId -> HostFile]
  <1>1. ASSUME FetchRecord(f, record)
        PROVE  mem' \in [Buffer -> Value]
    <2>1. files[Path(f)].data[record] \in Value
      BY TargetType DEF HostFile
    <2> QED
      BY <1>1, <2>1 DEF FetchRecord, TypeOK
  <1>2. ASSUME StoreRecord(f, record)
        PROVE  files' \in [FileId -> HostFile]
    <2>1. WithRecord(files[Path(f)], record, mem[dmaAddr]) \in HostFile
      BY TargetType, WithRecordType DEF TypeOK
    <2> QED
      BY <1>2, <2>1 DEF StoreRecord, TypeOK
  <1> QED
    BY <1>1, <1>2

LEMMA FcbUpdate ==
    ASSUME TypeOK, NEW f \in Fcb, NEW F \in FcbOf(DriveByte, Name),
           fcb' = [fcb EXCEPT ![f] = F]
    PROVE  fcb' \in [Fcb -> FcbOf(DriveByte, Name)]
  BY DEF TypeOK

LEMMA ReadSeqType ==
    ASSUME TypeOK, NEW f \in Fcb, ReadSeq(f)
    PROVE  TypeOK'
  <1>1. CASE SelectError(f)
    BY <1>1, ErrorType
  <1>2. CASE UNCHANGED <<files, fcb, mem>> /\ (Selected(f, 16) \/ Selected(f, 1))
    BY <1>2, SelectedType DEF Code, TypeOK
  <1>3. CASE /\ FetchRecord(f, SeqRecord(fcb[f]))
             /\ fcb' = [fcb EXCEPT ![f] = Advance(fcb[f])]
             /\ Selected(f, 0) \/ Selected(f, 254)
             /\ UNCHANGED files
    <2>1. Advance(fcb[f]) \in FcbOf(DriveByte, Name) /\ SeqRecord(fcb[f]) \in Record
      BY TargetType, AdvanceNext, RecordRange
    <2>2. fcb' \in [Fcb -> FcbOf(DriveByte, Name)] /\ mem' \in [Buffer -> Value]
      BY <1>3, <2>1, FcbUpdate, TransferType
    <2> QED
      BY <1>3, <2>2, SelectedType DEF Code, TypeOK
  <1> QED
    BY <1>1, <1>2, <1>3 DEF ReadSeq

LEMMA WriteSeqType ==
    ASSUME TypeOK, NEW f \in Fcb, WriteSeq(f)
    PROVE  TypeOK'
  <1>1. CASE SelectError(f) \/ ReadOnlyError(f)
    BY <1>1, ErrorType
  <1>2. CASE UNCHANGED <<files, fcb, mem>> /\ Selected(f, 16)
    BY <1>2, SelectedType DEF Code, TypeOK
  <1>3. CASE /\ StoreRecord(f, SeqRecord(fcb[f]))
             /\ fcb' = [fcb EXCEPT ![f] = Advance(Touched(fcb[f]))]
             /\ Selected(f, 0) \/ Selected(f, 254)
             /\ UNCHANGED mem
    <2>1. Touched(fcb[f]) \in FcbOf(DriveByte, Name)
      BY TargetType, TouchedType
    <2>2. /\ Advance(Touched(fcb[f])) \in FcbOf(DriveByte, Name)
          /\ SeqRecord(fcb[f]) \in Record
      BY <2>1, TargetType, AdvanceNext, RecordRange
    <2>3. fcb' \in [Fcb -> FcbOf(DriveByte, Name)] /\ files' \in [FileId -> HostFile]
      BY <1>3, <2>2, FcbUpdate, TransferType
    <2> QED
      BY <1>3, <2>3, SelectedType DEF Code, TypeOK
  <1> QED
    BY <1>1, <1>2, <1>3 DEF WriteSeq, Writable

LEMMA SeekType ==
    ASSUME TypeOK, NEW f \in Fcb, NEW flag \in {0, S2Flag}
    PROVE  /\ fcb[f].r \in Record
           /\ Seek(fcb[f], fcb[f].r, flag) \in FcbOf(DriveByte, Name)
  <1>1. fcb[f].r \in Record /\ fcb[f].r \in 0..(RandomSpan - 1)
    BY TargetType, RecordRange DEF Record
  <1> QED
    BY <1>1, TargetType, SeekThere

LEMMA ReadRandType ==
    ASSUME TypeOK, NEW f \in Fcb, ReadRand(f)
    PROVE  TypeOK'
  <1>1. CASE SelectError(f)
    BY <1>1, ErrorType
  <1>2. CASE Selected(f, 16) /\ UNCHANGED <<files, fcb, mem>>
    BY <1>2, SelectedType DEF Code, TypeOK
  <1>3. CASE /\ FetchRecord(f, fcb[f].r)
             /\ fcb' = [fcb EXCEPT ![f] = Seek(@, @.r, FlagOf(@))]
             /\ Selected(f, 0) \/ Selected(f, 1)
             /\ UNCHANGED files
    <2>1. FlagOf(fcb[f]) \in {0, S2Flag}
      BY DEF FlagOf
    <2>2. fcb' \in [Fcb -> FcbOf(DriveByte, Name)] /\ mem' \in [Buffer -> Value]
      BY <1>3, <2>1, SeekType, FcbUpdate, TransferType
    <2> QED
      BY <1>3, <2>2, SelectedType DEF Code, TypeOK
  <1> QED
    BY <1>1, <1>2, <1>3 DEF ReadRand

LEMMA WriteRandType ==
    ASSUME TypeOK, NEW f \in Fcb, WriteRand(f)
    PROVE  TypeOK'
  <1>1. CASE SelectError(f) \/ ReadOnlyError(f)
    BY <1>1, ErrorType
  <1>2. CASE Selected(f, 16) /\ UNCHANGED <<files, fcb, mem>>
    BY <1>2, SelectedType DEF Code, TypeOK
  <1>3. CASE /\ StoreRecord(f, fcb[f].r)
             /\ fcb' = [fcb EXCEPT ![f] = Seek(@, @.r, 0)]
             /\ Selected(f, 0)
             /\ UNCHANGED mem
    <2>1. fcb' \in [Fcb -> FcbOf(DriveByte, Name)] /\ files' \in [FileId -> HostFile]
      BY <1>3, SeekType, FcbUpdate, TransferType
    <2> QED
      BY <1>3, <2>1, SelectedType DEF Code, TypeOK
  <1> QED
    BY <1>1, <1>2, <1>3 DEF WriteRand, Writable

LEMMA GetFileSizeType ==
    ASSUME TypeOK, NEW f \in Fcb, GetFileSize(f)
    PROVE  TypeOK'
  <1> DEFINE count == FileSize(files[Path(f)]) \div BlkSZ
  <1>1. CASE SelectError(f)
    BY <1>1, ErrorType
  <1>2. CASE /\ Selected(f, 0) \/ Selected(f, 255)
             /\ UNCHANGED <<files, mem>>
             /\ \/ fcb' = fcb
                \/ fcb' = [fcb EXCEPT ![f].r = count % RandomSpan]
    <2>1. count % RandomSpan \in 0..(RandomSpan - 1)
      <3>1. FileSize(files[Path(f)]) \in Int /\ BlkSZ \in Nat \ {0} /\ RandomSpan \in Nat \ {0}
        BY TargetType, FileSizeType, SizeRange, Widths
      <3> QED
        BY <3>1
    <2> HIDE DEF count
    <2>2. [fcb[f] EXCEPT !.r = count % RandomSpan] \in FcbOf(DriveByte, Name)
      BY <2>1, TargetType DEF FcbOf
    <2>3. fcb' \in [Fcb -> FcbOf(DriveByte, Name)]
      BY <1>2, <2>2 DEF TypeOK
    <2> QED
      BY <1>2, <2>3, SelectedType DEF Code, TypeOK
  <1> QED
    BY <1>1, <1>2 DEF GetFileSize

LEMMA SetRandomType ==
    ASSUME TypeOK, NEW f \in Fcb, SetRandom(f)
    PROVE  TypeOK'
  <1>1. RandomRecord(fcb[f]) \in 0..(RandomSpan - 1)
    BY TargetType, RandomRecordFits, Widths
  <1>2. [fcb[f] EXCEPT !.r = RandomRecord(fcb[f])] \in FcbOf(DriveByte, Name)
    BY <1>1, TargetType DEF FcbOf
  <1>3. fcb' \in [Fcb -> FcbOf(DriveByte, Name)]
    BY <1>2 DEF SetRandom, TypeOK
  <1> QED
    BY <1>3 DEF SetRandom, driveVars, hostVars, TypeOK

LEMMA FileCallType ==
    ASSUME TypeOK, NEW f \in Fcb, FileCall(f)
    PROVE  TypeOK'
  BY OpenFileType, CloseFileType, MakeFileType, DeleteFileType, RenameFileType,
     ReadSeqType, WriteSeqType, ReadRandType, WriteRandType,
     GetFileSizeType, SetRandomType
  DEF FileCall

LEMMA SystemCallType ==
    ASSUME TypeOK, SystemCall
    PROVE  TypeOK'
  <1>1. CASE ResetDisks
    <2>1. 0 \in Drive /\ DefDMA \in Buffer /\ Bit(0) \subseteq 0..(VectorBits - 1)
      BY DriveAssumption, FileAssumption, BitType
    <2> QED
      BY <1>1, <2>1 DEF ResetDisks, BdosError, hostVars, TypeOK
  <1>2. CASE WriteProtectDisk
    <2>1. Bit(cDrive) \subseteq 0..(VectorBits - 1)
      BY BitType DEF TypeOK
    <2> QED
      BY <1>2, <2>1 DEF WriteProtectDisk, hostVars, dataVars, TypeOK
  <1>3. ASSUME NEW d \in Drive, SelectDisk(d)
        PROVE  TypeOK'
    <2>1. Bit(d) \subseteq 0..(VectorBits - 1)
      BY BitType
    <2>2. /\ Status' \in {Status, 2} /\ cDrive' \in {cDrive, d} /\ oDrive' \in {cDrive, d}
          /\ ram4' \in {ram4, cDrive} /\ hl' \in {0, 255}
          /\ loginVector' \in {loginVector, loginVector \cup Bit(d)}
          /\ UNCHANGED <<userCode, roVector, hostVars, dataVars>>
      BY <1>3 DEF SelectDisk, BdosError
    <2>3. loginVector' \subseteq 0..(VectorBits - 1)
      BY <2>1, <2>2 DEF TypeOK
    <2> QED
      BY <2>2, <2>3 DEF hostVars, dataVars, TypeOK
  <1>4. ASSUME NEW a \in Buffer, SetDma(a)
        PROVE  TypeOK'
    BY <1>4 DEF SetDma, driveVars, hostVars, TypeOK
  <1>5. ASSUME NEW u \in User, SetUser(u)
        PROVE  TypeOK'
    BY <1>5 DEF SetUser, dataVars, TypeOK
  <1>6. ASSUME NEW f \in Fcb, MakeDisk(f)
        PROVE  TypeOK'
    <2>1. fcb[f].dr - 1 \in 0..(VectorBits - 1) => fcb[f].dr - 1 \in Drive
      BY TargetType, DriveAssumption DEF FcbOf, DriveByte
    <2>2. 0 \in User
      BY DriveAssumption
    <2> QED
      BY <1>6, <2>1, <2>2 DEF MakeDisk, driveVars, dataVars, TypeOK
  <1> QED
    BY <1>1, <1>2, <1>3, <1>4, <1>5, <1>6 DEF SystemCall

LEMMA ProgramType ==
    ASSUME TypeOK, Program
    PROVE  TypeOK'
  <1>1. ASSUME NEW f \in Fcb, NEW d \in DriveByte, NEW n \in Name, PrepareFcb(f, d, n)
        PROVE  TypeOK'
    <2>1. [Rewound(fcb[f]) EXCEPT !.dr = d, !.name = n] \in FcbOf(DriveByte, Name)
      <3>1. PICK F \in FcbOf(DriveByte, Name) : F = Rewound(fcb[f])
        BY TargetType, RewoundType
      <3>2. [F EXCEPT !.dr = d, !.name = n] \in FcbOf(DriveByte, Name)
        BY DEF FcbOf
      <3> QED
        BY <3>1, <3>2
    <2>2. fcb' \in [Fcb -> FcbOf(DriveByte, Name)]
      BY <1>1, <2>1, FcbUpdate DEF PrepareFcb
    <2> QED
      BY <1>1, <2>2 DEF PrepareFcb, driveVars, hostVars, TypeOK
  <1>2. ASSUME NEW f \in Fcb, NEW record \in RandomArg, PokeRandom(f, record)
        PROVE  TypeOK'
    <2>1. record \in 0..(RandomSpan - 1)
      BY FileAssumption
    <2>2. [fcb[f] EXCEPT !.r = record] \in FcbOf(DriveByte, Name)
      BY <2>1, TargetType DEF FcbOf
    <2>3. fcb' \in [Fcb -> FcbOf(DriveByte, Name)]
      BY <1>2, <2>2 DEF PokeRandom, TypeOK
    <2> QED
      BY <1>2, <2>3 DEF PokeRandom, driveVars, hostVars, TypeOK
  <1>3. ASSUME NEW v \in Value, FillBuffer(v)
        PROVE  TypeOK'
    BY <1>3 DEF FillBuffer, driveVars, hostVars, TypeOK
  <1>4. ASSUME NEW s \in 1..3, LeaveProgram(s)
        PROVE  TypeOK'
    BY <1>4 DEF LeaveProgram, driveVars, hostVars, dataVars, TypeOK
  <1>5. CASE StoreDrive
    BY <1>5 DEF StoreDrive, hostVars, dataVars, TypeOK
  <1> QED
    BY <1>1, <1>2, <1>3, <1>4, <1>5 DEF Program

LEMMA StutterType ==
    ASSUME TypeOK, UNCHANGED vars
    PROVE  TypeOK'
  BY DEF vars, driveVars, hostVars, dataVars, TypeOK

LEMMA PowerOnType ==
    ASSUME PowerOn, files \in [FileId -> HostFile]
    PROVE  TypeOK
  <1>1. 0 \in Drive /\ InitDisks \subseteq Drive /\ 0 \in User /\ DefDMA \in Buffer
        /\ Zero \in Value
    BY DriveAssumption, FileAssumption
  <1>2. ASSUME NEW n \in Name
        PROVE  FreshFcb(n) \in FcbOf(DriveByte, Name)
    <2>1. /\ 0 \in 0..MaxEX /\ 0 \in 0..MaxRC /\ 0 \in 0..MaxCR
          /\ 0 \in 0..(2 * S2Flag - 1) /\ 0 \in 0..(RandomSpan - 1)
      BY Widths
    <2> QED
      BY <2>1 DEF FreshFcb, FcbOf, DriveByte
  <1>3. fcb \in [Fcb -> FcbOf(DriveByte, Name)]
    BY <1>2 DEF PowerOn
  <1> QED
    BY <1>1, <1>3 DEF PowerOn, TypeOK

LEMMA InitType ==
    ASSUME Init
    PROVE  TypeOK
  <1>1. files \in [FileId -> HostFile]
    BY BlankType, HostMadeType DEF Init
  <1> QED
    BY <1>1, PowerOnType DEF Init

LEMMA WarmBootType ==
    ASSUME TypeOK, WarmBoot
    PROVE  TypeOK'
  <1>1. 0 \in Drive
    BY DriveAssumption
  <1> QED
    BY <1>1 DEF WarmBoot, hostVars, dataVars, TypeOK

LEMMA NextType ==
    ASSUME TypeOK, [Next]_vars
    PROVE  TypeOK'
  <1> QED
    BY WarmBootType, FileCallType, SystemCallType, ProgramType, StutterType DEF Next

\* Every state of the BDOS is well formed, in particular every FCB that programs
\* get from the file calls has its position bytes in their ranges, and a file
\* never outgrows the 24-bit record number (all of disk.h).
THEOREM TypeCorrect == Spec => []TypeOK
  <1>1. Init => TypeOK
    BY InitType
  <1>2. TypeOK /\ [Next]_vars => TypeOK'
    BY NextType
  <1> QED
    BY <1>1, <1>2, PTL DEF Spec

-----------------------------------------------------------------------------
(* Folders: drives in use exist, files are in user areas that exist.       *)

\* Only a make brings a file to life, and only in a user area that exists; a
\* rename moves one within its area; the others keep or remove files.
FilesStay(d, u) ==
    \A id \in FileId : files'[id].len >= 0 =>
        Exists(id) \/ (id[1] = d /\ id[2] = u /\ <<d, u>> \in areas)

LEMMA ErrorFolders ==
    ASSUME FoldersInv, NEW f \in Fcb, SelectError(f) \/ ReadOnlyError(f)
    PROVE  FoldersInv'
  <1>1. /\ cDrive' = oDrive /\ ram4' = oDrive
        /\ \/ loginVector' = loginVector
           \/ loginVector' = loginVector \cup Bit(Target(f)) /\ Target(f) \in disks
        /\ UNCHANGED <<oDrive, hostVars>>
    BY DEF SelectError, ReadOnlyError, BdosError
  <1>2. UNCHANGED <<disks, areas, files>>
    BY <1>1 DEF hostVars
  <1>3. DriveExists'
    BY <1>1, <1>2 DEF FoldersInv, DriveExists, Bit
  <1> QED
    BY <1>2, <1>3 DEF FoldersInv, FilesInAreas, Exists

LEMMA SelectedFolders ==
    ASSUME FoldersInv, NEW f \in Fcb, NEW res, Selected(f, res),
           FilesStay(Target(f), userCode)
    PROVE  FoldersInv'
  <1>1. /\ loginVector' = loginVector \cup Bit(Target(f)) /\ Target(f) \in disks
        /\ UNCHANGED <<cDrive, oDrive, ram4, disks, areas>>
    BY DEF Selected
  <1>2. DriveExists'
    BY <1>1 DEF FoldersInv, DriveExists, Bit
  <1>3. ASSUME NEW id \in FileId, files'[id].len >= 0
        PROVE  <<id[1], id[2]>> \in areas /\ id[1] \in disks
    BY <1>1, <1>3 DEF FilesStay, FoldersInv, FilesInAreas
  <1> QED
    BY <1>1, <1>2, <1>3 DEF FoldersInv, FilesInAreas, Exists

\* The path of an FCB is in the folder its drive byte and the user area name.
LEMMA PathFolder ==
    ASSUME TypeOK, NEW f \in Fcb, NEW id \in FileId, id = Path(f)
    PROVE  id[1] = Target(f) /\ id[2] = userCode
  BY DEF Path

LEMMA FileCallFolders ==
    ASSUME TypeOK, FoldersInv, NEW f \in Fcb, FileCall(f)
    PROVE  FoldersInv'
  <1>1. CASE SelectError(f) \/ ReadOnlyError(f)
    BY <1>1, ErrorFolders
  <1>2. ASSUME NEW res, Selected(f, res), files' = files
        PROVE  FoldersInv'
    BY <1>2, SelectedFolders DEF FilesStay, Exists
  <1>3. ASSUME NEW res, Selected(f, res), Exists(Path(f)),
               NEW h, files' = [files EXCEPT ![Path(f)] = h]
        PROVE  FoldersInv'
    <2>1. FilesStay(Target(f), userCode)
      BY <1>3 DEF FilesStay, Exists, TypeOK
    <2> QED
      BY <1>3, <2>1, SelectedFolders
  <1>4. CASE OpenFile(f)
    BY <1>1, <1>2, <1>4 DEF OpenFile
  <1>5. CASE CloseFile(f)
    <2>1. CASE Exists(Path(f))
      BY <1>1, <1>2, <1>3, <1>5, <2>1 DEF CloseFile, Writable
    <2>2. CASE ~Exists(Path(f))
      <3>1. Truncated(files[Path(f)], fcb[f].rc) = files[Path(f)]
        BY <2>2, TargetType DEF Truncated, Exists, HostFile
      <3>2. [files EXCEPT ![Path(f)] = Truncated(@, fcb[f].rc)] = files
        BY <3>1, TargetType DEF TypeOK
      <3> QED
        BY <1>1, <1>2, <1>5, <3>2 DEF CloseFile, Writable
    <2> QED
      BY <2>1, <2>2
  <1>6. CASE MakeFile(f)
    <2>1. CASE /\ <<Target(f), userCode>> \in areas /\ Selected(f, 0)
               /\ files' = [files EXCEPT ![Path(f)] = NewFile]
      <3>1. FilesStay(Target(f), userCode)
        BY <2>1, TargetType, PathFolder DEF FilesStay, Exists, TypeOK
      <3> QED
        BY <2>1, <3>1, SelectedFolders
    <2> QED
      BY <1>1, <1>2, <1>6, <2>1 DEF MakeFile, Writable
  <1>7. CASE DeleteFile(f)
    <2>1. ASSUME NEW res, Selected(f, res),
                 files' = [id \in FileId |-> IF id \in Matches(f) THEN NoFile ELSE files[id]]
          PROVE  FoldersInv'
      <3>1. FilesStay(Target(f), userCode)
        BY <2>1 DEF FilesStay, Exists, NoFile
      <3> QED
        BY <2>1, <3>1, SelectedFolders
    <2> QED
      BY <1>1, <1>7, <2>1 DEF DeleteFile, Writable
  <1>8. ASSUME NEW n \in Name, NEW d \in DriveByte, RenameFile(f, n, d)
        PROVE  FoldersInv'
    <2>1. CASE /\ Exists(Path(f)) /\ Selected(f, 0)
               /\ files' = [files EXCEPT ![NewPath(f, n, d)] = files[Path(f)],
                                         ![Path(f)] = NoFile]
      <3>1. <<Target(f), userCode>> \in areas
        BY <2>1, TargetType, PathFolder DEF FoldersInv, FilesInAreas
      <3>2. NewPath(f, n, d) \in FileId
        BY TargetType DEF NewPath, FileId, TypeOK
      <3>3. NewPath(f, n, d)[1] = Target(f) /\ NewPath(f, n, d)[2] = userCode
        BY DEF NewPath
      <3>4. FilesStay(Target(f), userCode)
        BY <2>1, <3>1, <3>2, <3>3, TargetType DEF FilesStay, Exists, NoFile, TypeOK
      <3> QED
        BY <2>1, <3>4, SelectedFolders
    <2> QED
      BY <1>1, <1>2, <1>8, <2>1 DEF RenameFile, Writable
  <1>9. CASE ReadSeq(f) \/ ReadRand(f) \/ GetFileSize(f)
    BY <1>1, <1>2, <1>9 DEF ReadSeq, ReadRand, GetFileSize
  <1>10. CASE WriteSeq(f) \/ WriteRand(f)
    BY <1>1, <1>2, <1>3, <1>10 DEF WriteSeq, WriteRand, Writable, StoreRecord
  <1>11. CASE SetRandom(f)
    BY <1>11 DEF SetRandom, driveVars, hostVars, FoldersInv, DriveExists, FilesInAreas, Exists
  <1> QED
    BY <1>4, <1>5, <1>6, <1>7, <1>8, <1>9, <1>10, <1>11 DEF FileCall

LEMMA PowerOnFolders ==
    ASSUME PowerOn, \A id \in FileId : Exists(id) => <<id[1], id[2]>> \in areas
    PROVE  FoldersInv
  <1>1. 0 \in disks /\ DriveExists
    BY DriveAssumption DEF PowerOn, DriveExists
  <1>2. \A a \in areas : a[1] \in disks
    BY DEF PowerOn
  <1>3. \A id \in FileId : Exists(id) => id[1] \in disks
    BY <1>2
  <1> QED
    BY <1>1, <1>2, <1>3 DEF FoldersInv, FilesInAreas

LEMMA InitFolders ==
    ASSUME Init
    PROVE  FoldersInv
  <1>1. ASSUME NEW id \in FileId, Exists(id)
        PROVE  <<id[1], id[2]>> \in areas
    <2>1. files[id] # NoFile
      BY <1>1 DEF Exists, NoFile
    <2> QED
      BY <2>1 DEF Init
  <1> QED
    BY <1>1, PowerOnFolders DEF Init

LEMMA SystemCallFolders ==
    ASSUME TypeOK, FoldersInv, SystemCall
    PROVE  FoldersInv'
  <1> USE DEF FoldersInv, DriveExists, FilesInAreas, Exists
  <1>1. CASE ResetDisks
    BY <1>1 DEF ResetDisks, BdosError, hostVars, Bit
  <1>2. CASE WriteProtectDisk
    BY <1>2 DEF WriteProtectDisk, hostVars
  <1>3. ASSUME NEW d \in Drive, SelectDisk(d)
        PROVE  FoldersInv'
    BY <1>3 DEF SelectDisk, BdosError, hostVars, Bit
  <1>4. ASSUME NEW a \in Buffer, SetDma(a)
        PROVE  FoldersInv'
    BY <1>4 DEF SetDma, driveVars, hostVars
  <1>5. ASSUME NEW u \in User, SetUser(u)
        PROVE  FoldersInv'
    BY <1>5 DEF SetUser
  <1>6. ASSUME NEW f \in Fcb, MakeDisk(f)
        PROVE  FoldersInv'
    BY <1>6 DEF MakeDisk, driveVars
  <1> QED
    BY <1>1, <1>2, <1>3, <1>4, <1>5, <1>6 DEF SystemCall

LEMMA ProgramFolders ==
    ASSUME FoldersInv, Program
    PROVE  FoldersInv'
  BY DEF FoldersInv, DriveExists, FilesInAreas, Exists, Program, PrepareFcb, PokeRandom,
         FillBuffer, LeaveProgram, StoreDrive, driveVars, hostVars

LEMMA WarmBootFolders ==
    ASSUME FoldersInv, WarmBoot
    PROVE  FoldersInv'
  BY DEF FoldersInv, DriveExists, FilesInAreas, Exists, WarmBoot, hostVars

LEMMA NextFolders ==
    ASSUME TypeOK, FoldersInv, [Next]_vars
    PROVE  FoldersInv'
  <1>1. CASE UNCHANGED vars
    BY <1>1 DEF FoldersInv, DriveExists, FilesInAreas, Exists, vars, driveVars, hostVars
  <1> QED
    BY <1>1, FileCallFolders, SystemCallFolders, ProgramFolders, WarmBootFolders DEF Next

LEMMA FoldersCorrect == Spec => []FoldersInv
  <1>1. Init => FoldersInv
    BY InitFolders
  <1>2. TypeOK /\ FoldersInv /\ [Next]_vars => FoldersInv'
    BY NextFolders
  <1> QED
    BY <1>1, <1>2, TypeCorrect, PTL DEF Spec

\* The default drive, the drive an error falls back to, the drive the next boot
\* selects and every drive in the active drive map have folders on the host,
\* however a program mixes selections, resets, failures and boots (_error,
\* _SelectDisk, calls 13 and 14).
THEOREM DrivesCorrect == Spec => []DriveExists
  <1>1. FoldersInv => DriveExists
    BY DEF FoldersInv
  <1> QED
    BY <1>1, FoldersCorrect, PTL

\* Every host file is in a user area and a drive that were there or were made
\* (_MakeFile, _RenameFile, _SetUser).
THEOREM FilesCorrect == Spec => []FilesInAreas
  <1>1. FoldersInv => FilesInAreas
    BY DEF FoldersInv
  <1> QED
    BY <1>1, FoldersCorrect, PTL

-----------------------------------------------------------------------------
(* What a call may do to files.                                            *)

FileStepOK ==
    /\ hl' \in {255, 16, 1} => files' = files
    /\ \A i, j \in FileId : files'[i] # files[i] /\ files'[j] # files[j]
          => /\ i[1] = j[1] /\ i[2] = userCode /\ j[2] = userCode
             /\ Bit(i[1]) \subseteq loginVector'

\* A call that succeeds and touches only files of its own folder.
LEMMA FolderStep ==
    ASSUME TypeOK, NEW f \in Fcb, NEW res \in {0, 254}, Selected(f, res),
           \A id \in FileId : files'[id] # files[id] =>
               id[1] = Target(f) /\ id[2] = userCode
    PROVE  FileStepOK
  BY DEF FileStepOK, Selected

LEMMA FileCallStep ==
    ASSUME TypeOK, NEW f \in Fcb, FileCall(f)
    PROVE  FileStepOK
  <1>1. ASSUME files' = files
        PROVE  FileStepOK
    BY <1>1 DEF FileStepOK
  <1>2. ASSUME NEW res \in {0, 254}, Selected(f, res),
               NEW h, files' = [files EXCEPT ![Path(f)] = h]
        PROVE  FileStepOK
    <2>1. ASSUME NEW id \in FileId, files'[id] # files[id]
          PROVE  id[1] = Target(f) /\ id[2] = userCode
      BY <1>2, <2>1, PathFolder DEF TypeOK
    <2> QED
      BY <1>2, <2>1, FolderStep
  <1>3. CASE SelectError(f) \/ ReadOnlyError(f)
    BY <1>1, <1>3 DEF SelectError, ReadOnlyError, hostVars
  <1>4. CASE OpenFile(f) \/ ReadSeq(f) \/ ReadRand(f) \/ GetFileSize(f) \/ SetRandom(f)
    BY <1>1, <1>3, <1>4 DEF OpenFile, ReadSeq, ReadRand, GetFileSize, SetRandom, hostVars
  <1>5. CASE CloseFile(f)
    BY <1>1, <1>2, <1>3, <1>5 DEF CloseFile, Writable
  <1>6. CASE MakeFile(f)
    BY <1>1, <1>2, <1>3, <1>6 DEF MakeFile, Writable
  <1>7. CASE DeleteFile(f)
    <2>1. ASSUME ~SelectError(f), ~ReadOnlyError(f)
          PROVE  FileStepOK
      <3>1. /\ Selected(f, IF Matches(f) = {} THEN 255 ELSE 0)
            /\ files' = [id \in FileId |-> IF id \in Matches(f) THEN NoFile ELSE files[id]]
        BY <1>7, <2>1 DEF DeleteFile, Writable
      <3>2. CASE Matches(f) = {}
        BY <1>1, <3>1, <3>2 DEF TypeOK
      <3>3. CASE Matches(f) # {}
        <4>1. ASSUME NEW id \in FileId, files'[id] # files[id]
              PROVE  id[1] = Target(f) /\ id[2] = userCode
          BY <3>1, <4>1 DEF Matches
        <4> QED
          BY <3>1, <3>3, <4>1, FolderStep
      <3> QED
        BY <3>2, <3>3
    <2> QED
      BY <1>3, <2>1
  <1>8. ASSUME NEW n \in Name, NEW d \in DriveByte, RenameFile(f, n, d)
        PROVE  FileStepOK
    <2>1. CASE /\ Selected(f, 0)
               /\ files' = [files EXCEPT ![NewPath(f, n, d)] = files[Path(f)],
                                         ![Path(f)] = NoFile]
      <3>1. ASSUME NEW id \in FileId, files'[id] # files[id]
            PROVE  id[1] = Target(f) /\ id[2] = userCode
        BY <2>1, <3>1 DEF NewPath, Path, TypeOK
      <3> QED
        BY <2>1, <3>1, FolderStep
    <2> QED
      BY <1>1, <1>3, <1>8, <2>1 DEF RenameFile, Writable
  <1>9. CASE WriteSeq(f) \/ WriteRand(f)
    <2>1. ASSUME ~SelectError(f), ~ReadOnlyError(f), files' # files
          PROVE  \E res \in {0, 254}, record \in {SeqRecord(fcb[f]), fcb[f].r} :
                   Selected(f, res) /\ StoreRecord(f, record)
      BY <1>9, <2>1 DEF WriteSeq, WriteRand, Writable
    <2> QED
      BY <1>1, <1>2, <1>3, <2>1 DEF StoreRecord
  <1> QED
    BY <1>4, <1>5, <1>6, <1>7, <1>8, <1>9 DEF FileCall

LEMMA NextFileStep ==
    ASSUME TypeOK, Next
    PROVE  FileStepOK
  <1>1. CASE SystemCall \/ Program \/ WarmBoot
    <2>1. files' = files
      BY <1>1 DEF SystemCall, ResetDisks, WriteProtectDisk, SelectDisk, SetDma, SetUser,
                  MakeDisk, Program, PrepareFcb, PokeRandom, FillBuffer, LeaveProgram,
                  StoreDrive, WarmBoot, hostVars
    <2> QED
      BY <2>1 DEF FileStepOK
  <1> QED
    BY <1>1, FileCallStep DEF Next

\* A call that reports failure (0xff, 0x10 or 0x01) changed no host file: there
\* is no failure half way through a call (_DeleteFile, _WriteSeq, _error).
THEOREM FailureIsClean == Spec => FailureLeavesFiles
  <1>1. TypeOK /\ [Next]_vars => [hl' \in {255, 16, 1} => files' = files]_vars
    BY NextFileStep DEF FileStepOK
  <1> QED
    BY <1>1, TypeCorrect, PTL DEF Spec, FailureLeavesFiles

\* However a pattern or a rename is written, a call changes files of one drive
\* and of the current user area only, and that drive is in the active drive map
\* (_DeleteFile, _RenameFile).
THEOREM CallsKeepToOneFolder == Spec => ChangesOneFolder
  <1> DEFINE A == \A i, j \in FileId : files'[i] # files[i] /\ files'[j] # files[j]
                    => /\ i[1] = j[1] /\ i[2] = userCode /\ j[2] = userCode
                       /\ Bit(i[1]) \subseteq loginVector'
  <1>1. TypeOK /\ [Next]_vars => [A]_vars
    BY NextFileStep DEF FileStepOK
  <1> QED
    BY <1>1, TypeCorrect, PTL DEF Spec, ChangesOneFolder

\* Set random record gives the position of the next sequential call, for all
\* widths, but for a position at the end of an extent (_SetRandom).
THEOREM SetRandomRight == Spec => SetRandomFollows
  <1> DEFINE A == \A f \in Fcb : SetRandom(f) =>
                    \/ fcb'[f].r = SeqRecord(fcb[f])
                    \/ fcb[f].cr = MaxCR /\ fcb'[f].r + BlkEX = SeqRecord(fcb[f])
  <1>1. TypeOK /\ [Next]_vars => [A]_vars
    <2> SUFFICES ASSUME TypeOK, NEW f \in Fcb, SetRandom(f)
                 PROVE  \/ fcb'[f].r = SeqRecord(fcb[f])
                        \/ fcb[f].cr = MaxCR /\ fcb'[f].r + BlkEX = SeqRecord(fcb[f])
      OBVIOUS
    <2>1. fcb[f] \in FcbOf(DriveByte, Name) /\ fcb \in [Fcb -> FcbOf(DriveByte, Name)]
      BY DEF TypeOK
    <2>2. fcb'[f].r = RandomRecord(fcb[f])
      BY <2>1 DEF SetRandom, FcbOf
    <2>3. RandomRecord(fcb[f]) =
            IF fcb[f].cr = BlkEX THEN SeqRecord(fcb[f]) - BlkEX ELSE SeqRecord(fcb[f])
      BY <2>1, RandomRecordFits
    <2>4. SeqRecord(fcb[f]) \in 0..Capacity
      BY <2>1, SeqRecordRange
    <2> QED
      BY <2>2, <2>3, <2>4, Widths DEF MaxCR
  <1> QED
    BY <1>1, TypeCorrect, PTL DEF Spec, SetRandomFollows

-----------------------------------------------------------------------------
(* Byte lengths and records.                                               *)

\* A record is in a file when its number is below the count of records, the
\* last part of a record included.
LEMMA InFileIffBelow ==
    ASSUME NEW h \in HostFile, NEW record \in Nat
    PROVE  /\ h.len < 0 => Records(h) = -1
           /\ h.len >= 0 => Records(h) \in Nat
           /\ InFile(h, record) <=> record < Records(h)
  <1>1. h.len \in Int /\ h.len >= -1 /\ BlkSZ \in Nat \ {0}
    BY SizeRange DEF HostFile
  <1>2. CASE h.len < 0
    <2>1. record * BlkSZ \in Nat
      BY <1>1
    <2> QED
      BY <1>1, <1>2, <2>1 DEF Records, InFile
  <1>3. CASE h.len >= 0
    <2>a. PICK x \in Nat : x = h.len + BlkSZ - 1
      BY <1>1, <1>3
    <2>b. PICK q \in Nat, r \in 0..(BlkSZ - 1) : q = x \div BlkSZ /\ x = BlkSZ * q + r
      BY <1>1
    <2>c. Records(h) = q
      BY <1>1, <1>3, <2>a, <2>b DEF Records
    <2>1. q = Records(h) /\ h.len + BlkSZ - 1 = BlkSZ * q + r
      BY <2>a, <2>b, <2>c
    <2>2. BlkSZ * q = q * BlkSZ /\ q * BlkSZ \in Nat /\ record * BlkSZ \in Nat
      BY <1>1
    <2>3. CASE record < q
      <3>1. (record + 1) * BlkSZ <= q * BlkSZ
        BY <1>1, <2>3, ProductMonotone
      <3>2. (record + 1) * BlkSZ = record * BlkSZ + BlkSZ
        BY <1>1
      <3> QED
        BY <1>1, <1>3, <2>1, <2>2, <2>3, <3>1, <3>2 DEF InFile
    <2>4. CASE record >= q
      <3>1. q * BlkSZ <= record * BlkSZ
        BY <1>1, <2>4, ProductMonotone
      <3> QED
        BY <1>1, <1>3, <2>1, <2>2, <2>4, <3>1 DEF InFile
    <2> QED
      BY <2>3, <2>4
  <1> QED
    BY <1>1, <1>2, <1>3

\* A whole number of records.
LEMMA WholeRecords ==
    ASSUME NEW n \in Nat, NEW h, h.len = n * BlkSZ
    PROVE  Records(h) = n
  <1>1. BlkSZ \in Nat \ {0} /\ BlkSZ - 1 \in 0..(BlkSZ - 1) /\ n * BlkSZ \in Nat
    BY SizeRange
  <1>2. PICK x \in Int, r \in 0..(BlkSZ - 1) :
           x = n * BlkSZ + BlkSZ - 1 /\ r = BlkSZ - 1
    BY <1>1
  <1>3. x = BlkSZ * n + r
    BY <1>1, <1>2
  <1>4. x \div BlkSZ = n
    BY <1>1, <1>3
  <1> QED
    BY <1>1, <1>2, <1>4 DEF Records

\* Writing a record stores it and grows the file to it.
LEMMA WithRecordRecords ==
    ASSUME NEW h \in HostFile, h.len >= 0, NEW record \in Record, NEW v \in Value
    PROVE  Records(WithRecord(h, record, v)) =
             IF Records(h) <= record THEN record + 1 ELSE Records(h)
  <1>1. record \in Nat /\ record + 1 \in Nat /\ Records(h) \in Nat
    BY Widths, InFileIffBelow DEF Record
  <1>2. h.len \in Int /\ BlkSZ \in Nat \ {0}
    BY SizeRange DEF HostFile
  <1>3. PICK bytes \in Nat : bytes = (record + 1) * BlkSZ /\ bytes = record * BlkSZ + BlkSZ
    BY <1>1, <1>2
  <1>4. CASE h.len < bytes
    <2>1. WithRecord(h, record, v).len = (record + 1) * BlkSZ
      BY <1>3, <1>4 DEF WithRecord
    <2>2. Records(WithRecord(h, record, v)) = record + 1
      BY <1>1, <2>1, WholeRecords
    <2>3. ~InFile(h, record + 1)
      BY <1>2, <1>3, <1>4 DEF InFile
    <2>4. Records(h) <= record + 1
      BY <1>1, <2>3, InFileIffBelow
    <2> QED
      BY <1>1, <2>2, <2>4
  <1>5. CASE h.len >= bytes
    <2>1. WithRecord(h, record, v).len = h.len
      BY <1>2, <1>3, <1>5 DEF WithRecord
    <2>2. Records(WithRecord(h, record, v)) = Records(h)
      BY <2>1 DEF Records
    <2>3. InFile(h, record)
      BY <1>1, <1>2, <1>3, <1>5 DEF InFile
    <2>4. record < Records(h)
      BY <1>1, <2>3, InFileIffBelow
    <2> QED
      BY <1>1, <2>2, <2>4
  <1> QED
    BY <1>2, <1>3, <1>4, <1>5

-----------------------------------------------------------------------------
(* Each call, seen through the refinement mapping.                         *)

LEMMA OneFile ==
    ASSUME OneFileOnly, TypeOK, NEW f \in Fcb
    PROVE  /\ Path(f) = TheFile /\ TheFile \in FileId
           /\ files[TheFile] \in HostFile
           /\ fcb[f] \in FcbOf(DriveByte, Name)
  BY TargetType DEF OneFileOnly

\* A step that leaves the file, the positions and the buffer alone.
LEMMA StutterStep ==
    ASSUME files' = files, mem' = mem, dmaAddr' = dmaAddr,
           \A f \in Fcb : SeqRecord(fcb'[f]) = SeqRecord(fcb[f])
    PROVE  UNCHANGED TheRecordFile!vars
  BY DEF TheRecordFile!vars

\* The mapped position of each handle after a step that changes one FCB.
LEMMA PosStep ==
    ASSUME TypeOK, NEW f \in Fcb, NEW G, fcb' = [fcb EXCEPT ![f] = G]
    PROVE  [h \in Fcb |-> SeqRecord(fcb'[h])] =
             [[h \in Fcb |-> SeqRecord(fcb[h])] EXCEPT ![f] = SeqRecord(G)]
  BY DEF TypeOK

LEMMA ReadSeqStep ==
    ASSUME OneFileOnly, TypeOK, NEW f \in Fcb, Exists(Path(f)),
           InFile(files[Path(f)], SeqRecord(fcb[f])),
           FetchRecord(f, SeqRecord(fcb[f])),
           fcb' = [fcb EXCEPT ![f] = Advance(@)], UNCHANGED <<files, dmaAddr>>
    PROVE  TheRecordFile!ReadNext(f)
  <1>1. SeqRecord(fcb[f]) \in Nat /\ SeqRecord(fcb[f]) \in 0..Capacity
    BY OneFile, SeqRecordRange, Widths
  <1>2. SeqRecord(fcb[f]) < Records(files[TheFile])
    BY <1>1, OneFile, InFileIffBelow
  <1>3. mem'[dmaAddr'] = files[TheFile].data[SeqRecord(fcb[f])]
    BY OneFile DEF FetchRecord, TypeOK
  <1>4. SeqRecord(Advance(fcb[f])) = IF SeqRecord(fcb[f]) = Capacity THEN 1 ELSE SeqRecord(fcb[f]) + 1
    BY OneFile, AdvanceNext
  <1>5. [h \in Fcb |-> SeqRecord(fcb'[h])] =
             [[h \in Fcb |-> SeqRecord(fcb[h])] EXCEPT ![f] = SeqRecord(Advance(fcb[f]))]
    BY PosStep
  <1> QED
    BY <1>2, <1>3, <1>4, <1>5 DEF TheRecordFile!ReadNext, TheRecordFile!NextPos

\* A stored record is stored in the record file.
LEMMA StoreStep ==
    ASSUME OneFileOnly, TypeOK, NEW f \in Fcb, Exists(Path(f)), NEW record \in Record,
           StoreRecord(f, record)
    PROVE  TheRecordFile!Stored(record, mem[dmaAddr])
  <1>1. files' = [files EXCEPT ![TheFile] = WithRecord(@, record, mem[dmaAddr])]
    BY OneFile DEF OneFileOnly, StoreRecord
  <1>2. files'[TheFile] = WithRecord(files[TheFile], record, mem[dmaAddr])
    BY <1>1, OneFile DEF TypeOK
  <1>3. files'[TheFile].data = [files[TheFile].data EXCEPT ![record] = mem[dmaAddr]]
    BY <1>2 DEF WithRecord
  <1>4. files[TheFile].len >= 0 /\ mem[dmaAddr] \in Value
    BY OneFile DEF Exists, TypeOK
  <1>5. Records(files'[TheFile]) =
           IF Records(files[TheFile]) <= record THEN record + 1 ELSE Records(files[TheFile])
    BY <1>2, <1>4, OneFile, WithRecordRecords
  <1> QED
    BY <1>3, <1>5 DEF TheRecordFile!Stored

LEMMA WriteSeqStep ==
    ASSUME OneFileOnly, TypeOK, NEW f \in Fcb, Exists(Path(f)),
           StoreRecord(f, SeqRecord(fcb[f])),
           fcb' = [fcb EXCEPT ![f] = Advance(Touched(@))], UNCHANGED <<mem, dmaAddr>>
    PROVE  TheRecordFile!WriteNext(f)
  <1>1. SeqRecord(fcb[f]) \in Record
    BY OneFile, RecordRange
  <1>2. TheRecordFile!Stored(SeqRecord(fcb[f]), mem[dmaAddr])
    BY <1>1, StoreStep
  <1>3. Records(files[TheFile]) >= 0
    BY OneFile, InFileIffBelow, 0 \in Nat DEF Exists
  <1>4. Touched(fcb[f]) \in FcbOf(DriveByte, Name) /\ SeqRecord(Touched(fcb[f])) = SeqRecord(fcb[f])
    <2>1. fcb[f] \in FcbOf(DriveByte, Name) /\ fcb[f].s2 \in Nat
      BY OneFile, Widths DEF FcbOf
    <2>2. /\ Touched(fcb[f]).cr = fcb[f].cr /\ Touched(fcb[f]).ex = fcb[f].ex
          /\ Touched(fcb[f]).s2 = MarkModified(fcb[f].s2)
      BY <2>1 DEF Touched, FcbOf
    <2> QED
      BY <2>1, <2>2, TouchedType, FlagRange DEF SeqRecord
  <1>5. SeqRecord(Advance(Touched(fcb[f]))) =
           IF SeqRecord(fcb[f]) = Capacity THEN 1 ELSE SeqRecord(fcb[f]) + 1
    BY <1>4, AdvanceNext
  <1>6. [h \in Fcb |-> SeqRecord(fcb'[h])] =
             [[h \in Fcb |-> SeqRecord(fcb[h])] EXCEPT ![f] = SeqRecord(Advance(Touched(fcb[f])))]
    BY PosStep
  <1> QED
    BY <1>2, <1>3, <1>5, <1>6 DEF TheRecordFile!WriteNext, TheRecordFile!NextPos

LEMMA SeekStep ==
    ASSUME OneFileOnly, TypeOK, NEW f \in Fcb, NEW flag \in {0, S2Flag},
           fcb' = [fcb EXCEPT ![f] = Seek(@, @.r, flag)]
    PROVE  [h \in Fcb |-> SeqRecord(fcb'[h])] =
             [[h \in Fcb |-> SeqRecord(fcb[h])] EXCEPT ![f] = fcb[f].r % Capacity]
  <1>1. fcb[f].r \in 0..(RandomSpan - 1)
    BY OneFile DEF FcbOf
  <1>2. SeqRecord(Seek(fcb[f], fcb[f].r, flag)) = fcb[f].r % Capacity
    BY <1>1, OneFile, SeekThere
  <1> QED
    BY <1>2, PosStep

LEMMA ReadRandStep ==
    ASSUME OneFileOnly, TypeOK, NEW f \in Fcb, Exists(Path(f)), FetchRecord(f, fcb[f].r),
           fcb' = [fcb EXCEPT ![f] = Seek(@, @.r, FlagOf(@))], UNCHANGED <<files, dmaAddr>>
    PROVE  \E record \in TheRecordFile!Record : TheRecordFile!ReadAt(f, record)
  <1>1. fcb[f].r \in Record /\ fcb[f].r \in Nat
    BY OneFile, RecordRange, Widths DEF Record
  <1>2. FlagOf(fcb[f]) \in {0, S2Flag}
    BY DEF FlagOf
  <1>3. InFile(files[TheFile], fcb[f].r) <=> fcb[f].r < Records(files[TheFile])
    BY <1>1, OneFile, InFileIffBelow
  <1>4. mem'[dmaAddr'] = IF fcb[f].r < Records(files[TheFile])
                           THEN files[TheFile].data[fcb[f].r] ELSE mem[dmaAddr]
    BY <1>3, OneFile DEF FetchRecord, TypeOK
  <1>5. Records(files[TheFile]) >= 0
    BY OneFile, InFileIffBelow, 0 \in Nat DEF Exists
  <1>6. TheRecordFile!ReadAt(f, fcb[f].r)
    BY <1>2, <1>4, <1>5, SeekStep DEF TheRecordFile!ReadAt
  <1> QED
    BY <1>1, <1>6 DEF TheRecordFile!Record, Record

LEMMA WriteRandStep ==
    ASSUME OneFileOnly, TypeOK, NEW f \in Fcb, Exists(Path(f)), StoreRecord(f, fcb[f].r),
           fcb' = [fcb EXCEPT ![f] = Seek(@, @.r, 0)], UNCHANGED <<mem, dmaAddr>>
    PROVE  \E record \in TheRecordFile!Record : TheRecordFile!WriteAt(f, record)
  <1>1. fcb[f].r \in Record
    BY OneFile, RecordRange
  <1>2. TheRecordFile!Stored(fcb[f].r, mem[dmaAddr])
    BY <1>1, StoreStep
  <1>3. Records(files[TheFile]) >= 0
    BY OneFile, InFileIffBelow, 0 \in Nat DEF Exists
  <1>4. TheRecordFile!WriteAt(f, fcb[f].r)
    BY <1>2, <1>3, SeekStep DEF TheRecordFile!WriteAt
  <1> QED
    BY <1>1, <1>4 DEF TheRecordFile!Record, Record

\* Open leaves cr and ex, and s2 without a module number.
LEMMA OpenStep ==
    ASSUME OneFileOnly, TypeOK, NEW f \in Fcb, Exists(Path(f)), NEW rc,
           fcb' = [fcb EXCEPT ![f] = [@ EXCEPT !.s2 = S2Flag, !.rc = rc]],
           UNCHANGED <<files, mem, dmaAddr>>
    PROVE  TheRecordFile!Reopen(f)
  <1> DEFINE G == [fcb[f] EXCEPT !.s2 = S2Flag, !.rc = rc]
             p == fcb[f].ex * BlkEX + fcb[f].cr
  <1>1. /\ fcb[f].cr \in 0..BlkEX /\ fcb[f].ex \in 0..MaxEX /\ fcb[f].s2 \in Int
        /\ G.cr = fcb[f].cr /\ G.ex = fcb[f].ex /\ G.s2 = S2Flag
    BY OneFile, Widths DEF FcbOf
  <1>2. p \in 0..BlkS2
    <2>1. fcb[f].ex * BlkEX \in Nat /\ fcb[f].ex * BlkEX <= MaxEX * BlkEX
      BY <1>1, Widths, ProductMonotone
    <2>2. MaxEX * BlkEX + BlkEX = BlkS2 /\ MaxEX * BlkEX \in Nat
      BY Widths DEF BlkS2
    <2> QED
      BY <1>1, <2>1, <2>2, Widths
  <1>3. Module(S2Flag) = 0
    BY FlagRange, Widths, 0 \in 0..MaxS2, 0 + S2Flag = S2Flag
  <1>4. SeqRecord(G) = p
    BY <1>1, <1>2, <1>3, Widths DEF SeqRecord
  <1>5. p % BlkS2 = SeqRecord(fcb[f]) % BlkS2
    <2>1. PICK m \in 0..MaxS2, b \in Nat \ {0} : m = Module(fcb[f].s2) /\ b = BlkS2
      BY <1>1, ModuleRange, Widths
    <2>2. PICK x \in Nat : x = p
      BY <1>2
    <2>3. SeqRecord(fcb[f]) = b * m + x
      BY <1>1, <2>1, <2>2, Widths DEF SeqRecord
    <2>4. (b * m + x) % b = x % b
      BY AddMultiple, m \in Int, x \in Int, Zenon
    <2> QED
      BY <2>1, <2>2, <2>3, <2>4
  <1> HIDE DEF G, p
  <1>6. fcb' = [fcb EXCEPT ![f] = G]
    BY DEF G
  <1>7. [h \in Fcb |-> SeqRecord(fcb'[h])] = [[h \in Fcb |-> SeqRecord(fcb[h])] EXCEPT ![f] = p]
    BY <1>4, <1>6, PosStep
  <1>8. Records(files[TheFile]) >= 0
    BY OneFile, InFileIffBelow, 0 \in Nat DEF Exists
  <1> QED
    BY <1>2, <1>5, <1>7, <1>8 DEF TheRecordFile!Reopen

\* The position of an FCB at its start.
LEMMA RewoundStart ==
    ASSUME NEW D, NEW N, NEW F \in FcbOf(D, N), NEW d, NEW n
    PROVE  /\ SeqRecord(Rewound(F)) = 0
           /\ SeqRecord([Rewound(F) EXCEPT !.dr = d, !.name = n]) = 0
  <1>1. ASSUME NEW G, G.cr = 0, G.ex = 0, G.s2 = 0
        PROVE  SeqRecord(G) = 0
    <2>1. Module(0) = 0
      BY FlagRange, Widths, 0 \in 0..MaxS2
    <2> QED
      BY <1>1, <2>1, Widths DEF SeqRecord
  <1>2. Rewound(F).cr = 0 /\ Rewound(F).ex = 0 /\ Rewound(F).s2 = 0
    BY DEF Rewound, FcbOf
  <1>3. [Rewound(F) EXCEPT !.dr = d, !.name = n].cr = 0
        /\ [Rewound(F) EXCEPT !.dr = d, !.name = n].ex = 0
        /\ [Rewound(F) EXCEPT !.dr = d, !.name = n].s2 = 0
    BY DEF Rewound, FcbOf
  <1> QED
    BY <1>1, <1>2, <1>3

LEMMA MakeStep ==
    ASSUME OneFileOnly, TypeOK, NEW f \in Fcb,
           files' = IF Exists(Path(f)) THEN files ELSE [files EXCEPT ![Path(f)] = NewFile],
           fcb' = [fcb EXCEPT ![f] = Rewound(@)], UNCHANGED <<mem, dmaAddr>>
    PROVE  TheRecordFile!Create(f)
  <1>1. [h \in Fcb |-> SeqRecord(fcb'[h])] = [[h \in Fcb |-> SeqRecord(fcb[h])] EXCEPT ![f] = 0]
    <2>1. SeqRecord(Rewound(fcb[f])) = 0
      BY OneFile, RewoundStart, Zenon
    <2> QED
      BY <2>1, PosStep
  <1>2. CASE Exists(Path(f))
    <2>1. Records(files[TheFile]) # -1
      BY <1>2, OneFile, InFileIffBelow, 0 \in Nat DEF Exists
    <2> QED
      BY <1>1, <1>2, <2>1 DEF TheRecordFile!Create
  <1>3. CASE ~Exists(Path(f))
    <2>1. Records(files[TheFile]) = -1
      BY <1>3, OneFile, InFileIffBelow, 0 \in Nat DEF Exists, HostFile
    <2>2. files'[TheFile] = NewFile
      BY <1>3, OneFile DEF TypeOK
    <2>3. NewFile.len = 0 * BlkSZ /\ NewFile.data = Blank
      BY SizeRange DEF NewFile
    <2>4. Records(NewFile) = 0
      BY <2>3, WholeRecords, 0 \in Nat
    <2> QED
      BY <1>1, <2>1, <2>2, <2>3, <2>4
      DEF TheRecordFile!Create, TheRecordFile!Blank, TheRecordFile!Record, Blank, Record
  <1> QED
    BY <1>2, <1>3

\* A call that changes r of one FCB only.
LEMMA RandomStep ==
    ASSUME OneFileOnly, TypeOK, NEW f \in Fcb, NEW record, fcb' = [fcb EXCEPT ![f].r = record],
           UNCHANGED <<files, mem, dmaAddr>>
    PROVE  UNCHANGED TheRecordFile!vars
  <1>1. ASSUME NEW g \in Fcb
        PROVE  SeqRecord(fcb'[g]) = SeqRecord(fcb[g])
    <2>1. fcb[g] \in FcbOf(DriveByte, Name)
      BY DEF TypeOK
    <2>2. fcb'[g].cr = fcb[g].cr /\ fcb'[g].ex = fcb[g].ex /\ fcb'[g].s2 = fcb[g].s2
      BY <2>1 DEF TypeOK, FcbOf
    <2> QED
      BY <2>2 DEF SeqRecord
  <1> QED
    BY <1>1, StutterStep

\* The close that cuts the file.
LEMMA CloseStep ==
    ASSUME OneFileOnly, TypeOK, NEW f \in Fcb, f = BatchFCB,
           files' = [files EXCEPT ![Path(f)] = Truncated(@, fcb[f].rc)],
           UNCHANGED <<fcb, mem, dmaAddr>>
    PROVE  \/ BatchFCB \in Fcb /\ \E n \in 0..MaxRC : TheRecordFile!Cut(n)
           \/ UNCHANGED TheRecordFile!vars
  <1>1. files'[TheFile] = Truncated(files[TheFile], fcb[f].rc)
    BY OneFile DEF TypeOK
  <1>2. fcb[f].rc \in 0..MaxRC /\ fcb[f].rc \in Nat
    BY OneFile, Widths DEF FcbOf
  <1>3. files[TheFile].len \in Int
    BY OneFile, SizeRange DEF HostFile
  <1>4. CASE files[TheFile].len < 0
    <2>1. files'[TheFile] = files[TheFile]
      BY <1>1, <1>4 DEF Truncated
    <2> QED
      BY <2>1 DEF TheRecordFile!vars
  <1>5. CASE files[TheFile].len >= 0
    <2>1. /\ files'[TheFile].len = fcb[f].rc * BlkSZ
          /\ files'[TheFile].data =
               [i \in Record |-> IF i < fcb[f].rc THEN files[TheFile].data[i] ELSE Zero]
      BY <1>1, <1>3, <1>5 DEF Truncated
    <2>2. Records(files'[TheFile]) = fcb[f].rc
      BY <1>2, <2>1, WholeRecords
    <2>3. Records(files[TheFile]) >= 0
      BY <1>5, OneFile, InFileIffBelow, 0 \in Nat
    <2>4. TheRecordFile!Cut(fcb[f].rc)
      BY <2>1, <2>2, <2>3 DEF TheRecordFile!Cut, TheRecordFile!Record, Record
    <2> QED
      BY <1>2, <2>4
  <1> QED
    BY <1>3, <1>4, <1>5

\* A delete removes the file or finds none.
LEMMA DeleteStep ==
    ASSUME OneFileOnly, TypeOK, NEW f \in Fcb,
           files' = [id \in FileId |-> IF id \in Matches(f) THEN NoFile ELSE files[id]],
           UNCHANGED <<fcb, mem, dmaAddr>>
    PROVE  TheRecordFile!Remove \/ UNCHANGED TheRecordFile!vars
  <1>1. CASE TheFile \in Matches(f)
    <2>1. files'[TheFile] = NoFile
      BY <1>1, OneFile
    <2>2. NoFile.len = -1 /\ NoFile.data = Blank
      BY DEF NoFile
    <2>3. Records(NoFile) = -1
      BY <2>2 DEF Records
    <2> QED
      BY <2>1, <2>2, <2>3
      DEF TheRecordFile!Remove, TheRecordFile!Blank, TheRecordFile!Record, Blank, Record
  <1>2. CASE TheFile \notin Matches(f)
    <2>1. files'[TheFile] = files[TheFile]
      BY <1>2, OneFile
    <2> QED
      BY <2>1 DEF TheRecordFile!vars
  <1> QED
    BY <1>1, <1>2

\* A call that fails to select, or is refused, leaves the file alone.
LEMMA ErrorStutter ==
    ASSUME NEW f \in Fcb, SelectError(f) \/ ReadOnlyError(f)
    PROVE  UNCHANGED TheRecordFile!vars
  <1>1. UNCHANGED <<files, fcb, mem, dmaAddr>>
    BY DEF SelectError, ReadOnlyError, hostVars, dataVars
  <1> QED
    BY <1>1 DEF TheRecordFile!vars

\* A call that selects its drive and changes nothing a record file has.
LEMMA IdleStutter ==
    ASSUME NEW f \in Fcb, NEW res, Selected(f, res), UNCHANGED <<files, fcb, mem>>
    PROVE  UNCHANGED TheRecordFile!vars
  BY DEF Selected, TheRecordFile!vars

LEMMA FileCallRefines ==
    ASSUME OneFileOnly, TypeOK, NEW f \in Fcb, FileCall(f)
    PROVE  [TheRecordFile!Next]_TheRecordFile!vars
  <1>1. CASE SelectError(f) \/ ReadOnlyError(f)
    BY <1>1, ErrorStutter
  <1>2. CASE (\E res : Selected(f, res)) /\ UNCHANGED <<files, fcb, mem>>
    BY <1>2, IdleStutter
  <1> DEFINE Done == \/ SelectError(f) \/ ReadOnlyError(f)
                     \/ (\E res : Selected(f, res)) /\ UNCHANGED <<files, fcb, mem>>
  <1>3. CASE OpenFile(f) /\ ~Done
    <2> DEFINE len == FileSize(files[Path(f)]) \div BlkSZ
               rc == IF len > MaxRC THEN MaxRC ELSE len
    <2>1. /\ Exists(Path(f)) /\ UNCHANGED <<files, mem, dmaAddr>>
          /\ fcb' = [fcb EXCEPT ![f] = [@ EXCEPT !.s2 = S2Flag, !.rc = rc]]
      BY <1>3 DEF OpenFile, Selected
    <2> HIDE DEF rc
    <2>2. TheRecordFile!Reopen(f)
      BY <2>1, OpenStep
    <2> QED
      BY <2>2 DEF TheRecordFile!Next
  <1>4. CASE CloseFile(f) /\ ~Done
    <2>1. /\ f = BatchFCB /\ files' = [files EXCEPT ![Path(f)] = Truncated(@, fcb[f].rc)]
          /\ UNCHANGED <<fcb, mem, dmaAddr>>
      BY <1>4 DEF CloseFile, Writable, Selected
    <2>2. \/ BatchFCB \in Fcb /\ \E n \in 0..MaxRC : TheRecordFile!Cut(n)
          \/ UNCHANGED TheRecordFile!vars
      BY <2>1, CloseStep
    <2> QED
      BY <2>2 DEF TheRecordFile!Next
  <1>5. CASE MakeFile(f) /\ ~Done
    <2>1. /\ files' = IF Exists(Path(f)) THEN files
                                         ELSE [files EXCEPT ![Path(f)] = NewFile]
          /\ fcb' = [fcb EXCEPT ![f] = Rewound(@)] /\ UNCHANGED <<mem, dmaAddr>>
      BY <1>5 DEF MakeFile, Writable, Selected
    <2>2. TheRecordFile!Create(f)
      BY <2>1, MakeStep
    <2> QED
      BY <2>2 DEF TheRecordFile!Next
  <1>6. CASE DeleteFile(f) /\ ~Done
    <2>1. /\ files' = [id \in FileId |-> IF id \in Matches(f) THEN NoFile ELSE files[id]]
          /\ UNCHANGED <<fcb, mem, dmaAddr>>
      BY <1>6 DEF DeleteFile, Writable, Selected
    <2>2. TheRecordFile!Remove \/ UNCHANGED TheRecordFile!vars
      BY <2>1, DeleteStep
    <2> QED
      BY <2>2 DEF TheRecordFile!Next
  <1>7. CASE (\E n \in Name, d \in DriveByte : RenameFile(f, n, d)) /\ ~Done
    <2>1. PICK n \in Name, d \in DriveByte : RenameFile(f, n, d)
      BY <1>7
    <2>2. NewPath(f, n, d) = TheFile /\ Path(f) = TheFile
      <3>1. NewPath(f, n, d) \in FileId
        BY TargetType DEF NewPath, FileId, TypeOK
      <3> QED
        BY <3>1, OneFile DEF OneFileOnly
    <2>3. UNCHANGED <<files, fcb, mem, dmaAddr>>
      BY <1>7, <2>1, <2>2 DEF RenameFile, Writable, Selected
    <2> QED
      BY <2>3, StutterStep
  <1>8. CASE ReadSeq(f) /\ ~Done
    <2>1. /\ Exists(Path(f)) /\ InFile(files[Path(f)], SeqRecord(fcb[f]))
          /\ FetchRecord(f, SeqRecord(fcb[f]))
          /\ fcb' = [fcb EXCEPT ![f] = Advance(@)] /\ UNCHANGED <<files, dmaAddr>>
      BY <1>8 DEF ReadSeq, Selected
    <2>2. TheRecordFile!ReadNext(f)
      BY <2>1, ReadSeqStep
    <2> QED
      BY <2>2 DEF TheRecordFile!Next
  <1>9. CASE WriteSeq(f) /\ ~Done
    <2>1. /\ Exists(Path(f)) /\ StoreRecord(f, SeqRecord(fcb[f]))
          /\ fcb' = [fcb EXCEPT ![f] = Advance(Touched(@))] /\ UNCHANGED <<mem, dmaAddr>>
      BY <1>9 DEF WriteSeq, Writable, Selected
    <2>2. TheRecordFile!WriteNext(f)
      BY <2>1, WriteSeqStep
    <2> QED
      BY <2>2 DEF TheRecordFile!Next
  <1>10. CASE ReadRand(f) /\ ~Done
    <2>1. /\ Exists(Path(f)) /\ FetchRecord(f, fcb[f].r)
          /\ fcb' = [fcb EXCEPT ![f] = Seek(@, @.r, FlagOf(@))] /\ UNCHANGED <<files, dmaAddr>>
      BY <1>10 DEF ReadRand, Selected
    <2>2. \E record \in TheRecordFile!Record : TheRecordFile!ReadAt(f, record)
      BY <2>1, ReadRandStep
    <2> QED
      BY <2>2 DEF TheRecordFile!Next
  <1>11. CASE WriteRand(f) /\ ~Done
    <2>1. /\ Exists(Path(f)) /\ StoreRecord(f, fcb[f].r)
          /\ fcb' = [fcb EXCEPT ![f] = Seek(@, @.r, 0)] /\ UNCHANGED <<mem, dmaAddr>>
      BY <1>11 DEF WriteRand, Writable, Selected
    <2>2. \E record \in TheRecordFile!Record : TheRecordFile!WriteAt(f, record)
      BY <2>1, WriteRandStep
    <2> QED
      BY <2>2 DEF TheRecordFile!Next
  <1>12. CASE GetFileSize(f) /\ ~Done
    <2>1. PICK record : fcb' = [fcb EXCEPT ![f].r = record]
      BY <1>12 DEF GetFileSize
    <2>2. UNCHANGED <<files, mem, dmaAddr>>
      BY <1>12 DEF GetFileSize, Selected
    <2> QED
      BY <2>1, <2>2, RandomStep
  <1>13. CASE SetRandom(f)
    <2>1. /\ fcb' = [fcb EXCEPT ![f].r = RandomRecord(fcb[f])]
          /\ UNCHANGED <<files, mem, dmaAddr>>
      BY <1>13 DEF SetRandom, hostVars
    <2> QED
      BY <2>1, RandomStep
  <1>14. CASE Done
    BY <1>1, <1>2, <1>14
  <1> HIDE DEF Done
  <1> QED
    BY <1>3, <1>4, <1>5, <1>6, <1>7, <1>8, <1>9, <1>10, <1>11, <1>12, <1>13, <1>14
    DEF FileCall

\* The transfer buffer is another one, or holds something else.
LEMMA BufferStep ==
    ASSUME UNCHANGED <<files, fcb>>, mem'[dmaAddr'] \in Value
    PROVE  [TheRecordFile!Next]_TheRecordFile!vars
  <1>1. TheRecordFile!Fill(mem'[dmaAddr'])
    BY DEF TheRecordFile!Fill
  <1> QED
    BY <1>1 DEF TheRecordFile!Next

LEMMA SystemCallRefines ==
    ASSUME OneFileOnly, TypeOK, SystemCall
    PROVE  [TheRecordFile!Next]_TheRecordFile!vars
  <1>1. CASE ResetDisks
    <2>1. UNCHANGED <<files, fcb, mem>> /\ dmaAddr' = DefDMA
      BY <1>1 DEF ResetDisks, hostVars
    <2>2. mem'[dmaAddr'] \in Value
      BY <2>1, FileAssumption DEF TypeOK
    <2> QED
      BY <2>1, <2>2, BufferStep
  <1>2. CASE WriteProtectDisk
    BY <1>2, StutterStep DEF WriteProtectDisk, hostVars, dataVars
  <1>3. CASE \E d \in Drive : SelectDisk(d)
    BY <1>3, StutterStep DEF SelectDisk, hostVars, dataVars
  <1>4. CASE \E a \in Buffer : SetDma(a)
    <2>1. PICK a \in Buffer : UNCHANGED <<files, fcb, mem>> /\ dmaAddr' = a
      BY <1>4 DEF SetDma, hostVars
    <2>2. mem'[dmaAddr'] \in Value
      BY <2>1 DEF TypeOK
    <2> QED
      BY <2>1, <2>2, BufferStep
  <1>5. CASE \E u \in User : SetUser(u)
    BY <1>5, StutterStep DEF SetUser, dataVars
  <1>6. CASE \E f \in Fcb : MakeDisk(f)
    BY <1>6, StutterStep DEF MakeDisk, dataVars
  <1> QED
    BY <1>1, <1>2, <1>3, <1>4, <1>5, <1>6 DEF SystemCall

LEMMA ProgramRefines ==
    ASSUME OneFileOnly, TypeOK, Program
    PROVE  [TheRecordFile!Next]_TheRecordFile!vars
  <1>1. CASE \E f \in Fcb, d \in DriveByte, n \in Name : PrepareFcb(f, d, n)
    <2>1. PICK f \in Fcb, d \in DriveByte, n \in Name :
             /\ fcb' = [fcb EXCEPT ![f] = [Rewound(@) EXCEPT !.dr = d, !.name = n]]
             /\ UNCHANGED <<files, mem, dmaAddr>>
      BY <1>1 DEF PrepareFcb, hostVars
    <2>2. SeqRecord([Rewound(fcb[f]) EXCEPT !.dr = d, !.name = n]) = 0
      BY OneFile, RewoundStart, Zenon
    <2>3. [h \in Fcb |-> SeqRecord(fcb'[h])] = [[h \in Fcb |-> SeqRecord(fcb[h])] EXCEPT ![f] = 0]
      BY <2>1, <2>2, PosStep
    <2>4. TheRecordFile!Rewind(f)
      BY <2>1, <2>3 DEF TheRecordFile!Rewind
    <2> QED
      BY <2>4 DEF TheRecordFile!Next
  <1>2. CASE \E f \in Fcb, record \in RandomArg : PokeRandom(f, record)
    BY <1>2, RandomStep DEF PokeRandom, hostVars
  <1>3. CASE \E v \in Value : FillBuffer(v)
    <2>1. PICK v \in Value : /\ mem' = [mem EXCEPT ![dmaAddr] = v]
                             /\ UNCHANGED <<files, fcb, dmaAddr>>
      BY <1>3 DEF FillBuffer, hostVars
    <2>2. mem'[dmaAddr'] \in Value
      BY <2>1 DEF TypeOK
    <2> QED
      BY <2>1, <2>2, BufferStep
  <1>4. CASE (\E s \in 1..3 : LeaveProgram(s)) \/ StoreDrive
    BY <1>4, StutterStep DEF LeaveProgram, StoreDrive, hostVars, dataVars
  <1> QED
    BY <1>1, <1>2, <1>3, <1>4 DEF Program

LEMMA NextRefines ==
    ASSUME OneFileOnly, TypeOK, [Next]_vars
    PROVE  [TheRecordFile!Next]_TheRecordFile!vars
  <1>1. CASE \E f \in Fcb : FileCall(f)
    BY <1>1, FileCallRefines
  <1>2. CASE SystemCall
    BY <1>2, SystemCallRefines
  <1>3. CASE Program
    BY <1>3, ProgramRefines
  <1>4. CASE WarmBoot \/ UNCHANGED vars
    BY <1>4, StutterStep DEF WarmBoot, vars, hostVars, dataVars
  <1> QED
    BY <1>1, <1>2, <1>3, <1>4 DEF Next

LEMMA InitRefines ==
    ASSUME OneFileOnly, Init
    PROVE  TheRecordFile!Init
  <1>1. TheFile \in FileId
    BY DEF OneFileOnly
  <1>2. \A f \in Fcb : SeqRecord(fcb[f]) = 0
    <2>1. ASSUME NEW G, G.cr = 0, G.ex = 0, G.s2 = 0
          PROVE  SeqRecord(G) = 0
      <3>1. Module(0) = 0
        BY FlagRange, Widths, 0 \in 0..MaxS2
      <3> QED
        BY <2>1, <3>1, Widths DEF SeqRecord
    <2>2. ASSUME NEW f \in Fcb
          PROVE  fcb[f].cr = 0 /\ fcb[f].ex = 0 /\ fcb[f].s2 = 0
      BY DEF Init, PowerOn, FreshFcb
    <2> QED
      BY <2>1, <2>2
  <1>3. mem[dmaAddr] \in Value
    BY FileAssumption DEF Init, PowerOn
  <1>4. /\ Records(files[TheFile]) \in -1..RandomSpan
        /\ files[TheFile].data \in [Record -> Value]
        /\ \A i \in Record : i >= Records(files[TheFile]) => files[TheFile].data[i] = Zero
    <2>1. CASE files[TheFile] = NoFile
      <3>1. files[TheFile].len = -1 /\ files[TheFile].data = Blank
        BY <2>1 DEF NoFile
      <3>2. Records(files[TheFile]) = -1
        BY <3>1 DEF Records
      <3> QED
        BY <3>1, <3>2, Widths, FileAssumption DEF Blank
    <2>2. CASE \E n \in InitLen : files[TheFile] = HostMade(n)
      <3>1. PICK n \in InitLen : files[TheFile] = HostMade(n)
        BY <2>2
      <3>2. files[TheFile] \in HostFile /\ files[TheFile].len = n /\ n \in Nat
            /\ n <= RandomSpan * BlkSZ
        BY <3>1, HostMadeType, FileAssumption, SizeRange DEF HostMade
      <3>3. ASSUME NEW i \in Nat
            PROVE  i * BlkSZ < n <=> i < Records(files[TheFile])
        BY <3>2, InFileIffBelow DEF InFile
      <3>4. Records(files[TheFile]) \in Nat
        BY <3>2, InFileIffBelow, 0 \in Nat
      <3>5. ~(RandomSpan * BlkSZ < n) /\ RandomSpan \in Nat
        BY <3>2, SizeRange, Widths
      <3>6. Records(files[TheFile]) <= RandomSpan
        BY <3>3, <3>4, <3>5
      <3>7. \A i \in Record : i >= Records(files[TheFile]) => files[TheFile].data[i] = Zero
        BY <3>1, <3>3, <3>4, Widths DEF HostMade, Record
      <3> QED
        BY <3>2, <3>4, <3>6, <3>7 DEF HostFile
    <2>3. files[TheFile] \in {NoFile} \cup {HostMade(n) : n \in InitLen}
      BY <1>1 DEF Init
    <2> QED
      BY <2>1, <2>2, <2>3
  <1> QED
    BY <1>2, <1>3, <1>4 DEF TheRecordFile!Init, TheRecordFile!Record, Record

\* The BDOS implements the record file, as long as there is one file: in every behaviour, each step moves one
\* record at the position the FCB's bytes stand for, makes, cuts or removes the
\* file, or leaves file, positions and buffer alone.
THEOREM RecordFileImplemented ==
    ASSUME OneFileOnly
    PROVE  Spec => ImplementsRecordFile
  <1>1. Init => TheRecordFile!Init
    BY InitRefines
  <1>2. TypeOK /\ [Next]_vars => [TheRecordFile!Next]_TheRecordFile!vars
    BY NextRefines
  <1> QED
    BY <1>1, <1>2, TypeCorrect, PTL DEF Spec, ImplementsRecordFile, TheRecordFile!Spec
=============================================================================
