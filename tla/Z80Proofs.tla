------------------------------ MODULE Z80Proofs ------------------------------
(***************************************************************************)
(* What ImplementsZ80 rests on, for every operand and for registers that   *)
(* have run any distance out of their 16 bits: the flags the code reads    *)
(* off the carries of a sum, and one theorem for each group of             *)
(* instructions, that the code's step is the step of Z80Arch.              *)
(***************************************************************************)
EXTENDS Z80Refinement, TLAPS, WellFoundedInduction

\* Cbits keeps the three bits of a ^ b ^ s it is made of.
LEMMA CbitsBits ==
    ASSUME NEW a \in Int, NEW b \in Int, NEW s \in Int
    PROVE  \A w \in {16, 128, 256} :
              Bit(Cbits(a, b, s), w) <=> ((Bit(a, w) # Bit(b, w)) # Bit(s, w))
<1> DEFINE odd(w) == (Bit(a, w) # Bit(b, w)) # Bit(s, w)
           v(w) == IF odd(w) THEN w ELSE 0
<1>1. Cbits(a, b, s) = v(256) + v(128) + v(16)
  BY DEF Cbits
<1>2. /\ v(256) = IF odd(256) THEN 256 ELSE 0
      /\ v(128) = IF odd(128) THEN 128 ELSE 0
      /\ v(16) = IF odd(16) THEN 16 ELSE 0
  OBVIOUS
<1> HIDE DEF odd, v
<1>3. /\ Bit(v(256) + v(128) + v(16), 16) <=> odd(16)
      /\ Bit(v(256) + v(128) + v(16), 128) <=> odd(128)
      /\ Bit(v(256) + v(128) + v(16), 256) <=> odd(256)
  BY <1>2, SMTT(30) DEF Bit
<1> QED  BY <1>1, <1>3 DEF odd

-----------------------------------------------------------------------------
(* The carries of a + b + c and of a - b - c.                              *)

\* Bit 4 of a ^ b ^ (a + b + c): a carry out of the low digit.
LEMMA SumBit16 ==
    ASSUME NEW a \in Byte, NEW b \in Byte, NEW c \in {0, 1}
    PROVE  ((Bit(a, 16) # Bit(b, 16)) # Bit(a + b + c, 16))
             <=> (a % 16) + (b % 16) + c > 15
<1> DEFINE p == (a \div 16) % 2
           q == (b \div 16) % 2
           r == ((a + b + c) \div 16) % 2
<1>1. p \in {0, 1} /\ q \in {0, 1} /\ r \in {0, 1}
  BY SMTT(30) DEF Byte
<1>2. (p + q + r) % 2 = 1 <=> (a % 16) + (b % 16) + c > 15
  BY SMTT(60) DEF Byte
<1>3. ((p = 1) # (q = 1)) # (r = 1) <=> (p + q + r) % 2 = 1
  BY <1>1, SMT
<1> QED  BY <1>2, <1>3 DEF Bit

\* Bit 8: a carry out of the byte.
LEMMA SumBit256 ==
    ASSUME NEW a \in Byte, NEW b \in Byte, NEW c \in {0, 1}
    PROVE  ((Bit(a, 256) # Bit(b, 256)) # Bit(a + b + c, 256)) <=> a + b + c > 255
<1>1. (a \div 256) % 2 = 0 /\ (b \div 256) % 2 = 0
  BY SMTT(30) DEF Byte
<1>2. ((a + b + c) \div 256) % 2 = 1 <=> a + b + c > 255
  BY SMTT(60) DEF Byte
<1> QED  BY <1>1, <1>2, SMT DEF Bit

\* Bits 7 and 8 differ: the signed sum is out of range.
LEMMA SumBit128 ==
    ASSUME NEW a \in Byte, NEW b \in Byte, NEW c \in {0, 1}
    PROVE  (((Bit(a, 128) # Bit(b, 128)) # Bit(a + b + c, 128)) # (a + b + c > 255))
             <=> Arch!Signed(a) + Arch!Signed(b) + c \notin -128 .. 127
<1> DEFINE p == (a \div 128) % 2
           q == (b \div 128) % 2
           r == ((a + b + c) \div 128) % 2
<1>1. p \in {0, 1} /\ q \in {0, 1} /\ r \in {0, 1}
  BY SMTT(30) DEF Byte
<1>2. ((p + q + r) % 2 = 1) # (a + b + c > 255)
         <=> Arch!Signed(a) + Arch!Signed(b) + c \notin -128 .. 127
  BY SMTT(60) DEF Byte, Arch!Signed
<1>3. ((p = 1) # (q = 1)) # (r = 1) <=> (p + q + r) % 2 = 1
  BY <1>1, SMT
<1> QED  BY <1>2, <1>3 DEF Bit

\* Bit 4 of a ^ b ^ (a - b - c): the low digit borrowed.
LEMMA DifferenceBit16 ==
    ASSUME NEW a \in Byte, NEW b \in Byte, NEW c \in {0, 1}
    PROVE  ((Bit(a, 16) # Bit(b, 16)) # Bit(a - b - c, 16))
             <=> (a % 16) - (b % 16) - c < 0
<1> DEFINE p == (a \div 16) % 2
           q == (b \div 16) % 2
           r == ((a - b - c) \div 16) % 2
<1>1. p \in {0, 1} /\ q \in {0, 1} /\ r \in {0, 1}
  BY SMTT(30) DEF Byte
<1>2. (p + q + r) % 2 = 1 <=> (a % 16) - (b % 16) - c < 0
  BY SMTT(60) DEF Byte
<1>3. ((p = 1) # (q = 1)) # (r = 1) <=> (p + q + r) % 2 = 1
  BY <1>1, SMT
<1> QED  BY <1>2, <1>3 DEF Bit

\* Bit 8: the byte borrowed.
LEMMA DifferenceBit256 ==
    ASSUME NEW a \in Byte, NEW b \in Byte, NEW c \in {0, 1}
    PROVE  ((Bit(a, 256) # Bit(b, 256)) # Bit(a - b - c, 256)) <=> a - b - c < 0
<1>1. (a \div 256) % 2 = 0 /\ (b \div 256) % 2 = 0
  BY SMTT(30) DEF Byte
<1>2. ((a - b - c) \div 256) % 2 = 1 <=> a - b - c < 0
  BY SMTT(60) DEF Byte
<1> QED  BY <1>1, <1>2, SMT DEF Bit

\* Bits 7 and 8 differ: the signed difference is out of range.
LEMMA DifferenceBit128 ==
    ASSUME NEW a \in Byte, NEW b \in Byte, NEW c \in {0, 1}
    PROVE  (((Bit(a, 128) # Bit(b, 128)) # Bit(a - b - c, 128)) # (a - b - c < 0))
             <=> Arch!Signed(a) - Arch!Signed(b) - c \notin -128 .. 127
<1> DEFINE p == (a \div 128) % 2
           q == (b \div 128) % 2
           r == ((a - b - c) \div 128) % 2
<1>1. p \in {0, 1} /\ q \in {0, 1} /\ r \in {0, 1}
  BY SMTT(30) DEF Byte
<1>2. ((p + q + r) % 2 = 1) # (a - b - c < 0)
         <=> Arch!Signed(a) - Arch!Signed(b) - c \notin -128 .. 127
  BY SMTT(60) DEF Byte, Arch!Signed
<1>3. ((p = 1) # (q = 1)) # (r = 1) <=> (p + q + r) % 2 = 1
  BY <1>1, SMT
<1> QED  BY <1>2, <1>3 DEF Bit

-----------------------------------------------------------------------------
(* The flags of an addition and of a subtraction.                          *)

\* S and Z, as the tables hold them, are those of the byte.
LEMMA SignAndZero ==
    ASSUME NEW s \in Int
    PROVE  SZYX(s) = YX(s) \cup Arch!SZ(s % 256)
<1>1. s % 256 \in 0 .. 255
  BY SMT
<1>2. Bit(s, 128) <=> s % 256 > 127
  BY SMTT(30) DEF Bit
<1>3. When("S", Bit(s, 128)) = Arch!Set(s % 256 > 127, "S")
  BY <1>2 DEF When, Arch!Set
<1>4. When("Z", s % 256 = 0) = Arch!Set(s % 256 = 0, "Z")
  BY DEF When, Arch!Set
<1> QED  BY <1>3, <1>4 DEF SZYX, SYX, Arch!SZ

\* YF and XF are the undocumented flags.
LEMMA UndocumentedApart ==
    ASSUME NEW i \in Int
    PROVE  YX(i) \cap Arch!Documented = {}
  BY DEF YX, When, Arch!Documented

\* # between truth values goes through <=>.
LEMMA BitsDiffer ==
    ASSUME NEW p \in BOOLEAN, NEW q \in BOOLEAN,
           NEW u \in BOOLEAN, NEW w \in BOOLEAN,
           p <=> u, q <=> w
    PROVE  (p # q) <=> (w # u)
  OBVIOUS

\* ADD and ADC of every two bytes and carry: the byte, and the flags that are
\* documented, which the code reads off the carries of the sum (cpu.h, 0x80 to
\* 0x8f and their prefixed forms), are those the Z80 defines by arithmetic.
THEOREM AddCorrect ==
    ASSUME NEW a \in Byte, NEW b \in Byte, NEW c \in {0, 1}
    PROVE  /\ Add8(a, b, c).acu = Arch!Sum(a, b, c).v
           /\ Add8(a, b, c).f \cap Arch!Documented = Arch!Sum(a, b, c).fl
<1> DEFINE s == a + b + c
           cb == Cbits(a, b, s)
           flags == SZYX(s) \cup (cbitsTable(cb) \cup SET_PV(cb))
           odd128 == (Bit(a, 128) # Bit(b, 128)) # Bit(s, 128)
           over == Arch!Signed(a) + Arch!Signed(b) + c \notin -128 .. 127
<1>0. s \in Int /\ a \in Int /\ b \in Int
  BY DEF Byte
<1>1. Bit(cb, 16) <=> (a % 16) + (b % 16) + c > 15
  BY <1>0, CbitsBits, SumBit16, SMTT(60)
<1>2. Bit(cb, 256) <=> s > 255
  BY <1>0, CbitsBits, SumBit256
<1>3. Bit(cb, 128) <=> odd128
  BY <1>0, CbitsBits
<1>4. (odd128 # (s > 255)) <=> over
  BY SumBit128
<1>5. (Bit(cb, 256) # Bit(cb, 128)) <=> over
  BY <1>2, <1>3, <1>4, BitsDiffer DEF Bit
<1>6. flags = YX(s) \cup Arch!Sum(a, b, c).fl
  BY <1>0, <1>1, <1>2, <1>5, SignAndZero
     DEF cbitsTable, SET_PV, When, Arch!Sum, Arch!Of, Arch!Set
<1>7. Arch!Sum(a, b, c).fl \subseteq Arch!Documented
  BY DEF Arch!Sum, Arch!Of, Arch!SZ, Arch!Set, Arch!Documented
<1>8. flags \cap Arch!Documented = Arch!Sum(a, b, c).fl
  BY <1>0, <1>6, <1>7, UndocumentedApart
<1>9. Add8(a, b, c) = [acu |-> s % 256, f |-> flags]
  BY DEF Add8, With, addTable, Result
<1>10. Arch!Sum(a, b, c).v = s % 256
  BY DEF Arch!Sum, Arch!Of
<1> QED  BY <1>8, <1>9, <1>10

\* SUB and SBC of every two bytes and carry (cpu.h, 0x90 to 0x9f and their
\* prefixed forms): the byte and the documented flags are those of the Z80.
THEOREM SubCorrect ==
    ASSUME NEW a \in Byte, NEW b \in Byte, NEW c \in {0, 1}
    PROVE  /\ Sub8(a, b, c).acu = Arch!Difference(a, b, c).v
           /\ Sub8(a, b, c).f \cap Arch!Documented = Arch!Difference(a, b, c).fl
<1> DEFINE s == a - b - c
           cb == Cbits(a, b, s)
           flags == (SZYX(s % 256) \cup {"N"}) \cup (cbitsTable(cb) \cup SET_PV(cb))
           odd128 == (Bit(a, 128) # Bit(b, 128)) # Bit(s, 128)
           over == Arch!Signed(a) - Arch!Signed(b) - c \notin -128 .. 127
<1>0. /\ s \in Int /\ a \in Int /\ b \in Int
      /\ s % 256 \in Int /\ (s % 256) % 256 = s % 256
  BY DEF Byte
<1>1. Bit(cb, 16) <=> (a % 16) - (b % 16) - c < 0
  BY <1>0, CbitsBits, DifferenceBit16
<1>2. Bit(cb, 256) <=> s < 0
  BY <1>0, CbitsBits, DifferenceBit256
<1>3. Bit(cb, 128) <=> odd128
  BY <1>0, CbitsBits
<1>4. (odd128 # (s < 0)) <=> over
  BY DifferenceBit128, ZenonT(60)
<1>5. (Bit(cb, 256) # Bit(cb, 128)) <=> over
  BY <1>2, <1>3, <1>4, BitsDiffer DEF Bit
<1>6. flags = YX(s % 256) \cup Arch!Difference(a, b, c).fl
  BY <1>0, <1>1, <1>2, <1>5, SignAndZero
     DEF cbitsTable, SET_PV, When, Arch!Difference, Arch!Of, Arch!Set
<1>7. Arch!Difference(a, b, c).fl \subseteq Arch!Documented
  BY DEF Arch!Difference, Arch!Of, Arch!SZ, Arch!Set, Arch!Documented
<1>8. flags \cap Arch!Documented = Arch!Difference(a, b, c).fl
  BY <1>0, <1>6, <1>7, UndocumentedApart
<1>9. Sub8(a, b, c) = [acu |-> (s % 256) % 256, f |-> flags]
  BY DEF Sub8, With, subTable, Result
<1>10. Arch!Difference(a, b, c).v = s % 256
  BY DEF Arch!Difference, Arch!Of
<1> QED  BY <1>0, <1>8, <1>9, <1>10

-----------------------------------------------------------------------------
(* Pairs that are masked late.                                             *)

\* Counting in the high byte of an int counts modulo 256 and leaves the low
\* byte alone, whatever has run out above.
LEMMA LateHigh ==
    ASSUME NEW x \in Int, NEW k \in Int
    PROVE  /\ HIGH_REGISTER(x + 256 * k) = (HIGH_REGISTER(x) + k) % 256
           /\ LOW_REGISTER(x + 256 * k) = LOW_REGISTER(x)
  BY SMTT(60) DEF HIGH_REGISTER, LOW_REGISTER

\* Counting in an int counts modulo 65536.
LEMMA LateWord ==
    ASSUME NEW x \in Int, NEW k \in Int
    PROVE  ADDRMASK(x + k) = Arch!Word(ADDRMASK(x) + k)
  BY SMTT(60) DEF ADDRMASK, Arch!Word

\* The word of an int is its two bytes.
LEMMA WordOfHalves ==
    ASSUME NEW x \in Int
    PROVE  /\ ADDRMASK(x) = 256 * HIGH_REGISTER(x) + LOW_REGISTER(x)
           /\ HIGH_REGISTER(x) = ADDRMASK(x) \div 256
           /\ LOW_REGISTER(x) = ADDRMASK(x) % 256
           /\ HIGH_REGISTER(x) \in 0 .. 255
           /\ LOW_REGISTER(x) \in 0 .. 255
  BY SMTT(60) DEF ADDRMASK, HIGH_REGISTER, LOW_REGISTER

-----------------------------------------------------------------------------
(* The instruction is the same on both levels.                             *)

\* An instruction's length is a number.
LEMMA LengthInt == Length(ins) \in Int
  BY DEF Length, Prefix, Displacement, Immediate

\* Both levels decode the same bytes the same way.
LEMMA SameInstruction ==
    Arch!ins = ins /\ Arch!Length(Arch!ins) = Length(ins)
  BY DEF Arch!ins, ins, Length, Prefix, Displacement, Immediate, IndexRegs,
         EdOps, InBlockOps, OutBlockOps, ShiftOps, BitOps, Arch!Length, Arch!Prefix, Arch!Displacement,
         Arch!Immediate, Arch!IndexRegs, Arch!EdOps, Arch!InBlockOps,
         Arch!OutBlockOps, Arch!ShiftOps, Arch!BitOps

\* int8(x) is the Z80's signed displacement.
LEMMA Int8Signed ==
    ASSUME NEW b \in Byte
    PROVE  Int8(b) = Arch!Signed(b) /\ Int8(b) \in Int
  BY DEF Int8, Arch!Signed, Byte

\* DJNZ, which counts B down inside BC and tests it through a mask (cpu.h,
\* 0x10), loops as the Z80 does from any int in BC and in PC.
THEOREM DjnzCorrect ==
    ASSUME reg \in [Pairs -> Int], ins.op = "DJNZ", ins.d \in Byte, DecrementJump
    PROVE  Arch!Loop
<1> DEFINE b == (Contents(reg, "B") - 1) % 256
           next == Arch!Word(ADDRMASK(reg["PC"]) + Length(ins))
<1>1. /\ reg["BC"] \in Int /\ reg["PC"] \in Int
      /\ DOMAIN reg = Pairs
  BY DEF Pairs, RegPairs
<1>2. /\ HIGH_REGISTER(reg["BC"] - 256) = b
      /\ LOW_REGISTER(reg["BC"] - 256) = LOW_REGISTER(reg["BC"])
  <2>1. reg["BC"] - 256 = reg["BC"] + 256 * (-1)
    BY <1>1
  <2>2. HIGH_REGISTER(reg["BC"]) - 1 = HIGH_REGISTER(reg["BC"]) + (-1)
    BY <1>1 DEF HIGH_REGISTER
  <2> QED  BY <1>1, <2>1, <2>2, LateHigh DEF Contents, PairOf, HighRegs
<1>3. /\ reg'["BC"] = reg["BC"] - 256
      /\ \A p \in Pairs \ {"BC", "PC"} : reg'[p] = reg[p]
      /\ UNCHANGED <<RAM, alt, IR, IFF>>
  <2>1. PICK v : reg' = [Fetched EXCEPT !["BC"] = reg["BC"] - 256, !["PC"] = v]
    BY <1>1 DEF DecrementJump, Registers, Fetched, Pairs, RegPairs
  <2> QED  BY <1>1, <2>1
           DEF DecrementJump, Registers, Fetched, NoOthers, Pairs, RegPairs
<1>4. reg'["PC"] = reg["PC"] + Length(ins) + (IF b # 0 THEN Int8(ins.d) ELSE 0)
  BY <1>1, <1>2 DEF DecrementJump, Registers, Fetched, Pairs
<1>5. ADDRMASK(reg'["PC"])
        = IF b # 0 THEN Arch!Word(next + Arch!Signed(ins.d)) ELSE next
  <2>1. /\ Length(ins) \in Int /\ reg["PC"] + Length(ins) \in Int
        /\ Int8(ins.d) = Arch!Signed(ins.d) /\ Int8(ins.d) \in Int
    BY <1>1, LengthInt, Int8Signed
  <2>2. ADDRMASK(reg["PC"] + Length(ins)) = next
    BY <1>1, <2>1, LateWord
  <2>3. ADDRMASK((reg["PC"] + Length(ins)) + Int8(ins.d))
          = Arch!Word(ADDRMASK(reg["PC"] + Length(ins)) + Int8(ins.d))
    BY <2>1, LateWord
  <2> QED  BY <1>4, <2>1, <2>2, <2>3
<1>6. [z \in Regs |-> Contents(reg, z)]'
        = [[z \in Regs |-> Contents(reg, z)] EXCEPT !["B"] = b]
  <2>1. \A z \in Regs \ {"B", "C"} : PairOf(z) \in Pairs \ {"BC", "PC"}
    BY DEF Regs, MainRegs, IndexRegs, PairOf, Pairs, RegPairs
  <2>2. \A z \in Regs \ {"B", "C"} : Contents(reg', z) = Contents(reg, z)
    BY <1>3, <2>1 DEF Contents
  <2>3. Contents(reg', "B") = b /\ Contents(reg', "C") = Contents(reg, "C")
    BY <1>2, <1>3 DEF Contents, PairOf, HighRegs
  <2> QED  BY <2>2, <2>3 DEF Regs, MainRegs
<1>7. F' = F /\ ADDRMASK(reg'["SP"]) = ADDRMASK(reg["SP"])
  BY <1>3 DEF F, Pairs, RegPairs
<1>8. [z \in Regs |-> Contents(reg, z)]["B"] = Contents(reg, "B")
  BY DEF Regs, MainRegs
<1>9. Arch!Go(IF b # 0 THEN Arch!Word(next + Arch!Signed(ins.d)) ELSE next)
  BY <1>3, <1>5 DEF Arch!Go, Arch!Alternate
<1>10. /\ UNCHANGED <<RAM, ADDRMASK(reg["SP"])>>
       /\ Arch!KeepFlags /\ Arch!Special
  BY <1>3, <1>7 DEF Arch!KeepFlags, Arch!Special
<1> QED  BY <1>6, <1>8, <1>9, <1>10, SameInstruction DEF Arch!Loop

-----------------------------------------------------------------------------
(* Words that go to memory.                                                *)

\* The F byte is its flags, all eight of them.
LEMMA FlagByteOfFlags ==
    ASSUME NEW b \in 0 .. 255
    PROVE  FlagByte(FlagsIn(b)) = b
<1> DEFINE d(w) == (b \div w) % 2
           v(flag, w) == IF flag \in FlagsIn(b) THEN w ELSE 0
<1>1. /\ "S" \in FlagsIn(b) <=> d(128) = 1
      /\ "Z" \in FlagsIn(b) <=> d(64) = 1
      /\ "Y" \in FlagsIn(b) <=> d(32) = 1
      /\ "H" \in FlagsIn(b) <=> d(16) = 1
      /\ "X" \in FlagsIn(b) <=> d(8) = 1
      /\ "P" \in FlagsIn(b) <=> d(4) = 1
      /\ "N" \in FlagsIn(b) <=> d(2) = 1
      /\ "C" \in FlagsIn(b) <=> d(1) = 1
  BY DEF FlagsIn, When, Bit
<1>2. /\ d(128) \in {0, 1} /\ d(64) \in {0, 1}
      /\ d(32) \in {0, 1} /\ d(16) \in {0, 1}
      /\ d(8) \in {0, 1} /\ d(4) \in {0, 1}
      /\ d(2) \in {0, 1} /\ d(1) \in {0, 1}
  BY SMTT(30)
<1>3. b = 128 * d(128) + 64 * d(64) + 32 * d(32) + 16 * d(16)
            + 8 * d(8) + 4 * d(4) + 2 * d(2) + d(1)
  BY SMTT(60)
<1>4. FlagByte(FlagsIn(b)) = v("S", 128) + v("Z", 64) + v("Y", 32) + v("H", 16)
                               + v("X", 8) + v("P", 4) + v("N", 2) + v("C", 1)
  BY DEF FlagByte
<1> HIDE DEF d
<1>5. /\ v("S", 128) = 128 * d(128) /\ v("Z", 64) = 64 * d(64)
      /\ v("Y", 32) = 32 * d(32) /\ v("H", 16) = 16 * d(16)
      /\ v("X", 8) = 8 * d(8) /\ v("P", 4) = 4 * d(4)
      /\ v("N", 2) = 2 * d(2) /\ v("C", 1) = d(1)
  BY <1>1, <1>2, SMT
<1> HIDE DEF v
<1> QED  BY <1>2, <1>3, <1>4, <1>5, SMT

\* A pair other than AF is a high and a low register of the processor.
LEMMA HalvesOfPair ==
    ASSUME NEW p \in RegPairs \ {"AF"}
    PROVE  /\ Arch!Halves(p)[1] \in Regs \cap HighRegs
           /\ PairOf(Arch!Halves(p)[1]) = p
           /\ Arch!Halves(p)[2] \in Regs \ HighRegs
           /\ PairOf(Arch!Halves(p)[2]) = p
           /\ \A z \in Regs : PairOf(z) = p =>
                                z \in {Arch!Halves(p)[1], Arch!Halves(p)[2]}
<1>0. p \in {"BC", "DE", "HL", "IX", "IY"}
  BY DEF RegPairs
<1>1. CASE p = "BC"
  BY <1>1 DEF Arch!Halves, PairOf, HighRegs, Regs, MainRegs, IndexRegs
<1>2. CASE p = "DE"
  BY <1>2 DEF Arch!Halves, PairOf, HighRegs, Regs, MainRegs, IndexRegs
<1>3. CASE p = "HL"
  BY <1>3 DEF Arch!Halves, PairOf, HighRegs, Regs, MainRegs, IndexRegs
<1>4. CASE p = "IX"
  BY <1>4 DEF Arch!Halves, PairOf, HighRegs, Regs, MainRegs, IndexRegs
<1>5. CASE p = "IY"
  BY <1>5 DEF Arch!Halves, PairOf, HighRegs, Regs, MainRegs, IndexRegs
<1> QED  BY <1>0, <1>1, <1>2, <1>3, <1>4, <1>5

\* A pair of the processor is the masked pair of the code.
LEMMA PairWord ==
    ASSUME reg \in [Pairs -> Int], NEW p \in RegPairs
    PROVE  Arch!Pair(p) = ADDRMASK(reg[p])
<1>1. \A q \in RegPairs : reg[q] \in Int
  BY DEF Pairs
<1>2. \A q \in RegPairs :
        /\ ADDRMASK(reg[q]) = 256 * HIGH_REGISTER(reg[q]) + LOW_REGISTER(reg[q])
        /\ LOW_REGISTER(reg[q]) \in 0 .. 255
  BY <1>1, WordOfHalves
<1>3. CASE p = "AF"
  <2>1. Arch!FByte = FlagByte(F)
    BY DEF Arch!FByte, FlagByte
  <2>2. Arch!FByte = LOW_REGISTER(reg["AF"])
    BY <1>2, <1>3, <2>1, FlagByteOfFlags DEF F
  <2> QED
    BY <1>2, <1>3, <2>2 DEF Arch!Pair, Contents, PairOf, HighRegs, Regs, MainRegs
<1>4. CASE p # "AF"
  <2> DEFINE h == Arch!Halves(p)[1]
             l == Arch!Halves(p)[2]
  <2>1. Arch!Pair(p) = 256 * [z \in Regs |-> Contents(reg, z)][h]
                         + [z \in Regs |-> Contents(reg, z)][l]
    BY <1>4 DEF Arch!Pair, RegPairs
  <2>2. /\ h \in Regs \cap HighRegs /\ PairOf(h) = p
        /\ l \in Regs \ HighRegs /\ PairOf(l) = p
    BY <1>4, HalvesOfPair
  <2> HIDE DEF h, l
  <2> QED  BY <1>2, <2>1, <2>2 DEF Contents
<1> QED  BY <1>3, <1>4

\* PUSH (cpu.h, PUSH and 0xc5 to 0xf5): from any int in SP and in the pair,
\* both bytes go where the Z80 puts them, around the end of memory too.
THEOREM PushCorrect ==
    ASSUME reg \in [Pairs -> Int], ins.op = "PUSH", ins.x \in RegPairs, Push
    PROVE  Arch!Push
<1> DEFINE sp == reg["SP"]
           w == ADDRMASK(reg[ins.x])
<1>1. /\ sp \in Int /\ reg["PC"] \in Int /\ reg[ins.x] \in Int /\ DOMAIN reg = Pairs
  BY DEF Pairs, RegPairs
<1>2. /\ ADDRMASK(sp - 2) = Arch!Word(ADDRMASK(sp) - 2)
      /\ ADDRMASK(sp - 1) = Arch!Word(Arch!Word(ADDRMASK(sp) - 2) + 1)
      /\ ADDRMASK(sp - 1) # ADDRMASK(sp - 2)
  BY <1>1, SMTT(60) DEF ADDRMASK, Arch!Word
<1>3. Arch!Pair(ins.x) = w /\ HIGH_REGISTER(reg[ins.x]) = w \div 256
        /\ LOW_REGISTER(reg[ins.x]) = w % 256
  BY <1>1, PairWord, WordOfHalves
<1>4. RAM' = Arch!WordPut(Arch!Word(ADDRMASK(sp) - 2), w)
  <2>1. RAM' = [RAM EXCEPT ![ADDRMASK(sp - 1)] = w \div 256,
                           ![ADDRMASK(sp - 2)] = w % 256]
    BY <1>3 DEF Push, Pushed
  <2>2. Arch!WordPut(Arch!Word(ADDRMASK(sp) - 2), w)
          = [RAM EXCEPT ![ADDRMASK(sp - 2)] = w % 256,
                        ![ADDRMASK(sp - 1)] = w \div 256]
    BY <1>2 DEF Arch!WordPut
  <2> QED  BY <1>2, <2>1, <2>2, ZenonT(60)
<1>5. /\ reg'["SP"] = sp - 2 /\ reg'["PC"] = reg["PC"] + Length(ins)
      /\ \A p \in Pairs \ {"SP", "PC"} : reg'[p] = reg[p]
      /\ UNCHANGED <<alt, IR, IFF>>
  BY <1>1 DEF Push, Fetched, NoOthers, Pairs
<1>6. ADDRMASK(reg'["SP"]) = Arch!Word(ADDRMASK(sp) - 2)
  BY <1>2, <1>5
<1>7. ADDRMASK(reg'["PC"]) = Arch!Word(ADDRMASK(reg["PC"]) + Length(ins))
  BY <1>1, <1>5, LengthInt, LateWord
<1>8. UNCHANGED [z \in Regs |-> Contents(reg, z)] /\ F' = F
  <2>1. \A z \in Regs : PairOf(z) \in Pairs \ {"SP", "PC"}
    BY DEF Regs, MainRegs, IndexRegs, PairOf, Pairs, RegPairs
  <2>2. \A z \in Regs : Contents(reg', z) = Contents(reg, z)
    BY <1>5, <2>1 DEF Contents
  <2> QED  BY <1>5, <2>2 DEF F, Pairs, RegPairs
<1>9. Arch!KeepFlags /\ Arch!Rest
  BY <1>5, <1>7, <1>8, SameInstruction
     DEF Arch!KeepFlags, Arch!Rest, Arch!Advance, Arch!Alternate, Arch!Special
<1> QED  BY <1>3, <1>4, <1>6, <1>8, <1>9, SameInstruction DEF Arch!Push

\* Changing one pair of the code changes that pair of the processor.
LEMMA PairPut ==
    ASSUME NEW g \in [Pairs -> Int], NEW g2 \in [Pairs -> Int],
           NEW p \in RegPairs \ {"AF"},
           \A q \in RegPairs \ {p} : g2[q] = g[q]
    PROVE  [z \in Regs |-> Contents(g2, z)]
             = Arch!InPair([z \in Regs |-> Contents(g, z)], p, ADDRMASK(g2[p]))
<1> DEFINE h == Arch!Halves(p)[1]
           l == Arch!Halves(p)[2]
           w == ADDRMASK(g2[p])
           r == [z \in Regs |-> Contents(g, z)]
<1>1. /\ h \in Regs \cap HighRegs /\ PairOf(h) = p
      /\ l \in Regs \ HighRegs /\ PairOf(l) = p
      /\ \A z \in Regs : PairOf(z) = p => z \in {h, l}
  BY HalvesOfPair
<1>2. \A z \in Regs : PairOf(z) \in RegPairs
  BY DEF Regs, MainRegs, IndexRegs, PairOf, RegPairs
<1>3. g2[p] \in Int
  BY DEF Pairs
<1>4. HIGH_REGISTER(g2[p]) = w \div 256 /\ LOW_REGISTER(g2[p]) = w % 256
  BY <1>3, WordOfHalves
<1>5. Arch!InPair(r, p, w) = [r EXCEPT ![h] = w \div 256, ![l] = w % 256]
  BY DEF Arch!InPair
<1> HIDE DEF h, l
<1>6. Contents(g2, h) = w \div 256 /\ Contents(g2, l) = w % 256 /\ h # l
  BY <1>1, <1>4 DEF Contents
<1>7. \A z \in Regs \ {h, l} : Contents(g2, z) = Contents(g, z)
  BY <1>1, <1>2 DEF Contents
<1> QED  BY <1>1, <1>5, <1>6, <1>7

\* INC and DEC of a pair (cpu.h, 0x03 to 0x3b) step an int that is never
\* masked: the word read from it is that of the Z80, and no flag changes.
THEOREM Count16Correct ==
    ASSUME reg \in [Pairs -> Int], ins.op \in {"INCW", "DECW"},
           ins.x \in (RegPairs \ {"AF"}) \cup {"SP"}, Count16
    PROVE  Arch!CountWord
<1> DEFINE p == ins.x
           k == IF ins.op = "INCW" THEN 1 ELSE -1
           w == Arch!Word(ADDRMASK(reg[p]) + k)
<1>1. /\ p \in Pairs \ {"PC"} /\ reg[p] \in Int /\ reg["PC"] \in Int
      /\ DOMAIN reg = Pairs /\ k \in Int
  BY DEF Pairs, RegPairs
<1>2. /\ reg' = [Fetched EXCEPT ![p] = reg[p] + k]
      /\ RAM' = RAM /\ UNCHANGED <<alt, IR, IFF>>
  BY <1>1 DEF Count16, Registers, NoOthers, Fetched
<1>3. /\ reg'[p] = reg[p] + k /\ reg'["PC"] = reg["PC"] + Length(ins)
      /\ \A q \in Pairs \ {p, "PC"} : reg'[q] = reg[q]
      /\ reg' \in [Pairs -> Int]
  BY <1>1, <1>2, LengthInt DEF Fetched, Pairs
<1>4. ADDRMASK(reg'[p]) = w
  BY <1>1, <1>3, LateWord
<1>5. ADDRMASK(reg'["PC"]) = Arch!Word(ADDRMASK(reg["PC"]) + Length(ins))
  BY <1>1, <1>3, LengthInt, LateWord
<1>6. F' = F
  BY <1>3 DEF F, Pairs, RegPairs
<1>7. Arch!PlaceWord(p, w)
  <2>1. CASE p = "SP"
    <3>1. \A z \in Regs : PairOf(z) \in Pairs \ {"SP", "PC"}
      BY DEF Regs, MainRegs, IndexRegs, PairOf, Pairs, RegPairs
    <3> QED  BY <1>3, <1>4, <2>1, <3>1 DEF Contents, Arch!PlaceWord
  <2>2. CASE p # "SP"
    <3>1. p \in RegPairs \ {"AF"} /\ \A q \in RegPairs \ {p} : reg'[q] = reg[q]
      BY <1>3, <2>2 DEF Pairs, RegPairs
    <3>2. [z \in Regs |-> Contents(reg', z)]
            = Arch!InPair([z \in Regs |-> Contents(reg, z)], p, ADDRMASK(reg'[p]))
      BY <1>3, <3>1, PairPut
    <3>3. reg'["SP"] = reg["SP"]
      BY <1>3, <2>2 DEF Pairs
    <3> QED  BY <1>4, <2>2, <3>2, <3>3 DEF Arch!PlaceWord
  <2> QED  BY <2>1, <2>2
<1>8. Arch!Pair(p) = ADDRMASK(reg[p])
  <2>1. CASE p = "SP"  BY <2>1 DEF Arch!Pair
  <2>2. CASE p # "SP"  BY <2>2, PairWord
  <2> QED  BY <2>1, <2>2
<1>9. Arch!KeepFlags /\ Arch!Rest
  BY <1>2, <1>5, <1>6, SameInstruction
     DEF Arch!KeepFlags, Arch!Rest, Arch!Advance, Arch!Alternate, Arch!Special
<1>10. w = IF ins.op = "INCW" THEN Arch!Word(ADDRMASK(reg[p]) + 1)
                             ELSE Arch!Word(ADDRMASK(reg[p]) - 1)
  <2>1. ADDRMASK(reg[p]) + (-1) = ADDRMASK(reg[p]) - 1
    BY <1>1 DEF ADDRMASK
  <2> QED  BY <2>1
<1> QED  BY <1>2, <1>7, <1>8, <1>9, <1>10, SameInstruction DEF Arch!CountWord

-----------------------------------------------------------------------------
(* Jumps, calls and returns.                                               *)

\* What an instruction that changes no pair of registers leaves alone.
LEMMA RegistersKept ==
    ASSUME \A p \in RegPairs : reg'[p] = reg[p]
    PROVE  UNCHANGED [z \in Regs |-> Contents(reg, z)] /\ F' = F
<1>1. \A z \in Regs : PairOf(z) \in RegPairs
  BY DEF Regs, MainRegs, IndexRegs, PairOf, RegPairs
<1>2. \A z \in Regs : Contents(reg', z) = Contents(reg, z)
  BY <1>1 DEF Contents
<1> QED  BY <1>2 DEF F, RegPairs

\* A pair pushed is the word the Z80 pushes, around the end of memory too.
LEMMA PushedWord ==
    ASSUME reg["SP"] \in Int, NEW v \in Int
    PROVE  Pushed(v) = Arch!WordPut(Arch!Word(ADDRMASK(reg["SP"]) - 2), ADDRMASK(v))
<1> DEFINE sp == reg["SP"]
           w == ADDRMASK(v)
<1>1. /\ ADDRMASK(sp - 2) = Arch!Word(ADDRMASK(sp) - 2)
      /\ ADDRMASK(sp - 1) = Arch!Word(Arch!Word(ADDRMASK(sp) - 2) + 1)
      /\ ADDRMASK(sp - 1) # ADDRMASK(sp - 2)
  <2> DEFINE q == reg["SP"]
  <2>1. q \in Int
    OBVIOUS
  <2> HIDE DEF q
  <2>2. /\ ADDRMASK(q - 2) = Arch!Word(ADDRMASK(q) - 2)
        /\ ADDRMASK(q - 1) = Arch!Word(Arch!Word(ADDRMASK(q) - 2) + 1)
        /\ ADDRMASK(q - 1) # ADDRMASK(q - 2)
    BY <2>1, SMTT(60) DEF ADDRMASK, Arch!Word
  <2> QED  BY <2>2 DEF q
<1>2. HIGH_REGISTER(v) = w \div 256 /\ LOW_REGISTER(v) = w % 256
  BY WordOfHalves
<1>3. Pushed(v) = [RAM EXCEPT ![ADDRMASK(sp - 1)] = w \div 256,
                              ![ADDRMASK(sp - 2)] = w % 256]
  BY <1>2 DEF Pushed
<1>4. Arch!WordPut(Arch!Word(ADDRMASK(sp) - 2), w)
        = [RAM EXCEPT ![ADDRMASK(sp - 2)] = w % 256,
                      ![ADDRMASK(sp - 1)] = w \div 256]
  BY <1>1 DEF Arch!WordPut
<1> QED  BY <1>1, <1>3, <1>4, ZenonT(60)

\* A word read from the stack is the one the Z80 reads.
LEMMA PoppedWord ==
    ASSUME reg["SP"] \in Int, \A a \in DOMAIN RAM : RAM[a] \in Byte, StackInWindow(0, 1)
    PROVE  /\ GET_WORD(reg["SP"]) = Arch!WordAt(ADDRMASK(reg["SP"]))
           /\ GET_WORD(reg["SP"]) \in Int
           /\ ADDRMASK(GET_WORD(reg["SP"])) = GET_WORD(reg["SP"])
<1> DEFINE sp == reg["SP"]
<1>1. ADDRMASK(sp + 1) = Arch!Word(ADDRMASK(sp) + 1)
  <2>1. sp \in Int /\ 1 \in Int
    OBVIOUS
  <2> HIDE DEF sp
  <2> QED  BY <2>1, LateWord
<1>2. ADDRMASK(sp) \in DOMAIN RAM /\ ADDRMASK(sp + 1) \in DOMAIN RAM
  <2>1. sp \in sp + 0 .. sp + 1 /\ sp + 1 \in sp + 0 .. sp + 1
    OBVIOUS
  <2> QED  BY <2>1 DEF StackInWindow, InWindow
<1> DEFINE low == RAM[ADDRMASK(sp)]
           high == RAM[ADDRMASK(sp + 1)]
<1>3. low \in Byte /\ high \in Byte
  BY <1>2
<1>4. GET_WORD(sp) = low + 256 * high
  BY DEF GET_WORD, GET_BYTE
<1>5. GET_WORD(sp) = Arch!WordAt(ADDRMASK(sp))
  BY <1>1, <1>4 DEF Arch!WordAt
<1> HIDE DEF low, high
<1>6. low + 256 * high \in Int /\ ADDRMASK(low + 256 * high) = low + 256 * high
  BY <1>3, SMT DEF ADDRMASK, Byte
<1> QED  BY <1>4, <1>5, <1>6

\* The tests of Jump, Call and Ret are the Z80's conditions.
LEMMA SameCondition ==
    ASSUME NEW cond, NEW flags
    PROVE  Holds(cond, flags) <=> Arch!Holds(cond, flags)
  BY DEF Holds, Arch!Holds

\* JP, JP (HL), JR, CALL, RST, RET, RETN and RETI (cpu.h, the C and E columns,
\* CALLC) go where the Z80 goes, from every int in PC and SP and on every flag:
\* a relative jump around the end of memory, a stack around it, a return
\* address pushed from a PC that has run past 16 bits.
THEOREM JumpCorrect ==
    ASSUME reg \in [Pairs -> Int], \A a \in DOMAIN RAM : RAM[a] \in Byte, IFF \in {0, 3},
           ins.d \in Byte, ins.n \in Int, ADDRMASK(ins.n) = ins.n,
           ins.op = "JP(rr)" => ins.x \in RegPairs \ {"AF"},
           \/ Jump \/ JumpTo \/ JumpRelative \/ Call \/ Return \/ ReturnInterrupt
    PROVE  Arch!Jump
<1> DEFINE sp == reg["SP"]
           after == reg["PC"] + Length(ins)
           next == Arch!Word(ADDRMASK(reg["PC"]) + Length(ins))
           taken == Holds(ins.x, F)
<1>1. /\ sp \in Int /\ reg["PC"] \in Int /\ DOMAIN reg = Pairs
      /\ after \in Int
  <2>1. "SP" \in Pairs /\ "PC" \in Pairs
    BY DEF Pairs
  <2>2. reg["PC"] \in Int
    BY <2>1
  <2> QED  BY <2>1, <2>2, LengthInt
<1>2. Fetched \in [Pairs -> Int] /\ Fetched["PC"] = after /\ Fetched["SP"] = sp
        /\ \A p \in RegPairs : Fetched[p] = reg[p]
  BY <1>1, LengthInt DEF Fetched, Pairs, RegPairs
<1>3. ADDRMASK(after) = next
  BY <1>1, LengthInt, LateWord
<1>5. ADDRMASK(sp - 2) = Arch!Word(ADDRMASK(sp) - 2)
        /\ ADDRMASK(sp + 2) = Arch!Word(ADDRMASK(sp) + 2)
  BY <1>1, SMTT(60) DEF ADDRMASK, Arch!Word
<1>6. taken <=> Arch!Holds(Arch!ins.x, F)
  BY SameCondition, SameInstruction
<1> HIDE DEF taken
\* What the registers have become is enough.
<1>7. ASSUME \A p \in RegPairs : reg'[p] = reg[p], UNCHANGED <<alt, IR>>, IFF' = IFF
      PROVE  /\ UNCHANGED [z \in Regs |-> Contents(reg, z)]
             /\ Arch!KeepFlags /\ Arch!Special /\ Arch!Alternate
  BY <1>7, RegistersKept DEF Arch!KeepFlags, Arch!Special, Arch!Alternate
<1>8. CASE Jump
  <2>1. /\ ins.op = "JP" /\ RAM' = RAM /\ UNCHANGED <<alt, IR, IFF>>
        /\ reg' = [Fetched EXCEPT !["PC"] = IF taken THEN ins.n ELSE after]
    BY <1>1, <1>2, <1>8 DEF Jump, Registers, NoOthers, taken
  <2>2. /\ reg'["PC"] = IF taken THEN ins.n ELSE after
        /\ reg'["SP"] = sp /\ \A p \in RegPairs : reg'[p] = reg[p]
    BY <1>1, <1>2, <2>1 DEF Pairs, RegPairs
  <2>3. ADDRMASK(reg'["PC"]) = IF taken THEN ins.n ELSE next
    BY <1>3, <2>2
  <2> QED  BY <1>6, <1>7, <2>1, <2>2, <2>3, SameInstruction DEF Arch!Jump, Arch!Go
<1>9. CASE JumpTo
  <2>1. /\ ins.op = "JP(rr)" /\ RAM' = RAM /\ UNCHANGED <<alt, IR, IFF>>
        /\ reg' = [Fetched EXCEPT !["PC"] = reg[ins.x]]
    BY <1>9 DEF JumpTo, Registers, NoOthers
  <2>2. /\ reg'["PC"] = reg[ins.x]
        /\ reg'["SP"] = sp /\ \A p \in RegPairs : reg'[p] = reg[p]
    BY <1>1, <1>2, <2>1 DEF Pairs, RegPairs
  <2>3. ADDRMASK(reg'["PC"]) = Arch!Pair(ins.x)
    BY <2>1, <2>2, PairWord
  <2> QED  BY <1>7, <2>1, <2>2, <2>3, SameInstruction DEF Arch!Jump, Arch!Go
<1>10. CASE JumpRelative
  <2>1. /\ ins.op = "JR" /\ RAM' = RAM /\ UNCHANGED <<alt, IR, IFF>>
        /\ reg' = [Fetched EXCEPT !["PC"] = after + (IF taken THEN Int8(ins.d) ELSE 0)]
    BY <1>1, <1>2, <1>10 DEF JumpRelative, Registers, NoOthers, taken
  <2>2. /\ reg'["PC"] = after + (IF taken THEN Int8(ins.d) ELSE 0)
        /\ reg'["SP"] = sp /\ \A p \in RegPairs : reg'[p] = reg[p]
    BY <1>1, <1>2, <2>1 DEF Pairs, RegPairs
  <2>3. ADDRMASK(after + Int8(ins.d)) = Arch!Word(next + Arch!Signed(ins.d))
    BY <1>1, <1>3, Int8Signed, LateWord
  <2>4. ADDRMASK(reg'["PC"]) = IF taken THEN Arch!Word(next + Arch!Signed(ins.d)) ELSE next
    BY <1>1, <1>3, <2>2, <2>3
  <2> QED  BY <1>6, <1>7, <2>1, <2>2, <2>4, SameInstruction DEF Arch!Jump, Arch!Go
<1>11. CASE Call
  <2>1. /\ ins.op \in {"CALL", "RST"} /\ UNCHANGED <<alt, IR, IFF>>
        /\ taken => /\ RAM' = Pushed(after)
                    /\ reg' = [Fetched EXCEPT !["SP"] = sp - 2, !["PC"] = ins.n]
        /\ ~taken => RAM' = RAM /\ reg' = Fetched
    BY <1>1, <1>2, <1>11 DEF Call, Registers, NoOthers, taken
  <2>2. CASE taken
    <3>1. /\ reg'["PC"] = ins.n /\ reg'["SP"] = sp - 2
          /\ \A p \in RegPairs : reg'[p] = reg[p]
      BY <1>1, <1>2, <2>1, <2>2 DEF Pairs, RegPairs
    <3>2. RAM' = Arch!WordPut(Arch!Word(ADDRMASK(sp) - 2), next)
      BY <1>1, <1>3, <2>1, <2>2, PushedWord
    <3> QED  BY <1>5, <1>6, <1>7, <2>1, <2>2, <3>1, <3>2, SameInstruction
             DEF Arch!Jump, Arch!Go
  <2>3. CASE ~taken
    <3>1. /\ ADDRMASK(reg'["PC"]) = next /\ reg'["SP"] = sp
          /\ \A p \in RegPairs : reg'[p] = reg[p]
      BY <1>2, <1>3, <2>1, <2>3
    <3> QED  BY <1>6, <1>7, <2>1, <2>3, <3>1, SameInstruction DEF Arch!Jump, Arch!Go
  <2> QED  BY <2>2, <2>3
<1> DEFINE top == GET_WORD(sp)
<1>12. ASSUME StackInWindow(0, 1), reg' = POP(Fetched, "PC")
       PROVE  /\ ADDRMASK(reg'["PC"]) = Arch!WordAt(ADDRMASK(sp))
              /\ ADDRMASK(reg'["SP"]) = Arch!Word(ADDRMASK(sp) + 2)
              /\ \A p \in RegPairs : reg'[p] = reg[p]
  <2>1. top = Arch!WordAt(ADDRMASK(sp)) /\ ADDRMASK(top) = top
    BY <1>1, <1>12, PoppedWord
  <2>2. reg' = [Fetched EXCEPT !["SP"] = sp + 2, !["PC"] = top]
    BY <1>1, <1>2, <1>12 DEF POP
  <2> HIDE DEF top
  <2>3. /\ reg'["PC"] = top /\ reg'["SP"] = sp + 2
        /\ \A p \in RegPairs : reg'[p] = reg[p]
    BY <1>1, <1>2, <2>2 DEF Pairs, RegPairs
  <2> QED  BY <1>5, <2>1, <2>3
<1>13. CASE Return
  <2>1. /\ ins.op = "RET" /\ RAM' = RAM /\ UNCHANGED <<alt, IR, IFF>>
        /\ taken => StackInWindow(0, 1) /\ reg' = POP(Fetched, "PC")
        /\ ~taken => reg' = Fetched
    BY <1>13 DEF Return, Registers, NoOthers, taken
  <2>2. CASE taken
    BY <1>6, <1>7, <1>12, <2>1, <2>2, SameInstruction DEF Arch!Jump, Arch!Go
  <2>3. CASE ~taken
    <3>1. /\ ADDRMASK(reg'["PC"]) = next /\ reg'["SP"] = sp
          /\ \A p \in RegPairs : reg'[p] = reg[p]
      BY <1>2, <1>3, <2>1, <2>3
    <3> QED  BY <1>6, <1>7, <2>1, <2>3, <3>1, SameInstruction DEF Arch!Jump, Arch!Go
  <2> QED  BY <2>2, <2>3
<1>14. CASE ReturnInterrupt
  <2>1. /\ ins.op = "RETN" /\ RAM' = RAM /\ UNCHANGED <<alt, IR>>
        /\ StackInWindow(0, 1) /\ reg' = POP(Fetched, "PC")
    BY <1>14 DEF ReturnInterrupt, Registers
  <2>2. IFF' = IFF
    BY <1>14, SMT DEF ReturnInterrupt
  <2> QED  BY <1>7, <1>12, <2>1, <2>2, SameInstruction DEF Arch!Jump, Arch!Go
<1> QED  BY <1>8, <1>9, <1>10, <1>11, <1>13, <1>14

-----------------------------------------------------------------------------
(* Words read into pairs, and exchanges.                                   *)

\* The flags of a byte are the same set on both levels.
LEMMA FlagsOfByte ==
    ASSUME NEW b
    PROVE  FlagsIn(b) = Arch!FOf(b)
<1> DEFINE names == {"S", "Z", "Y", "H", "X", "P", "N", "C"}
           weight(flag) == CASE flag = "S" -> 128 [] flag = "Z" -> 64 [] flag = "Y" -> 32
                             [] flag = "H" -> 16 [] flag = "X" -> 8 [] flag = "P" -> 4
                             [] flag = "N" -> 2 [] flag = "C" -> 1
<1>1. /\ "S" \in FlagsIn(b) <=> Bit(b, 128)
      /\ "Z" \in FlagsIn(b) <=> Bit(b, 64)
      /\ "Y" \in FlagsIn(b) <=> Bit(b, 32)
      /\ "H" \in FlagsIn(b) <=> Bit(b, 16)
      /\ "X" \in FlagsIn(b) <=> Bit(b, 8)
      /\ "P" \in FlagsIn(b) <=> Bit(b, 4)
      /\ "N" \in FlagsIn(b) <=> Bit(b, 2)
      /\ "C" \in FlagsIn(b) <=> Bit(b, 1)
  BY DEF FlagsIn, When
<1>2. FlagsIn(b) \subseteq names
  BY DEF FlagsIn, When
<1>3. Arch!FOf(b) = {flag \in names : (b \div weight(flag)) % 2 = 1}
  <2>1. names = Arch!Documented \cup {"Y", "X"}
    BY DEF Arch!Documented
  <2> QED  BY <2>1 DEF Arch!FOf
<1>4. /\ weight("S") = 128 /\ weight("Z") = 64 /\ weight("Y") = 32 /\ weight("H") = 16
      /\ weight("X") = 8 /\ weight("P") = 4 /\ weight("N") = 2 /\ weight("C") = 1
  OBVIOUS
<1> HIDE DEF weight
<1>5. \A flag \in names : flag \in FlagsIn(b) <=> (b \div weight(flag)) % 2 = 1
  BY <1>1, <1>4 DEF Bit
<1> HIDE DEF names
<1> QED  BY <1>2, <1>3, <1>5

\* Both levels name the same registers.
LEMMA SameRegisters ==
    Arch!Regs = Regs /\ Arch!MainRegs = MainRegs /\ Arch!IndexRegs = IndexRegs
      /\ Arch!Memory = Memory
  BY DEF Regs, MainRegs, IndexRegs, Memory, Arch!Regs, Arch!MainRegs, Arch!IndexRegs, Arch!Memory

\* Changing AF changes A and the flags.
LEMMA AfPut ==
    ASSUME NEW g, NEW g2, \A q \in RegPairs \ {"AF"} : g2[q] = g[q]
    PROVE  [z \in Regs |-> Contents(g2, z)]
             = [[z \in Regs |-> Contents(g, z)] EXCEPT !["A"] = HIGH_REGISTER(g2["AF"])]
<1>1. \A z \in Regs \ {"A"} : PairOf(z) \in RegPairs \ {"AF"}
  BY DEF Regs, MainRegs, IndexRegs, PairOf, RegPairs
<1>2. \A z \in Regs \ {"A"} : Contents(g2, z) = Contents(g, z)
  BY <1>1 DEF Contents
<1>3. Contents(g2, "A") = HIGH_REGISTER(g2["AF"])
  BY DEF Contents, HighRegs, PairOf
<1> QED  BY <1>2, <1>3 DEF Regs, MainRegs

\* What an instruction that goes on to the next one does to PC.
LEMMA Advances ==
    ASSUME reg["PC"] \in Int, reg'["PC"] = Fetched["PC"], "PC" \in DOMAIN reg
    PROVE  Arch!Advance
<1>1. reg'["PC"] = reg["PC"] + Length(ins)
  BY DEF Fetched
<1>2. ADDRMASK(reg'["PC"]) = Arch!Word(ADDRMASK(reg["PC"]) + Length(ins))
  BY <1>1, LengthInt, LateWord
<1> QED  BY <1>2, SameInstruction DEF Arch!Advance

\* The registers after the fetch: PC has moved, no more.
LEMMA FetchedKeeps ==
    ASSUME reg \in [Pairs -> Int]
    PROVE  /\ Fetched \in [Pairs -> Int]
           /\ \A p \in Pairs \ {"PC"} : Fetched[p] = reg[p]
           /\ DOMAIN reg = Pairs
           /\ reg["PC"] \in Int /\ reg["SP"] \in Int /\ reg["AF"] \in Int
  BY LengthInt DEF Fetched, Pairs, RegPairs

\* POP (cpu.h, POP and 0xc1 to 0xf1) takes the word the Z80 takes from any int
\* in SP, around the end of memory too; POP AF sets every flag from its byte.
THEOREM PopCorrect ==
    ASSUME reg \in [Pairs -> Int], \A a \in DOMAIN RAM : RAM[a] \in Byte,
           ins.x \in RegPairs, Pop
    PROVE  Arch!Pop
<1> DEFINE sp == reg["SP"]
           p == ins.x
           top == GET_WORD(sp)
<1>1. sp \in Int /\ reg["PC"] \in Int /\ DOMAIN reg = Pairs /\ DOMAIN Fetched = Pairs
        /\ Fetched \in [Pairs -> Int] /\ sp + 2 \in Int
        /\ \A q \in Pairs \ {"PC"} : Fetched[q] = reg[q]
  BY FetchedKeeps
<1>2. /\ ins.op = "POP" /\ StackInWindow(0, 1) /\ RAM' = RAM
      /\ reg' = [Fetched EXCEPT !["SP"] = sp + 2, ![p] = top]
      /\ UNCHANGED <<alt, IR, IFF>>
  BY <1>1 DEF Pop, POP, Registers, NoOthers, Pairs, RegPairs
<1>3. top = Arch!WordAt(ADDRMASK(sp)) /\ ADDRMASK(top) = top /\ top \in Int
  BY <1>1, <1>2, PoppedWord
<1> HIDE DEF top
<1>4. /\ reg'["SP"] = sp + 2 /\ reg'[p] = top /\ reg'["PC"] = Fetched["PC"]
      /\ \A q \in RegPairs \ {p} : reg'[q] = reg[q]
      /\ p \in Pairs /\ "PC" \in Pairs
  BY <1>1, <1>2 DEF Pairs, RegPairs
<1>5. ADDRMASK(sp + 2) = Arch!Word(ADDRMASK(sp) + 2)
  <2>1. sp \in Int /\ 2 \in Int
    BY <1>1
  <2> HIDE DEF sp
  <2> QED  BY <2>1, LateWord
<1>6. Arch!Rest
  BY <1>1, <1>2, <1>4, Advances DEF Arch!Rest, Arch!Alternate, Arch!Special
<1>7. HIGH_REGISTER(top) = top \div 256 /\ LOW_REGISTER(top) = top % 256
  BY <1>3, WordOfHalves
<1>8. CASE p = "AF"
  <2>1. [z \in Regs |-> Contents(reg', z)]
          = [[z \in Regs |-> Contents(reg, z)] EXCEPT !["A"] = HIGH_REGISTER(reg'["AF"])]
    BY <1>4, <1>8, AfPut
  <2>2. F' = Arch!FOf(top % 256)
    BY <1>4, <1>7, <1>8, FlagsOfByte DEF F
  <2>3. [z \in Regs |-> Contents(reg, z)]'
          = [[z \in Regs |-> Contents(reg, z)] EXCEPT !["A"] = top \div 256]
    BY <1>4, <1>7, <1>8, <2>1
  <2> QED
    BY <1>2, <1>3, <1>4, <1>5, <1>6, <1>8, <2>2, <2>3, SameInstruction
       DEF Arch!Pop
<1>9. CASE p # "AF"
  <2>1. reg' \in [Pairs -> Int]
    BY <1>1, <1>2, <1>3, <1>4
  <2>2. [z \in Regs |-> Contents(reg', z)]
          = Arch!InPair([z \in Regs |-> Contents(reg, z)], p, ADDRMASK(reg'[p]))
    BY <1>4, <1>9, <2>1, PairPut
  <2>3. F' = F
    BY <1>4, <1>9 DEF F, RegPairs
  <2> QED
    BY <1>2, <1>3, <1>4, <1>5, <1>6, <1>9, <2>2, <2>3, SameInstruction
       DEF Arch!Pop, Arch!KeepFlags
<1> QED  BY <1>8, <1>9

\* EX AF,AF', EXX, EX DE,HL and EX (SP),rr (cpu.h, 0x08, 0xd9, 0xeb and 0xe3)
\* exchange whole ints, with what has run out above them: the bytes and flags
\* on both sides are those the Z80 has.
THEOREM ExchangeCorrect ==
    ASSUME reg \in [Pairs -> Int], alt \in [Alternates -> Int],
           \A a \in DOMAIN RAM : RAM[a] \in Byte,
           ins.op = "EX" /\ ins.x = "(SP)" => ins.y \in {"HL", "IX", "IY"},
           Exchange \/ ExchangeTop
    PROVE  Arch!Exchange
<1> DEFINE r == [z \in Regs |-> Contents(reg, z)]
           r2 == [z \in MainRegs |-> Contents(alt, z)]
<1>1. /\ reg["PC"] \in Int /\ reg["SP"] \in Int /\ DOMAIN reg = Pairs
      /\ DOMAIN Fetched = Pairs /\ Fetched \in [Pairs -> Int]
      /\ \A q \in Pairs \ {"PC"} : Fetched[q] = reg[q]
  BY FetchedKeeps
<1>2. /\ {"AF", "BC", "DE", "HL", "IX", "IY", "SP"} \subseteq Pairs \ {"PC"}
      /\ "PC" \in Pairs
  BY DEF Pairs, RegPairs
<1>3. ASSUME reg'["PC"] = Fetched["PC"], UNCHANGED <<IR, IFF>>
      PROVE  Arch!Advance /\ Arch!Special
  BY <1>1, <1>2, <1>3, Advances DEF Arch!Special
<1>4. /\ \A z \in MainRegs \ {"A"} : PairOf(z) \in {"BC", "DE", "HL"}
      /\ \A z \in IndexRegs : PairOf(z) \in {"IX", "IY"}
      /\ PairOf("A") = "AF" /\ "A" \in HighRegs
      /\ MainRegs \subseteq Regs /\ IndexRegs \subseteq Regs
      /\ Regs = MainRegs \cup IndexRegs /\ "A" \in MainRegs /\ "A" \notin IndexRegs
  BY DEF Regs, MainRegs, IndexRegs, PairOf, HighRegs
<1>5. CASE ins.op = "EX" /\ ins.x = "AF" /\ Swap({"AF"})
  <2>1. /\ reg'["AF"] = alt["AF"] /\ reg'["PC"] = Fetched["PC"] /\ reg'["SP"] = reg["SP"]
        /\ \A q \in RegPairs \ {"AF"} : reg'[q] = reg[q]
        /\ UNCHANGED <<IR, IFF, RAM>>
    BY <1>1, <1>2, <1>5 DEF Swap, RegPairs
  <2>2. alt'["AF"] = reg["AF"] /\ alt'["BC"] = alt["BC"] /\ alt'["DE"] = alt["DE"]
          /\ alt'["HL"] = alt["HL"]
    BY <1>5 DEF Swap, Alternates
  <2>3. r' = [r EXCEPT !["A"] = r2["A"]]
    <3>1. r' = [r EXCEPT !["A"] = HIGH_REGISTER(reg'["AF"])]
      BY <2>1, AfPut
    <3>2. r2["A"] = HIGH_REGISTER(alt["AF"])
      BY <1>4 DEF Contents
    <3> QED  BY <2>1, <3>1, <3>2
  <2>4. r2' = [r2 EXCEPT !["A"] = r["A"]]
    <3>1. Contents(alt', "A") = Contents(reg, "A")
      BY <1>4, <2>2 DEF Contents
    <3>2. \A z \in MainRegs \ {"A"} : Contents(alt', z) = Contents(alt, z)
      BY <1>4, <2>2 DEF Contents
    <3> QED  BY <1>4, <3>1, <3>2
  <2>5. F' = FlagsIn(LOW_REGISTER(alt["AF"])) /\ FlagsIn(LOW_REGISTER(alt'["AF"])) = F
    BY <2>1, <2>2 DEF F
  <2> QED
    BY <1>3, <1>5, <2>1, <2>3, <2>4, <2>5, SameInstruction DEF Arch!Exchange
<1>6. CASE ins.op = "EXX" /\ Swap({"BC", "DE", "HL"})
  <2>1. /\ reg'["PC"] = Fetched["PC"] /\ reg'["SP"] = reg["SP"]
        /\ \A q \in {"AF", "IX", "IY"} : reg'[q] = reg[q]
        /\ \A q \in {"BC", "DE", "HL"} : reg'[q] = alt[q] /\ alt'[q] = reg[q]
        /\ alt'["AF"] = alt["AF"]
        /\ UNCHANGED <<IR, IFF, RAM>>
    BY <1>1, <1>2, <1>6 DEF Swap, Alternates
  <2>2. \A z \in MainRegs \ {"A"} : /\ Contents(reg', z) = Contents(alt, z)
                                     /\ Contents(alt', z) = Contents(reg, z)
    BY <1>4, <2>1 DEF Contents
  <2>3. /\ Contents(reg', "A") = Contents(reg, "A") /\ Contents(alt', "A") = Contents(alt, "A")
        /\ \A z \in IndexRegs : Contents(reg', z) = Contents(reg, z)
    BY <1>4, <2>1 DEF Contents
  <2>4. r' = [z \in Regs |-> IF z \in MainRegs \ {"A"} THEN r2[z] ELSE r[z]]
    BY <1>4, <2>2, <2>3
  <2>5. r2' = [z \in MainRegs |-> IF z = "A" THEN r2[z] ELSE r[z]]
    BY <1>4, <2>2, <2>3
  <2>6. F' = F /\ FlagsIn(LOW_REGISTER(alt'["AF"])) = FlagsIn(LOW_REGISTER(alt["AF"]))
    BY <2>1 DEF F
  <2> QED
    BY <1>3, <1>6, <2>1, <2>4, <2>5, <2>6, SameInstruction, SameRegisters DEF Arch!Exchange
<1>7. CASE /\ ins.op = "EX" /\ ins.x = "DE"
           /\ Registers([Fetched EXCEPT !["DE"] = reg["HL"], !["HL"] = reg["DE"]])
           /\ NoOthers
  <2> DEFINE g == [Fetched EXCEPT !["DE"] = reg["HL"]]
  <2>1. /\ reg' = [g EXCEPT !["HL"] = reg["DE"]]
        /\ reg["HL"] \in Int /\ reg["DE"] \in Int
        /\ UNCHANGED <<alt, IR, IFF, RAM>>
    BY <1>2, <1>7 DEF Registers, NoOthers
  <2>2. /\ g \in [Pairs -> Int] /\ reg' \in [Pairs -> Int]
        /\ g["DE"] = reg["HL"] /\ reg'["HL"] = reg["DE"]
        /\ \A q \in RegPairs \ {"DE"} : g[q] = reg[q]
        /\ \A q \in RegPairs \ {"HL"} : reg'[q] = g[q]
        /\ reg'["PC"] = Fetched["PC"] /\ reg'["SP"] = reg["SP"] /\ reg'["AF"] = reg["AF"]
    BY <1>1, <2>1 DEF Pairs, RegPairs
  <2> HIDE DEF g
  <2>3. [z \in Regs |-> Contents(g, z)] = Arch!InPair(r, "DE", ADDRMASK(g["DE"]))
    BY <2>2, PairPut DEF RegPairs
  <2>4. r' = Arch!InPair([z \in Regs |-> Contents(g, z)], "HL", ADDRMASK(reg'["HL"]))
    BY <2>2, PairPut DEF RegPairs
  <2>5. Arch!Pair("HL") = ADDRMASK(reg["HL"]) /\ Arch!Pair("DE") = ADDRMASK(reg["DE"])
    BY PairWord DEF RegPairs
  <2>6. r' = Arch!InPair(Arch!InPair(r, "DE", Arch!Pair("HL")), "HL", Arch!Pair("DE"))
    BY <2>2, <2>3, <2>4, <2>5
  <2>7. F' = F
    BY <2>2 DEF F
  <2> QED
    BY <1>3, <1>7, <2>1, <2>2, <2>6, <2>7, SameInstruction
       DEF Arch!Exchange, Arch!Put, Arch!KeepFlags, Arch!Alternate
<1>8. CASE ExchangeTop
  <2> DEFINE sp == reg["SP"]
             p == ins.y
             top == GET_WORD(sp)
  <2>1. /\ ins.op = "EX" /\ ins.x = "(SP)" /\ p \in RegPairs \ {"AF"}
        /\ StackInWindow(0, 1) /\ UNCHANGED <<alt, IR, IFF>>
        /\ reg' = [Fetched EXCEPT ![p] = top]
        /\ RAM' = [RAM EXCEPT ![ADDRMASK(sp + 1)] = HIGH_REGISTER(reg[p]),
                              ![ADDRMASK(sp)] = LOW_REGISTER(reg[p])]
    BY <1>8 DEF ExchangeTop, NoOthers, RegPairs
  <2>2. top = Arch!WordAt(ADDRMASK(sp)) /\ ADDRMASK(top) = top /\ top \in Int
    BY <1>1, <2>1, PoppedWord
  <2> HIDE DEF top
  <2>3. /\ reg' \in [Pairs -> Int] /\ reg'[p] = top
        /\ \A q \in RegPairs \ {p} : reg'[q] = reg[q]
        /\ reg'["PC"] = Fetched["PC"] /\ reg'["SP"] = sp /\ reg'["AF"] = reg["AF"]
        /\ reg[p] \in Int
    BY <1>1, <2>1, <2>2 DEF Pairs, RegPairs
  <2>4. r' = Arch!InPair(r, p, Arch!WordAt(ADDRMASK(sp)))
    <3>1. p \in RegPairs \ {"AF"}
      BY <2>1
    <3> HIDE DEF p
    <3>2. [z \in Regs |-> Contents(reg', z)] = Arch!InPair(r, p, ADDRMASK(reg'[p]))
      BY <2>3, <3>1, PairPut
    <3> QED  BY <2>2, <2>3, <3>2
  <2>5. RAM' = Arch!WordPut(ADDRMASK(sp), Arch!Pair(p))
    <3> DEFINE w == ADDRMASK(reg[p])
    <3>1. Arch!Pair(p) = w
      BY <2>1, PairWord
    <3>2. HIGH_REGISTER(reg[p]) = w \div 256 /\ LOW_REGISTER(reg[p]) = w % 256
      BY <2>3, WordOfHalves
    <3>3. ADDRMASK(sp + 1) = Arch!Word(ADDRMASK(sp) + 1) /\ ADDRMASK(sp + 1) # ADDRMASK(sp)
      <4>1. sp \in Int
        BY <1>1
      <4> HIDE DEF sp
      <4> QED  BY <4>1, SMTT(60) DEF ADDRMASK, Arch!Word
    <3>4. RAM' = [RAM EXCEPT ![ADDRMASK(sp + 1)] = w \div 256, ![ADDRMASK(sp)] = w % 256]
      BY <2>1, <3>2
    <3>5. Arch!WordPut(ADDRMASK(sp), w)
            = [RAM EXCEPT ![ADDRMASK(sp)] = w % 256, ![ADDRMASK(sp + 1)] = w \div 256]
      BY <3>3 DEF Arch!WordPut
    <3> HIDE DEF w
    <3> QED  BY <3>1, <3>3, <3>4, <3>5, ZenonT(60)
  <2>6. F' = F
    BY <2>3 DEF F
  <2> QED
    BY <1>3, <2>1, <2>3, <2>4, <2>5, <2>6, SameInstruction
       DEF Arch!Exchange, Arch!KeepFlags, Arch!Alternate
<1> QED  BY <1>5, <1>6, <1>7, <1>8 DEF Exchange

-----------------------------------------------------------------------------
(* Operands.                                                               *)

\* Masking once is enough.
LEMMA MaskedTwice ==
    ASSUME NEW x \in Int
    PROVE  /\ ADDRMASK(x) \in Int
           /\ ADDRMASK(ADDRMASK(x)) = ADDRMASK(x)
           /\ Arch!Word(ADDRMASK(x)) = ADDRMASK(x)
           /\ Arch!Word(x) = ADDRMASK(x)
  BY SMTT(30) DEF ADDRMASK, Arch!Word

\* An operand in memory is at the address the Z80 computes: a pair is masked
\* after a displacement is added, not before.
LEMMA SameAddress ==
    ASSUME reg \in [Pairs -> Int], ins.d \in Byte, ins.n \in Int, NEW z \in Memory
    PROVE  Adr(z) = Arch!Address(z) /\ ADDRMASK(Adr(z)) = Adr(z)
<1>1. \A p \in {"HL", "BC", "DE", "IX", "IY"} :
         p \in RegPairs /\ reg[p] \in Int /\ Arch!Pair(p) = ADDRMASK(reg[p])
  BY PairWord DEF Pairs, RegPairs
<1>2. Int8(ins.d) \in Int /\ Int8(ins.d) = Arch!Signed(ins.d)
  BY Int8Signed
<1>3. \A p \in {"IX", "IY"} :
         ADDRMASK(reg[p] + Int8(ins.d)) = Arch!Word(Arch!Pair(p) + Arch!Signed(ins.d))
  <2> TAKE p \in {"IX", "IY"}
  <2> DEFINE x == reg[p]
             k == Int8(ins.d)
  <2>1. x \in Int /\ k \in Int /\ Arch!Pair(p) = ADDRMASK(x) /\ k = Arch!Signed(ins.d)
    BY <1>1, <1>2
  <2> HIDE DEF x, k
  <2>2. ADDRMASK(x + k) = Arch!Word(ADDRMASK(x) + k)
    BY <2>1, LateWord
  <2>3. ADDRMASK(x + k) = Arch!Word(Arch!Pair(p) + Arch!Signed(ins.d))
    BY <2>1, <2>2
  <2> QED  BY <2>3 DEF x, k
<1>4. CASE z = "(HL)"
  <2>1. Adr(z) = ADDRMASK(reg["HL"]) /\ Arch!Address(z) = Arch!Word(Arch!Pair("HL"))
    BY <1>4 DEF Adr, Arch!Address
  <2> QED  BY <1>1, <2>1, MaskedTwice
<1>5. CASE z = "(BC)"
  <2>1. Adr(z) = ADDRMASK(reg["BC"]) /\ Arch!Address(z) = Arch!Word(Arch!Pair("BC"))
    BY <1>5 DEF Adr, Arch!Address
  <2> QED  BY <1>1, <2>1, MaskedTwice
<1>6. CASE z = "(DE)"
  <2>1. Adr(z) = ADDRMASK(reg["DE"]) /\ Arch!Address(z) = Arch!Word(Arch!Pair("DE"))
    BY <1>6 DEF Adr, Arch!Address
  <2> QED  BY <1>1, <2>1, MaskedTwice
<1>7. CASE z = "(nn)"
  <2>1. Adr(z) = ADDRMASK(ins.n) /\ Arch!Address(z) = Arch!Word(ins.n)
    BY <1>7, SameInstruction DEF Adr, Arch!Address
  <2> QED  BY <2>1, MaskedTwice
<1>8. CASE z = "(IX)"
  <2>1. /\ Adr(z) = ADDRMASK(reg["IX"] + Int8(ins.d))
        /\ Arch!Address(z) = Arch!Word(Arch!Pair("IX") + Arch!Signed(ins.d))
    BY <1>8, SameInstruction DEF Adr, Arch!Address
  <2>2. reg["IX"] + Int8(ins.d) \in Int
    BY <1>1, <1>2
  <2> QED  BY <1>3, <2>1, <2>2, MaskedTwice
<1>9. CASE z = "(IY)"
  <2>1. /\ Adr(z) = ADDRMASK(reg["IY"] + Int8(ins.d))
        /\ Arch!Address(z) = Arch!Word(Arch!Pair("IY") + Arch!Signed(ins.d))
    BY <1>9, SameInstruction DEF Adr, Arch!Address
  <2>2. reg["IY"] + Int8(ins.d) \in Int
    BY <1>1, <1>2
  <2> QED  BY <1>3, <2>1, <2>2, MaskedTwice
<1> QED  BY <1>4, <1>5, <1>6, <1>7, <1>8, <1>9 DEF Memory

\* Registers, memory and the immediate byte are told apart by their names.
LEMMA OperandNames ==
    /\ Regs \cap Memory = {} /\ "n" \notin Regs /\ "n" \notin Memory
    /\ \A z \in Regs : PairOf(z) \in RegPairs
    /\ \A z \in Regs : PairOf(z) = "AF" <=> z = "A"
    /\ HighRegs \subseteq Regs
  BY DEF Regs, MainRegs, IndexRegs, Memory, PairOf, RegPairs, HighRegs

\* An operand has the value the Z80 reads.
LEMMA SameOperand ==
    ASSUME reg \in [Pairs -> Int], ins.d \in Byte, ins.n \in Int, NEW z \in Operands8
    PROVE  Value8(z) = Arch!Operand(z)
<1>1. CASE z \in Regs
  <2>1. Arch!Operand(z) = Contents(reg, z)
    BY <1>1, SameRegisters DEF Arch!Operand
  <2>2. Value8(z) = Contents(reg, z)
    BY <1>1, OperandNames DEF Value8, Contents
  <2> QED  BY <2>1, <2>2
<1>2. CASE z \in Memory
  <2>1. Arch!Operand(z) = RAM[Arch!Address(z)]
    BY <1>2, OperandNames, SameRegisters DEF Arch!Operand
  <2>2. Value8(z) = RAM[ADDRMASK(Adr(z))]
    BY <1>2, OperandNames DEF Value8, GET_BYTE
  <2> QED  BY <1>2, <2>1, <2>2, SameAddress
<1>3. CASE z = "n"
  <2>1. Arch!Operand(z) = ins.n
    BY <1>3, OperandNames, SameRegisters, SameInstruction DEF Arch!Operand
  <2>2. Value8(z) = ins.n
    BY <1>3, OperandNames DEF Value8
  <2> QED  BY <2>1, <2>2
<1> QED  BY <1>1, <1>2, <1>3 DEF Operands8

\* A register is a byte, and so is what a byte's operand holds.
LEMMA OperandByte ==
    ASSUME reg \in [Pairs -> Int], \A a \in DOMAIN RAM : RAM[a] \in Byte,
           ins.d \in Byte, ins.n \in Int, NEW z \in Operands8, Reachable(z),
           z = "n" => ins.n \in Byte
    PROVE  Value8(z) \in Byte
<1>1. CASE z \in Regs
  <2>1. reg[PairOf(z)] \in Int
    BY <1>1, OperandNames DEF Pairs
  <2>2. /\ HIGH_REGISTER(reg[PairOf(z)]) \in Byte
        /\ LOW_REGISTER(reg[PairOf(z)]) \in Byte
    BY <2>1, WordOfHalves DEF Byte
  <2> QED  BY <1>1, <2>2, OperandNames DEF Value8
<1>2. CASE z \in Memory
  <2>1. Value8(z) = RAM[ADDRMASK(Adr(z))]
    BY <1>2, OperandNames DEF Value8, GET_BYTE
  <2>2. Adr(z) \in DOMAIN RAM
    BY <1>2 DEF Reachable, InWindow
  <2> QED  BY <1>2, <2>1, <2>2, SameAddress
<1>3. CASE z = "n"
  BY <1>3, OperandNames DEF Value8
<1> QED  BY <1>1, <1>2, <1>3 DEF Operands8

\* A byte put into one half of an int, the other half kept.
LEMMA HalvesPut ==
    ASSUME NEW x \in Int, NEW v \in Int
    PROVE  /\ HIGH_REGISTER(LOW_REGISTER(x) + 256 * (v % 256)) = v % 256
           /\ LOW_REGISTER(LOW_REGISTER(x) + 256 * (v % 256)) = LOW_REGISTER(x)
           /\ HIGH_REGISTER(256 * HIGH_REGISTER(x) + (v % 256)) = HIGH_REGISTER(x)
           /\ LOW_REGISTER(256 * HIGH_REGISTER(x) + (v % 256)) = v % 256
           /\ LOW_REGISTER(x) + 256 * (v % 256) \in Int
           /\ 256 * HIGH_REGISTER(x) + (v % 256) \in Int
  BY SMTT(60) DEF HIGH_REGISTER, LOW_REGISTER

\* Changing one half of a pair changes one register.
LEMMA HalfChanged ==
    ASSUME NEW g \in [Pairs -> Int], NEW h \in [Pairs -> Int], NEW z \in Regs,
           \A q \in Pairs \ {PairOf(z)} : h[q] = g[q],
           IF z \in HighRegs
           THEN LOW_REGISTER(h[PairOf(z)]) = LOW_REGISTER(g[PairOf(z)])
           ELSE HIGH_REGISTER(h[PairOf(z)]) = HIGH_REGISTER(g[PairOf(z)])
    PROVE  /\ \A y \in Regs \ {z} : Contents(h, y) = Contents(g, y)
           /\ \A p \in {"SP", "PC"} : h[p] = g[p]
           /\ LOW_REGISTER(h["AF"]) = LOW_REGISTER(g["AF"])
<1> DEFINE p == PairOf(z)
<1>1. p \in RegPairs
  BY OperandNames
<1>2. \A y \in Regs :
        PairOf(y) = p => ((y \in HighRegs <=> z \in HighRegs) => y = z)
  BY DEF Regs, MainRegs, IndexRegs, PairOf, HighRegs
<1>3. \A y \in Regs \ {z} : Contents(h, y) = Contents(g, y)
  <2> TAKE y \in Regs \ {z}
  <2>1. PairOf(y) \in Pairs
    BY OperandNames DEF Pairs
  <2>2. CASE PairOf(y) = p
    BY <1>2, <2>2 DEF Contents
  <2>3. CASE PairOf(y) # p
    BY <2>1, <2>3 DEF Contents
  <2> QED  BY <2>2, <2>3
<1>4. \A q \in {"SP", "PC"} : h[q] = g[q]
  BY <1>1 DEF Pairs, RegPairs
<1>5. LOW_REGISTER(h["AF"]) = LOW_REGISTER(g["AF"])
  <2>1. CASE p = "AF"
    <3>1. z \in HighRegs
      BY <2>1, OperandNames DEF HighRegs
    <3> QED  BY <2>1, <3>1
  <2>2. CASE p # "AF"
    BY <2>2 DEF Pairs, RegPairs
  <2> QED  BY <2>1, <2>2
<1> QED  BY <1>3, <1>4, <1>5

\* Setting one register leaves the other half of its pair alone.
LEMMA RegisterPut ==
    ASSUME NEW g \in [Pairs -> Int], NEW z \in Regs, NEW v \in Int
    PROVE  /\ SetReg(g, z, v) \in [Pairs -> Int]
           /\ Contents(SetReg(g, z, v), z) = v % 256
           /\ \A y \in Regs \ {z} : Contents(SetReg(g, z, v), y) = Contents(g, y)
           /\ \A p \in {"SP", "PC"} : SetReg(g, z, v)[p] = g[p]
           /\ LOW_REGISTER(SetReg(g, z, v)["AF"]) = LOW_REGISTER(g["AF"])
<1> DEFINE p == PairOf(z)
           new == IF z \in HighRegs THEN LOW_REGISTER(g[p]) + 256 * (v % 256)
                                    ELSE 256 * HIGH_REGISTER(g[p]) + (v % 256)
           h == SetReg(g, z, v)
<1>1. p \in Pairs /\ g[p] \in Int
  BY OperandNames DEF Pairs
<1>2. h = [g EXCEPT ![p] = new]
  BY <1>1 DEF SetReg
<1>3. /\ new \in Int
      /\ z \in HighRegs => HIGH_REGISTER(new) = v % 256 /\ LOW_REGISTER(new) = LOW_REGISTER(g[p])
      /\ z \notin HighRegs => LOW_REGISTER(new) = v % 256 /\ HIGH_REGISTER(new) = HIGH_REGISTER(g[p])
  BY <1>1, HalvesPut
<1> HIDE DEF new, h
<1>4. h \in [Pairs -> Int] /\ h[p] = new /\ \A q \in Pairs \ {p} : h[q] = g[q]
  BY <1>1, <1>2, <1>3
<1>5. Contents(h, z) = v % 256
  BY <1>3, <1>4 DEF Contents
<1>6. /\ \A y \in Regs \ {z} : Contents(h, y) = Contents(g, y)
      /\ \A q \in {"SP", "PC"} : h[q] = g[q]
      /\ LOW_REGISTER(h["AF"]) = LOW_REGISTER(g["AF"])
  BY <1>3, <1>4, HalfChanged
<1> QED  BY <1>4, <1>5, <1>6 DEF h

\* A byte stored goes where the Z80 stores it, from registers g that have its
\* registers already.
LEMMA StoreCorrect ==
    ASSUME reg \in [Pairs -> Int], ins.d \in Byte, ins.n \in Int,
           NEW g \in [Pairs -> Int],
           \A z \in Regs : Contents(g, z) = Contents(reg, z),
           NEW x \in Regs \cup Memory, NEW v \in Int, Store(g, x, v)
    PROVE  /\ Arch!Place(x, v % 256)
           /\ reg' \in [Pairs -> Int]
           /\ \A p \in {"SP", "PC"} : reg'[p] = g[p]
           /\ LOW_REGISTER(reg'["AF"]) = LOW_REGISTER(g["AF"])
<1>0. [y \in Regs |-> Contents(g, y)] = [y \in Regs |-> Contents(reg, y)]
  OBVIOUS
<1>1. CASE x \in Memory
  <2>1. RAM' = [RAM EXCEPT ![Arch!Address(x)] = v % 256] /\ reg' = g
    BY <1>1, SameAddress DEF Store
  <2>2. x \notin Arch!Regs
    BY <1>1, OperandNames, SameRegisters
  <2> QED  BY <1>0, <2>1, <2>2 DEF Arch!Place
<1>2. CASE x \in Regs
  <2> DEFINE h == SetReg(g, x, v)
  <2>1. RAM' = RAM /\ reg' = h
    BY <1>2, OperandNames DEF Store
  <2>2. /\ h \in [Pairs -> Int]
        /\ Contents(h, x) = v % 256
        /\ \A y \in Regs \ {x} : Contents(h, y) = Contents(g, y)
        /\ \A p \in {"SP", "PC"} : h[p] = g[p]
        /\ LOW_REGISTER(h["AF"]) = LOW_REGISTER(g["AF"])
    BY <1>2, RegisterPut, ZenonT(60)
  <2> HIDE DEF h
  <2>3. [y \in Regs |-> Contents(reg', y)]
          = [[y \in Regs |-> Contents(reg, y)] EXCEPT ![x] = v % 256]
    BY <2>1, <2>2, ZenonT(60)
  <2>4. x \in Arch!Regs
    BY <1>2, SameRegisters
  <2>5. Arch!Place(x, v % 256)
    BY <2>1, <2>3, <2>4 DEF Arch!Place
  <2> QED  BY <2>1, <2>2, <2>5
<1> QED  BY <1>1, <1>2

\* What moves PC alone keeps the registers and flags.
LEMMA FetchedContents ==
    ASSUME reg \in [Pairs -> Int]
    PROVE  /\ \A z \in Regs : Contents(Fetched, z) = Contents(reg, z)
           /\ LOW_REGISTER(Fetched["AF"]) = LOW_REGISTER(reg["AF"])
           /\ Fetched["SP"] = reg["SP"]
<1>1. \A z \in Regs : PairOf(z) \in Pairs \ {"PC"}
  BY OperandNames DEF Pairs, RegPairs
<1>2. {"AF", "SP"} \subseteq Pairs \ {"PC"}
  BY DEF Pairs, RegPairs
<1> QED  BY <1>1, <1>2, FetchedKeeps DEF Contents

-----------------------------------------------------------------------------
(* Loads.                                                                  *)

\* What HIGH_REGISTER and LOW_REGISTER return is a byte.
LEMMA HalvesAreBytes ==
    ASSUME NEW x \in Int
    PROVE  /\ HIGH_REGISTER(x) \in Int /\ HIGH_REGISTER(x) % 256 = HIGH_REGISTER(x)
           /\ LOW_REGISTER(x) \in Int /\ LOW_REGISTER(x) % 256 = LOW_REGISTER(x)
           /\ x \div 256 \in Int /\ (x \div 256) % 256 = HIGH_REGISTER(x)
  BY SMTT(60) DEF HIGH_REGISTER, LOW_REGISTER

\* A byte put into an int that is not masked.
LEMMA LateHighPut ==
    ASSUME NEW x \in Int, NEW h \in Int
    PROVE  /\ HIGH_REGISTER(256 * h + LOW_REGISTER(x)) = h % 256
           /\ LOW_REGISTER(256 * h + LOW_REGISTER(x)) = LOW_REGISTER(x)
           /\ 256 * h + LOW_REGISTER(x) \in Int
  BY SMTT(60) DEF HIGH_REGISTER, LOW_REGISTER

\* A byte put below the high part of an int that is not masked.
LEMMA LateLowPut ==
    ASSUME NEW x \in Int, NEW v \in Int, v % 256 = v
    PROVE  /\ HIGH_REGISTER(256 * (x \div 256) + v) = HIGH_REGISTER(x)
           /\ LOW_REGISTER(256 * (x \div 256) + v) = v
           /\ 256 * (x \div 256) + v \in Int
  BY SMTT(60) DEF HIGH_REGISTER, LOW_REGISTER

\* LD of a byte (cpu.h, 0x02 to 0x7f and the prefixed ones): between registers
\* whole ints go along, into a high register with what has run out above the
\* source, into memory a byte; the Z80 has the same in every register.
THEOREM LoadCorrect ==
    ASSUME reg \in [Pairs -> Int], \A a \in DOMAIN RAM : RAM[a] \in Byte,
           ins.d \in Byte, ins.n \in Int,
           ins.x \in Regs \cup Memory, ins.y \in Operands8,
           ins.x \in Memory => ins.y \notin Memory,
           ins.y = "n" => ins.n \in Byte,
           LoadReg \/ Load8
    PROVE  Arch!Load
<1>1. /\ Fetched \in [Pairs -> Int] /\ reg["PC"] \in Int /\ DOMAIN reg = Pairs
      /\ "PC" \in Pairs
      /\ \A z \in Regs : Contents(Fetched, z) = Contents(reg, z)
      /\ LOW_REGISTER(Fetched["AF"]) = LOW_REGISTER(reg["AF"])
      /\ Fetched["SP"] = reg["SP"]
  BY FetchedKeeps, FetchedContents DEF Pairs
<1>2. ASSUME Arch!Place(ins.x, Value8(ins.y)), ins.op = "LD",
             \A p \in {"SP", "PC"} : reg'[p] = Fetched[p],
             LOW_REGISTER(reg'["AF"]) = LOW_REGISTER(reg["AF"]),
             UNCHANGED <<alt, IR, IFF>>
      PROVE  Arch!Load
  <2>1. Value8(ins.y) = Arch!Operand(Arch!ins.y)
    BY SameOperand, SameInstruction
  <2>2. Arch!Rest
    BY <1>1, <1>2, Advances DEF Arch!Rest, Arch!Alternate, Arch!Special
  <2>3. F' = F
    BY <1>2 DEF F
  <2> QED
    BY <1>1, <1>2, <2>1, <2>2, <2>3, SameInstruction DEF Arch!Load, Arch!KeepFlags
<1>3. CASE Load8
  <2> DEFINE v == Value8(ins.y)
  <2>1. ins.op = "LD" /\ Reachable(ins.y) /\ Store(Fetched, ins.x, v)
          /\ UNCHANGED <<alt, IR, IFF>>
    BY <1>3 DEF Load8, NoOthers
  <2>2. v \in Byte
    BY <2>1, OperandByte
  <2> HIDE DEF v
  <2>3. v \in Int /\ v % 256 = v
    BY <2>2, SMT DEF Byte
  <2>4. /\ Arch!Place(ins.x, v % 256)
        /\ \A p \in {"SP", "PC"} : reg'[p] = Fetched[p]
        /\ LOW_REGISTER(reg'["AF"]) = LOW_REGISTER(Fetched["AF"])
    BY <1>1, <2>1, <2>3, StoreCorrect
  <2> QED  BY <1>1, <1>2, <2>1, <2>3, <2>4 DEF v
<1>4. CASE LoadReg
  <2> DEFINE x == ins.x
             y == ins.y
             v == Value8(y)
             source == reg[PairOf(y)]
             target == reg[PairOf(x)]
             high == IF y \in HighRegs THEN source \div 256 ELSE LOW_REGISTER(source)
             new == IF x \in HighRegs THEN 256 * high + LOW_REGISTER(target)
                                      ELSE 256 * (target \div 256) + v
  <2>1. x \in Regs /\ y \in Regs
    <3>1. {x, y} \subseteq MainRegs \/ x = y
      BY <1>4 DEF LoadReg, InPairs
    <3>2. MainRegs \subseteq Regs
      BY DEF Regs
    <3>3. CASE x = y
      BY <3>3, OperandNames DEF Operands8
    <3> QED  BY <3>1, <3>2, <3>3
  <2>2. /\ PairOf(x) \in RegPairs /\ PairOf(y) \in RegPairs
        /\ PairOf(x) \in Pairs /\ PairOf(x) # "PC" /\ source \in Int /\ target \in Int
        /\ Fetched[PairOf(x)] = target
    BY <2>1, OperandNames, FetchedKeeps DEF Pairs, RegPairs
  <2>3. /\ ins.op = "LD" /\ RAM' = RAM /\ UNCHANGED <<alt, IR, IFF>>
        /\ reg' = [Fetched EXCEPT ![PairOf(x)] = new]
    BY <1>1, <1>4, <2>2 DEF LoadReg, Registers, NoOthers
  <2>4. v = IF y \in HighRegs THEN HIGH_REGISTER(source) ELSE LOW_REGISTER(source)
    BY <2>1, OperandNames DEF Value8
  <2>5. v \in Int /\ v % 256 = v /\ high \in Int /\ high % 256 = v
    <3> HIDE DEF v, source, high
    <3>1. high = IF y \in HighRegs THEN source \div 256 ELSE LOW_REGISTER(source)
      BY DEF high
    <3> QED  BY <2>2, <2>4, <3>1, HalvesAreBytes
  <2>6. /\ new \in Int
        /\ IF x \in HighRegs
           THEN HIGH_REGISTER(new) = v /\ LOW_REGISTER(new) = LOW_REGISTER(target)
           ELSE LOW_REGISTER(new) = v /\ HIGH_REGISTER(new) = HIGH_REGISTER(target)
    <3>1. new = IF x \in HighRegs THEN 256 * high + LOW_REGISTER(target)
                                 ELSE 256 * (target \div 256) + v
      OBVIOUS
    <3> HIDE DEF new, high, target, v
    <3>2. target \in Int /\ high \in Int /\ v \in Int /\ v % 256 = v
      BY <2>2, <2>5
    <3>3. /\ HIGH_REGISTER(256 * high + LOW_REGISTER(target)) = high % 256
          /\ LOW_REGISTER(256 * high + LOW_REGISTER(target)) = LOW_REGISTER(target)
          /\ 256 * high + LOW_REGISTER(target) \in Int
      BY <3>2, LateHighPut
    <3>4. /\ HIGH_REGISTER(256 * (target \div 256) + v) = HIGH_REGISTER(target)
          /\ LOW_REGISTER(256 * (target \div 256) + v) = v
          /\ 256 * (target \div 256) + v \in Int
      BY <3>2, LateLowPut, ZenonT(60)
    <3> QED  BY <2>5, <3>1, <3>3, <3>4
  <2> HIDE DEF new, v
  <2>7. /\ reg' \in [Pairs -> Int] /\ reg'[PairOf(x)] = new
        /\ \A q \in Pairs \ {PairOf(x)} : reg'[q] = Fetched[q]
    BY <1>1, <2>2, <2>3, <2>6
  <2>8. /\ \A z \in Regs \ {x} : Contents(reg', z) = Contents(Fetched, z)
        /\ \A p \in {"SP", "PC"} : reg'[p] = Fetched[p]
        /\ LOW_REGISTER(reg'["AF"]) = LOW_REGISTER(Fetched["AF"])
    BY <1>1, <2>1, <2>2, <2>6, <2>7, HalfChanged
  <2>9. Contents(reg', x) = v
    BY <2>6, <2>7 DEF Contents
  <2>10. [z \in Regs |-> Contents(reg', z)]
           = [[z \in Regs |-> Contents(reg, z)] EXCEPT ![x] = v]
    BY <1>1, <2>8, <2>9
  <2>11. Arch!Place(x, v)
    BY <2>1, <2>3, <2>10, SameRegisters DEF Arch!Place
  <2> QED  BY <1>1, <1>2, <2>3, <2>8, <2>11 DEF v
<1> QED  BY <1>3, <1>4

-----------------------------------------------------------------------------
(* Loads of words.                                                         *)

\* Changing one pair or SP is placing the word it is masked to.
LEMMA WordChanged ==
    ASSUME reg \in [Pairs -> Int], reg' \in [Pairs -> Int], NEW p \in WordRegs,
           \A q \in Pairs \ {p, "PC"} : reg'[q] = reg[q]
    PROVE  Arch!PlaceWord(p, ADDRMASK(reg'[p])) /\ F' = F
<1>1. /\ p \in Pairs /\ p # "PC" /\ "SP" \in Pairs /\ p # "AF"
      /\ RegPairs \subseteq Pairs \ {"PC", "SP"} /\ "AF" \in RegPairs
  BY DEF WordRegs, Pairs, RegPairs
<1>2. F' = F
  BY <1>1 DEF F
<1>3. CASE p = "SP"
  <2>1. \A q \in RegPairs : reg'[q] = reg[q]
    BY <1>1, <1>3
  <2>2. UNCHANGED [z \in Regs |-> Contents(reg, z)]
    BY <2>1, RegistersKept
  <2> QED  BY <1>2, <1>3, <2>2 DEF Arch!PlaceWord
<1>4. CASE p # "SP"
  <2>1. p \in RegPairs \ {"AF"} /\ \A q \in RegPairs \ {p} : reg'[q] = reg[q]
    BY <1>1, <1>4 DEF WordRegs
  <2>2. [z \in Regs |-> Contents(reg', z)]
          = Arch!InPair([z \in Regs |-> Contents(reg, z)], p, ADDRMASK(reg'[p]))
    BY <2>1, PairPut
  <2>3. reg'["SP"] = reg["SP"]
    BY <1>1, <1>4
  <2> QED  BY <1>2, <1>4, <2>2, <2>3 DEF Arch!PlaceWord
<1> QED  BY <1>3, <1>4

\* An int put into a pair or SP, the fetch moving PC.
LEMMA WordPlaced ==
    ASSUME reg \in [Pairs -> Int], NEW p \in WordRegs, NEW v \in Int,
           reg' = [Fetched EXCEPT ![p] = v]
    PROVE  /\ Arch!PlaceWord(p, ADDRMASK(v))
           /\ reg'["PC"] = Fetched["PC"]
           /\ F' = F
<1>1. /\ Fetched \in [Pairs -> Int] /\ DOMAIN Fetched = Pairs
      /\ \A q \in Pairs \ {"PC"} : Fetched[q] = reg[q]
  BY FetchedKeeps
<1>2. p \in Pairs /\ p # "PC" /\ "PC" \in Pairs
  BY DEF WordRegs, Pairs, RegPairs
<1>3. /\ reg' \in [Pairs -> Int] /\ reg'[p] = v /\ reg'["PC"] = Fetched["PC"]
      /\ \A q \in Pairs \ {p, "PC"} : reg'[q] = reg[q]
  BY <1>1, <1>2
<1>4. Arch!PlaceWord(p, ADDRMASK(reg'[p])) /\ F' = F
  BY <1>3, WordChanged, Zenon
<1> QED  BY <1>3, <1>4

\* A pair or SP is read as the word it is masked to.
LEMMA WordRead ==
    ASSUME reg \in [Pairs -> Int], NEW p \in WordRegs
    PROVE  Arch!Pair(p) = ADDRMASK(reg[p]) /\ reg[p] \in Int /\ p \in Pairs \ {"PC"}
<1>1. p \in Pairs \ {"PC"}
  BY DEF WordRegs, Pairs, RegPairs
<1>2. CASE p = "SP"  BY <1>1, <1>2 DEF Arch!Pair
<1>3. CASE p # "SP"  BY <1>1, <1>3, PairWord DEF WordRegs
<1> QED  BY <1>2, <1>3

\* Loads of a word (cpu.h, 0x01 to 0x31, 0x22, 0x2a, 0xf9 and the prefixed
\* ones) put the Z80's word into the pair, SP or memory.  The one exception is
\* in the hypotheses: PUT_WORD at the last address, whose second byte does not
\* go to address 0.
THEOREM LoadWordCorrect ==
    ASSUME reg \in [Pairs -> Int], \A a \in DOMAIN RAM : RAM[a] \in Byte,
           ins.n \in Int, ADDRMASK(ins.n) = ins.n,
           \/ ins.x = "(nn)" /\ ins.y \in WordRegs /\ ADDRMASK(ins.n + 1) = ins.n + 1
           \/ ins.x \in WordRegs /\ ins.y \in {"nn", "(nn)"} \cup WordRegs,
           LoadPair \/ LoadPairDirect \/ StorePair \/ LoadSP
    PROVE  Arch!LoadWord
<1>1. /\ reg["PC"] \in Int /\ reg["SP"] \in Int /\ DOMAIN reg = Pairs /\ "PC" \in Pairs
      /\ \A p \in Pairs \ {"PC"} : Fetched[p] = reg[p]
      /\ Fetched["SP"] = reg["SP"]
  BY FetchedKeeps, FetchedContents DEF Pairs
<1>2. /\ "(nn)" \notin WordRegs /\ "nn" \notin WordRegs
      /\ {"HL", "IX", "IY", "SP"} \subseteq WordRegs
  BY DEF WordRegs, RegPairs
<1>3. ASSUME reg'["PC"] = Fetched["PC"], UNCHANGED <<alt, IR, IFF>>, F' = F
      PROVE  Arch!Rest /\ Arch!KeepFlags
  BY <1>1, <1>3, Advances
     DEF Arch!Rest, Arch!KeepFlags, Arch!Alternate, Arch!Special
<1>4. ASSUME NEW v \in Int, ins.op \in {"LDW", "LDW ED"}, ins.x \in WordRegs,
             RAM' = RAM, UNCHANGED <<alt, IR, IFF>>,
             reg' = [Fetched EXCEPT ![ins.x] = v],
             ADDRMASK(v) = CASE ins.y = "nn" -> ins.n
                             [] ins.y = "(nn)" -> Arch!WordAt(ins.n)
                             [] OTHER -> Arch!Pair(ins.y)
      PROVE  Arch!LoadWord
  <2>1. /\ Arch!PlaceWord(ins.x, ADDRMASK(v))
        /\ reg'["PC"] = Fetched["PC"] /\ F' = F
    BY <1>4, WordPlaced
  <2>2. Arch!Rest /\ Arch!KeepFlags
    BY <1>3, <1>4, <2>1
  <2>3. Arch!ins.x # "(nn)"
    BY <1>2, <1>4, SameInstruction
  <2> QED  BY <1>4, <2>1, <2>2, <2>3, SameInstruction DEF Arch!LoadWord
<1>5. CASE LoadPair
  <2>1. /\ ins.op = "LDW" /\ ins.y = "nn" /\ RAM' = RAM /\ UNCHANGED <<alt, IR, IFF>>
        /\ reg' = [Fetched EXCEPT ![ins.x] = ins.n]
    BY <1>5 DEF LoadPair, Registers, NoOthers
  <2>2. ins.x \in WordRegs
    BY <1>2, <2>1
  <2> QED  BY <1>4, <2>1, <2>2
<1>6. CASE LoadPairDirect
  <2> DEFINE low == RAM[ins.n]
             high == RAM[ADDRMASK(ins.n + 1)]
  <2>1. /\ ins.op \in {"LDW", "LDW ED"} /\ ins.y = "(nn)" /\ RAM' = RAM
        /\ UNCHANGED <<alt, IR, IFF>>
        /\ reg' = [Fetched EXCEPT ![ins.x] = GET_WORD(ins.n)]
        /\ ins.n \in DOMAIN RAM /\ ADDRMASK(ins.n + 1) \in DOMAIN RAM
    BY <1>6 DEF LoadPairDirect, Registers, NoOthers, InWindow
  <2>2. ins.x \in WordRegs
    BY <1>2, <2>1
  <2>3. GET_WORD(ins.n) = low + 256 * high
    BY DEF GET_WORD, GET_BYTE
  <2>4. Arch!WordAt(ins.n) = low + 256 * high
    <3> DEFINE k == ins.n + 1
    <3>1. k \in Int
      OBVIOUS
    <3> HIDE DEF k
    <3>2. Arch!Word(k) = ADDRMASK(k)
      BY <3>1, MaskedTwice
    <3> QED  BY <3>2 DEF Arch!WordAt, k
  <2>5. low \in Byte /\ high \in Byte
    BY <2>1
  <2> HIDE DEF low, high
  <2>6. low + 256 * high \in Int /\ ADDRMASK(low + 256 * high) = low + 256 * high
    BY <2>5, SMT DEF ADDRMASK, Byte
  <2> QED  BY <1>4, <2>1, <2>2, <2>3, <2>4, <2>6
<1>7. CASE LoadSP
  <2>1. /\ ins.op = "LDW" /\ ins.x = "SP" /\ ins.y \in {"HL", "IX", "IY"}
        /\ RAM' = RAM /\ UNCHANGED <<alt, IR, IFF>>
        /\ reg' = [Fetched EXCEPT ![ins.x] = reg[ins.y]]
    BY <1>7 DEF LoadSP, Registers, NoOthers
  <2>2. ins.x \in WordRegs /\ ins.y \in WordRegs
    BY <1>2, <2>1
  <2>3. Arch!Pair(ins.y) = ADDRMASK(reg[ins.y]) /\ reg[ins.y] \in Int
    BY <2>2, WordRead
  <2> QED  BY <1>4, <2>1, <2>2, <2>3
<1>8. CASE StorePair
  <2> DEFINE v == reg[ins.y]
             w == ADDRMASK(v)
             a == ins.n
  <2>1. /\ ins.op \in {"LDW", "LDW ED"} /\ ins.x = "(nn)" /\ reg' = Fetched
        /\ UNCHANGED <<alt, IR, IFF>>
        /\ RAM' = [x \in DOMAIN RAM |-> IF x = a THEN v % 256
                                        ELSE IF x = a + 1 THEN HIGH_REGISTER(v)
                                        ELSE RAM[x]]
    BY <1>8 DEF StorePair, NoOthers, PUT_WORD
  <2>2. ins.y \in WordRegs /\ ADDRMASK(a + 1) = a + 1
    BY <1>2, <2>1
  <2>3. Arch!Pair(ins.y) = w /\ v \in Int
    BY <2>2, WordRead
  <2>4. HIGH_REGISTER(v) = w \div 256 /\ v % 256 = w % 256
    BY <2>3, WordOfHalves DEF LOW_REGISTER
  <2>5. Arch!Word(a + 1) = a + 1 /\ a + 1 # a
    <3>1. a + 1 \in Int /\ a + 1 # a
      OBVIOUS
    <3> DEFINE k == a + 1
    <3>2. k \in Int
      BY <3>1
    <3> HIDE DEF k
    <3>3. Arch!Word(k) = ADDRMASK(k)
      BY <3>2, MaskedTwice
    <3> QED  BY <2>2, <3>1, <3>3 DEF k
  <2>6. Arch!WordPut(a, w) = [RAM EXCEPT ![a] = w % 256, ![a + 1] = w \div 256]
    BY <2>5 DEF Arch!WordPut
  <2> HIDE DEF w
  <2>7. RAM' = [RAM EXCEPT ![a] = w % 256, ![a + 1] = w \div 256]
    BY <2>1, <2>4, <2>5, ZenonT(60)
  <2>8. \A p \in RegPairs : reg'[p] = reg[p]
    BY <1>1, <2>1 DEF Pairs, RegPairs
  <2>9. UNCHANGED [z \in Regs |-> Contents(reg, z)] /\ F' = F
    BY <2>8, RegistersKept
  <2>10. reg'["SP"] = reg["SP"]
    BY <1>1, <2>1
  <2> QED
    BY <1>3, <2>1, <2>3, <2>6, <2>7, <2>9, <2>10, SameInstruction DEF Arch!LoadWord
<1> QED  BY <1>5, <1>6, <1>7, <1>8

-----------------------------------------------------------------------------
(* Flags.                                                                  *)

\* A set of flags survives the F byte.
LEMMA FlagsOfFlagByte ==
    ASSUME NEW f \in SUBSET FlagNames
    PROVE  /\ FlagsIn(FlagByte(f)) = f
           /\ FlagByte(f) \in Int /\ FlagByte(f) % 256 = FlagByte(f)
<1> DEFINE d(flag) == IF flag \in f THEN 1 ELSE 0
           w(flag, k) == IF flag \in f THEN k ELSE 0
           b == 128 * d("S") + 64 * d("Z") + 32 * d("Y") + 16 * d("H")
                  + 8 * d("X") + 4 * d("P") + 2 * d("N") + d("C")
<1>1. /\ d("S") \in {0, 1} /\ d("Z") \in {0, 1} /\ d("Y") \in {0, 1} /\ d("H") \in {0, 1}
      /\ d("X") \in {0, 1} /\ d("P") \in {0, 1} /\ d("N") \in {0, 1} /\ d("C") \in {0, 1}
  OBVIOUS
<1>2. FlagByte(f) = b
  <2>1. FlagByte(f) = w("S", 128) + w("Z", 64) + w("Y", 32) + w("H", 16)
                        + w("X", 8) + w("P", 4) + w("N", 2) + w("C", 1)
    BY DEF FlagByte
  <2>2. /\ w("S", 128) = 128 * d("S") /\ w("Z", 64) = 64 * d("Z")
        /\ w("Y", 32) = 32 * d("Y") /\ w("H", 16) = 16 * d("H")
        /\ w("X", 8) = 8 * d("X") /\ w("P", 4) = 4 * d("P")
        /\ w("N", 2) = 2 * d("N") /\ w("C", 1) = d("C")
    OBVIOUS
  <2> HIDE DEF w, d
  <2> QED  BY <2>1, <2>2
<1>3. \A flag \in FlagNames : flag \in f <=> d(flag) = 1
  OBVIOUS
<1> HIDE DEF d
<1>4. b \in Int /\ b % 256 = b
  BY <1>1, SMTT(60)
<1>5. /\ (b \div 128) % 2 = d("S") /\ (b \div 64) % 2 = d("Z")
      /\ (b \div 32) % 2 = d("Y") /\ (b \div 16) % 2 = d("H")
  BY <1>1, SMTT(60)
<1>6. /\ (b \div 8) % 2 = d("X") /\ (b \div 4) % 2 = d("P")
      /\ (b \div 2) % 2 = d("N") /\ (b \div 1) % 2 = d("C")
  BY <1>1, SMTT(60)
<1> HIDE DEF b
<1>7. \A flag : flag \in FlagsIn(b) <=> flag \in FlagNames /\ d(flag) = 1
  <2>1. /\ "S" \in FlagsIn(b) <=> Bit(b, 128)
        /\ "Z" \in FlagsIn(b) <=> Bit(b, 64)
        /\ "Y" \in FlagsIn(b) <=> Bit(b, 32)
        /\ "H" \in FlagsIn(b) <=> Bit(b, 16)
        /\ "X" \in FlagsIn(b) <=> Bit(b, 8)
        /\ "P" \in FlagsIn(b) <=> Bit(b, 4)
        /\ "N" \in FlagsIn(b) <=> Bit(b, 2)
        /\ "C" \in FlagsIn(b) <=> Bit(b, 1)
    BY DEF FlagsIn, When
  <2>2. FlagsIn(b) \subseteq FlagNames
    BY DEF FlagsIn, When, FlagNames
  <2> QED  BY <1>5, <1>6, <2>1, <2>2 DEF Bit, FlagNames
<1> QED  BY <1>2, <1>3, <1>4, <1>7

\* Whatever is in F, its flags are among the eight.
LEMMA FlagsAreNames ==
    \A b : FlagsIn(b) \in SUBSET FlagNames
  BY DEF FlagsIn, When, FlagNames

\* YF and XF may become anything.
LEMMA DocumentedFlags ==
    ASSUME NEW doc, F' \cap Arch!Documented = doc
    PROVE  Arch!FlagsBecome(doc)
<1>1. F' \subseteq FlagNames
  BY FlagsAreNames DEF F
<1>2. FlagNames = Arch!Documented \cup {"Y", "X"}
  BY DEF FlagNames, Arch!Documented
<1>3. F' = doc \cup (F' \cap {"Y", "X"})
  BY <1>1, <1>2
<1>4. F' \cap {"Y", "X"} \in SUBSET {"Y", "X"}
  OBVIOUS
<1> HIDE DEF F
<1> QED  BY <1>3, <1>4 DEF Arch!FlagsBecome

\* A result put into AF is A, masked, and the flags.
LEMMA ResultPut ==
    ASSUME reg \in [Pairs -> Int], NEW acu \in Int, NEW f \in SUBSET FlagNames,
           NEW g \in [Pairs -> Int],
           \A p \in Pairs \ {"AF", "PC"} : g[p] = reg[p], g["PC"] = Fetched["PC"],
           g["AF"] = 256 * acu + FlagByte(f), reg' = g
    PROVE  /\ [z \in Regs |-> Contents(reg, z)]'
                = [[z \in Regs |-> Contents(reg, z)] EXCEPT !["A"] = acu % 256]
           /\ F' = f
           /\ reg'["SP"] = reg["SP"]
           /\ Arch!Advance
<1> DEFINE b == FlagByte(f)
           af == 256 * acu + b
<1>1. b \in Int /\ b % 256 = b /\ FlagsIn(b) = f
  BY FlagsOfFlagByte
<1> HIDE DEF b
<1>2. HIGH_REGISTER(af) = acu % 256 /\ LOW_REGISTER(af) = b
  BY <1>1, SMTT(60) DEF HIGH_REGISTER, LOW_REGISTER
<1> HIDE DEF af
<1>3. reg'["AF"] = af
  BY DEF af, b
<1>4. [z \in Regs |-> Contents(reg', z)]
        = [[z \in Regs |-> Contents(reg, z)] EXCEPT !["A"] = HIGH_REGISTER(reg'["AF"])]
  <2>1. \A q \in RegPairs \ {"AF"} : reg'[q] = reg[q]
    BY DEF Pairs, RegPairs
  <2> QED  BY <2>1, AfPut
<1>5. F' = f
  BY <1>1, <1>2, <1>3 DEF F
<1>6. reg'["SP"] = reg["SP"] /\ reg'["PC"] = Fetched["PC"]
  BY DEF Pairs, RegPairs
<1>7. Arch!Advance
  BY <1>6, FetchedKeeps, Advances DEF Pairs
<1> QED  BY <1>2, <1>3, <1>4, <1>5, <1>6, <1>7

-----------------------------------------------------------------------------
(* ADD to CP.                                                              *)

\* What the code computes for an operation, as the Z80 defines it.
Computes(result, o) ==
    /\ result.acu \in Int /\ result.acu % 256 = o.v
    /\ result.f \in SUBSET FlagNames
    /\ result.f \cap Arch!Documented = o.fl

\* The tables hold flags.
LEMMA FlagSets ==
    ASSUME NEW i \in Int, NEW k
    PROVE  /\ SZYX(i) \in SUBSET FlagNames /\ YX(i) \in SUBSET FlagNames
           /\ cbitsTable(k) \in SUBSET FlagNames /\ SET_PV(k) \in SUBSET FlagNames
           /\ parityTable(k) \in SUBSET FlagNames
  BY DEF SZYX, SYX, YX, When, cbitsTable, SET_PV, parityTable, FlagNames

\* Code and Z80 agree on ADD and ADC.
LEMMA AddComputes ==
    ASSUME NEW a \in Byte, NEW b \in Byte, NEW k \in {0, 1}
    PROVE  Computes(Add8(a, b, k), Arch!Sum(a, b, k))
<1> DEFINE s == a + b + k
           cb == Cbits(a, b, s)
<1>1. s \in Int /\ s % 256 \in Int /\ (s % 256) % 256 = s % 256
  BY SMT DEF Byte
<1>2. Add8(a, b, k) = [acu |-> s % 256, f |-> SZYX(s) \cup (cbitsTable(cb) \cup SET_PV(cb))]
  BY DEF Add8, With, addTable, Result
<1>3. Arch!Sum(a, b, k).v = s % 256
  BY DEF Arch!Sum, Arch!Of
<1> HIDE DEF s, cb
<1>4. SZYX(s) \cup (cbitsTable(cb) \cup SET_PV(cb)) \in SUBSET FlagNames
  BY <1>1, FlagSets
<1> QED  BY <1>1, <1>2, <1>3, <1>4, AddCorrect DEF Computes

\* Code and Z80 agree on SUB and SBC.
LEMMA SubComputes ==
    ASSUME NEW a \in Byte, NEW b \in Byte, NEW k \in {0, 1}
    PROVE  Computes(Sub8(a, b, k), Arch!Difference(a, b, k))
<1> DEFINE s == a - b - k
           t == s % 256
           cb == Cbits(a, b, s)
<1>1. s \in Int /\ t \in Int /\ t % 256 = t
  BY SMT DEF Byte
<1>2. Sub8(a, b, k) = [acu |-> t % 256,
                       f |-> (SZYX(t) \cup {"N"}) \cup (cbitsTable(cb) \cup SET_PV(cb))]
  BY DEF Sub8, With, subTable, Result
<1>3. Arch!Difference(a, b, k).v = t
  BY DEF Arch!Difference, Arch!Of
<1> HIDE DEF s, t, cb
<1>4. (SZYX(t) \cup {"N"}) \cup (cbitsTable(cb) \cup SET_PV(cb)) \in SUBSET FlagNames
  <2>1. "N" \in FlagNames
    BY DEF FlagNames
  <2> QED  BY <1>1, <2>1, FlagSets
<1> QED  BY <1>1, <1>2, <1>3, <1>4, SubCorrect DEF Computes

\* CP is SUB that keeps A, with YF and XF from the operand (cpu.h, 0xb8).
LEMMA CompareComputes ==
    ASSUME NEW a \in Byte, NEW b \in Byte
    PROVE  Computes(Cp8(a, b), Arch!Of(a, Arch!Difference(a, b, 0).fl))
<1> DEFINE s == a - b
           t == s % 256
           cb == Cbits(a, b, s)
           sz == When("S", Bit(t, 128)) \cup When("Z", t = 0)
           hpc == cbitsTable(cb) \cup SET_PV(cb)
           flags == sz \cup YX(b) \cup SET_PV(cb) \cup (cbitsTable(cb) \cup {"N"})
           sub == (SZYX(t) \cup {"N"}) \cup hpc
<1>1. /\ s \in Int /\ t \in Int /\ t % 256 = t /\ s - 0 = s
      /\ a \in Int /\ b \in Int /\ a % 256 = a
  BY SMT DEF Byte
<1>2. Sub8(a, b, 0) = [acu |-> t % 256, f |-> sub]
  BY <1>1 DEF Sub8, With, subTable, Result
<1>3. Cp8(a, b) = [acu |-> a, f |-> flags]
  BY DEF Cp8, cpTable, cbits2Table, Result
<1>4. sub \cap Arch!Documented = Arch!Difference(a, b, 0).fl
  BY <1>2, SubCorrect
<1>5. SZYX(t) = YX(t) \cup sz
  BY <1>1 DEF SZYX, SYX
<1> HIDE DEF s, t, cb
<1>6. flags \in SUBSET FlagNames
  <2>1. "N" \in FlagNames /\ sz \in SUBSET FlagNames
    BY DEF FlagNames, When
  <2> HIDE DEF sz
  <2> QED  BY <1>1, <2>1, FlagSets
<1>7. flags \cap Arch!Documented = sub \cap Arch!Documented
  <2>1. YX(t) \cap Arch!Documented = {} /\ YX(b) \cap Arch!Documented = {}
    BY <1>1, UndocumentedApart
  <2> HIDE DEF sz
  <2> QED  BY <1>5, <2>1
<1> HIDE DEF flags, sub
<1> QED  BY <1>1, <1>3, <1>4, <1>6, <1>7 DEF Computes, Arch!Of

\* The parity of a byte is that of its ones.
LEMMA SameParity ==
    ASSUME NEW i \in Int
    PROVE  parityTable(i) = Arch!Parity(i)
<1> DEFINE d(w) == (i \div w) % 2
<1>1. EvenParity(i)
        <=> (d(128) + d(64) + d(32) + d(16) + d(8) + d(4) + d(2) + d(1)) % 2 = 0
  BY DEF EvenParity
<1>2. Arch!Ones(i) = d(1) + d(2) + d(4) + d(8) + d(16) + d(32) + d(64) + d(128)
  BY DEF Arch!Ones
<1>3. /\ d(1) \in Int /\ d(2) \in Int /\ d(4) \in Int /\ d(8) \in Int
      /\ d(16) \in Int /\ d(32) \in Int /\ d(64) \in Int /\ d(128) \in Int
  BY SMTT(30)
<1> HIDE DEF d
<1>4. d(128) + d(64) + d(32) + d(16) + d(8) + d(4) + d(2) + d(1)
        = d(1) + d(2) + d(4) + d(8) + d(16) + d(32) + d(64) + d(128)
  BY <1>3
<1>5. EvenParity(i) <=> Arch!Ones(i) % 2 = 0
  BY <1>1, <1>2, <1>4
<1> QED  BY <1>5 DEF parityTable, Arch!Parity, When, Arch!Set

\* The flags of AND, XOR and OR.
LEMMA LogicFlags ==
    ASSUME NEW v \in Byte, NEW extra \in SUBSET Arch!Documented,
           NEW result, result.acu = v, result.f = SZYX(v) \cup extra \cup parityTable(v)
    PROVE  Computes(result, Arch!Of(v, Arch!SZ(v) \cup Arch!Parity(v) \cup extra))
<1>1. v \in Int /\ v % 256 = v
  BY SMT DEF Byte
<1>2. SZYX(v) = YX(v) \cup Arch!SZ(v)
  BY <1>1, SignAndZero
<1>3. parityTable(v) = Arch!Parity(v)
  BY <1>1, SameParity
<1>4. YX(v) \cap Arch!Documented = {}
  BY <1>1, UndocumentedApart
<1>5. Arch!SZ(v) \cup Arch!Parity(v) \subseteq Arch!Documented
  BY DEF Arch!SZ, Arch!Parity, Arch!Set, Arch!Documented
<1>6. Arch!Documented \subseteq FlagNames
  BY DEF Arch!Documented, FlagNames
<1>7. result.f \in SUBSET FlagNames
  BY <1>1, <1>6, FlagSets
<1>8. result.f \cap Arch!Documented = Arch!SZ(v) \cup Arch!Parity(v) \cup extra
  BY <1>2, <1>3, <1>4, <1>5
<1> QED  BY <1>1, <1>7, <1>8 DEF Computes, Arch!Of

\* The code's bitwise operations, bit by bit.
LEMMA BitValues ==
    \A p, q \in {0, 1} :
        /\ p * q = IF p = 1 /\ q = 1 THEN 1 ELSE 0
        /\ p + q - p * q = IF p = 1 \/ q = 1 THEN 1 ELSE 0
        /\ (p + q) % 2 = IF (p = 1) # (q = 1) THEN 1 ELSE 0
  BY SMT

\* AND, OR and XOR are the Z80's, bit by bit.
LEMMA SameBits ==
    ASSUME NEW a \in Byte, NEW b \in Byte
    PROVE  /\ And(a, b) \in Byte
           /\ And(a, b) = Arch!Bitwise(a, b, LAMBDA p, q : p * q)
           /\ Or(a, b) \in Byte
           /\ Or(a, b) = Arch!Bitwise(a, b, LAMBDA p, q : p + q - p * q)
           /\ Xor(a, b) \in Byte
           /\ Xor(a, b) = Arch!Bitwise(a, b, LAMBDA p, q : (p + q) % 2)
<1> DEFINE x(w) == (a \div w) % 2
           y(w) == (b \div w) % 2
           weights == {1, 2, 4, 8, 16, 32, 64, 128}
           total(d(_)) == d(128) + d(64) + d(32) + d(16) + d(8) + d(4) + d(2) + d(1)
           and(w) == IF Bit(a, w) /\ Bit(b, w) THEN w ELSE 0
           or(w) == IF Bit(a, w) \/ Bit(b, w) THEN w ELSE 0
           xor(w) == IF Bit(a, w) # Bit(b, w) THEN w ELSE 0
<1>1. \A w \in weights : x(w) \in {0, 1} /\ y(w) \in {0, 1}
  BY SMTT(30) DEF Byte
<1>2. And(a, b) = total(and) /\ Or(a, b) = total(or) /\ Xor(a, b) = total(xor)
  BY DEF And, Or, Xor, OfBits
<1>3. \A w \in weights : /\ and(w) = w * (x(w) * y(w))
                         /\ or(w) = w * (x(w) + y(w) - x(w) * y(w))
                         /\ xor(w) = w * ((x(w) + y(w)) % 2)
                         /\ and(w) \in {0, w} /\ or(w) \in {0, w} /\ xor(w) \in {0, w}
  <2> TAKE w \in weights
  <2>1. /\ and(w) = IF x(w) = 1 /\ y(w) = 1 THEN w ELSE 0
        /\ or(w) = IF x(w) = 1 \/ y(w) = 1 THEN w ELSE 0
        /\ xor(w) = IF (x(w) = 1) # (y(w) = 1) THEN w ELSE 0
    BY DEF Bit
  <2>2. w \in Int /\ w * 1 = w /\ w * 0 = 0
    BY SMT
  <2>3. x(w) \in {0, 1} /\ y(w) \in {0, 1}
    BY <1>1
  <2>4. /\ x(w) * y(w) = IF x(w) = 1 /\ y(w) = 1 THEN 1 ELSE 0
        /\ x(w) + y(w) - x(w) * y(w) = IF x(w) = 1 \/ y(w) = 1 THEN 1 ELSE 0
        /\ (x(w) + y(w)) % 2 = IF (x(w) = 1) # (y(w) = 1) THEN 1 ELSE 0
    BY <2>3, BitValues
  <2> HIDE DEF and, or, xor, x, y
  <2> QED  BY <2>1, <2>2, <2>4
<1> HIDE DEF and, or, xor
<1>4. /\ Arch!Bitwise(a, b, LAMBDA p, q : p * q) = total(and)
      /\ Arch!Bitwise(a, b, LAMBDA p, q : p + q - p * q) = total(or)
      /\ Arch!Bitwise(a, b, LAMBDA p, q : (p + q) % 2) = total(xor)
  <2> DEFINE up(d(_)) == d(1) + d(2) + d(4) + d(8) + d(16) + d(32) + d(64) + d(128)
             land(w) == w * (x(w) * y(w))
             lor(w) == w * (x(w) + y(w) - x(w) * y(w))
             lxor(w) == w * ((x(w) + y(w)) % 2)
  <2>1. /\ Arch!Bitwise(a, b, LAMBDA p, q : p * q) = up(land)
        /\ Arch!Bitwise(a, b, LAMBDA p, q : p + q - p * q) = up(lor)
        /\ Arch!Bitwise(a, b, LAMBDA p, q : (p + q) % 2) = up(lxor)
    BY DEF Arch!Bitwise
  <2>2. \A w \in weights : /\ land(w) = and(w) /\ lor(w) = or(w) /\ lxor(w) = xor(w)
                           /\ and(w) \in Int /\ or(w) \in Int /\ xor(w) \in Int
    BY <1>3
  <2> HIDE DEF land, lor, lxor
  <2>3. up(land) = total(and)
    <3>1. /\ land(1) = and(1) /\ land(2) = and(2) /\ land(4) = and(4) /\ land(8) = and(8)
          /\ land(16) = and(16) /\ land(32) = and(32) /\ land(64) = and(64) /\ land(128) = and(128)
      BY <2>2
    <3>2. /\ and(1) \in {0, 1} /\ and(2) \in {0, 2} /\ and(4) \in {0, 4} /\ and(8) \in {0, 8}
          /\ and(16) \in {0, 16} /\ and(32) \in {0, 32} /\ and(64) \in {0, 64} /\ and(128) \in {0, 128}
      BY <1>3
    <3> QED  BY <3>1, <3>2
  <2>4. up(lor) = total(or)
    <3>1. /\ lor(1) = or(1) /\ lor(2) = or(2) /\ lor(4) = or(4) /\ lor(8) = or(8)
          /\ lor(16) = or(16) /\ lor(32) = or(32) /\ lor(64) = or(64) /\ lor(128) = or(128)
      BY <2>2
    <3>2. /\ or(1) \in {0, 1} /\ or(2) \in {0, 2} /\ or(4) \in {0, 4} /\ or(8) \in {0, 8}
          /\ or(16) \in {0, 16} /\ or(32) \in {0, 32} /\ or(64) \in {0, 64} /\ or(128) \in {0, 128}
      BY <1>3
    <3> QED  BY <3>1, <3>2
  <2>5. up(lxor) = total(xor)
    <3>1. /\ lxor(1) = xor(1) /\ lxor(2) = xor(2) /\ lxor(4) = xor(4) /\ lxor(8) = xor(8)
          /\ lxor(16) = xor(16) /\ lxor(32) = xor(32) /\ lxor(64) = xor(64) /\ lxor(128) = xor(128)
      BY <2>2
    <3>2. /\ xor(1) \in {0, 1} /\ xor(2) \in {0, 2} /\ xor(4) \in {0, 4} /\ xor(8) \in {0, 8}
          /\ xor(16) \in {0, 16} /\ xor(32) \in {0, 32} /\ xor(64) \in {0, 64} /\ xor(128) \in {0, 128}
      BY <1>3
    <3> QED  BY <3>1, <3>2
  <2> QED  BY <2>1, <2>3, <2>4, <2>5
<1>5. total(and) \in Byte
  <2>1. /\ and(1) \in {0, 1} /\ and(2) \in {0, 2} /\ and(4) \in {0, 4} /\ and(8) \in {0, 8}
        /\ and(16) \in {0, 16} /\ and(32) \in {0, 32} /\ and(64) \in {0, 64} /\ and(128) \in {0, 128}
    BY <1>3
  <2> QED  BY <2>1, SMTT(60) DEF Byte
<1>6. total(or) \in Byte
  <2>1. /\ or(1) \in {0, 1} /\ or(2) \in {0, 2} /\ or(4) \in {0, 4} /\ or(8) \in {0, 8}
        /\ or(16) \in {0, 16} /\ or(32) \in {0, 32} /\ or(64) \in {0, 64} /\ or(128) \in {0, 128}
    BY <1>3
  <2> QED  BY <2>1, SMTT(60) DEF Byte
<1>7. total(xor) \in Byte
  <2>1. /\ xor(1) \in {0, 1} /\ xor(2) \in {0, 2} /\ xor(4) \in {0, 4} /\ xor(8) \in {0, 8}
        /\ xor(16) \in {0, 16} /\ xor(32) \in {0, 32} /\ xor(64) \in {0, 64} /\ xor(128) \in {0, 128}
    BY <1>3
  <2> QED  BY <2>1, SMTT(60) DEF Byte
<1> QED  BY <1>2, <1>4, <1>5, <1>6, <1>7, ZenonT(60)

\* The eight operations on A and another operand.
LEMMA OperationComputes ==
    ASSUME NEW op \in ArithOps, NEW a \in Byte, NEW b \in Byte, NEW k \in {0, 1}
    PROVE  Computes(Arith8(op, a, b, k), Arch!Computed(op, a, b, k))
<1>1. CASE op = "ADD"
  <2>1. Arith8(op, a, b, k) = Add8(a, b, 0) /\ Arch!Computed(op, a, b, k) = Arch!Sum(a, b, 0)
    BY <1>1 DEF Arith8, Arch!Computed
  <2> QED  BY <2>1, AddComputes
<1>2. CASE op = "ADC"
  <2>1. Arith8(op, a, b, k) = Add8(a, b, k) /\ Arch!Computed(op, a, b, k) = Arch!Sum(a, b, k)
    BY <1>2 DEF Arith8, Arch!Computed
  <2> QED  BY <2>1, AddComputes
<1>3. CASE op = "SUB"
  <2>1. /\ Arith8(op, a, b, k) = Sub8(a, b, 0)
        /\ Arch!Computed(op, a, b, k) = Arch!Difference(a, b, 0)
    BY <1>3 DEF Arith8, Arch!Computed
  <2> QED  BY <2>1, SubComputes
<1>4. CASE op = "SBC"
  <2>1. /\ Arith8(op, a, b, k) = Sub8(a, b, k)
        /\ Arch!Computed(op, a, b, k) = Arch!Difference(a, b, k)
    BY <1>4 DEF Arith8, Arch!Computed
  <2> QED  BY <2>1, SubComputes
<1>5. CASE op = "CP"
  <2>1. /\ Arith8(op, a, b, k) = Cp8(a, b)
        /\ Arch!Computed(op, a, b, k) = Arch!Of(a, Arch!Difference(a, b, 0).fl)
    BY <1>5 DEF Arith8, Arch!Computed
  <2> QED  BY <2>1, CompareComputes
<1>6. CASE op = "AND"
  <2> DEFINE v == And(a, b)
  <2>1. v \in Byte /\ v = Arch!Bitwise(a, b, LAMBDA p, q : p * q)
    BY SameBits
  <2>2. Arch!Computed(op, a, b, k) = Arch!Of(v, Arch!SZ(v) \cup Arch!Parity(v) \cup {"H"})
    BY <1>6, <2>1 DEF Arch!Computed
  <2>3. Arith8(op, a, b, k) = [acu |-> v, f |-> SZYX(v) \cup {"H"} \cup parityTable(v)]
    BY <1>6 DEF Arith8, andTable, Result
  <2> HIDE DEF v
  <2>4. {"H"} \in SUBSET Arch!Documented
    BY DEF Arch!Documented
  <2> QED  BY <2>1, <2>2, <2>3, <2>4, LogicFlags
<1>7. CASE op = "XOR"
  <2> DEFINE v == Xor(a, b)
  <2>1. v \in Byte /\ v = Arch!Bitwise(a, b, LAMBDA p, q : (p + q) % 2)
    BY SameBits
  <2>2. Arch!Computed(op, a, b, k) = Arch!Of(v, Arch!SZ(v) \cup Arch!Parity(v) \cup {})
    BY <1>7, <2>1 DEF Arch!Computed
  <2>3. Arith8(op, a, b, k) = [acu |-> v, f |-> SZYX(v) \cup {} \cup parityTable(v)]
    BY <1>7 DEF Arith8, xororTable, Result
  <2> HIDE DEF v
  <2> QED  BY <2>1, <2>2, <2>3, LogicFlags
<1>8. CASE op = "OR"
  <2> DEFINE v == Or(a, b)
  <2>1. v \in Byte /\ v = Arch!Bitwise(a, b, LAMBDA p, q : p + q - p * q)
    BY SameBits
  <2>2. Arch!Computed(op, a, b, k) = Arch!Of(v, Arch!SZ(v) \cup Arch!Parity(v) \cup {})
    BY <1>8, <2>1 DEF Arch!Computed
  <2>3. Arith8(op, a, b, k) = [acu |-> v, f |-> SZYX(v) \cup {} \cup parityTable(v)]
    BY <1>8 DEF Arith8, xororTable, Result
  <2> HIDE DEF v
  <2> QED  BY <2>1, <2>2, <2>3, LogicFlags
<1> QED  BY <1>1, <1>2, <1>3, <1>4, <1>5, <1>6, <1>7, <1>8 DEF ArithOps

\* An operand that is A itself: the bits of a ^ a ^ s are those of s.
LEMMA OwnCarries ==
    ASSUME NEW a \in Int, NEW s \in Int
    PROVE  /\ cbitsTable(Cbits(a, a, s)) = cbitsTable(s)
           /\ SET_PV(Cbits(a, a, s)) = SET_PV(s)
<1>1. \A w \in {16, 128, 256} : Bit(Cbits(a, a, s), w) <=> Bit(s, w)
  <2>1. \A w \in {16, 128, 256} :
           Bit(Cbits(a, a, s), w) <=> ((Bit(a, w) # Bit(a, w)) # Bit(s, w))
    BY CbitsBits
  <2> QED  BY <2>1 DEF Bit
<1>2. /\ Bit(Cbits(a, a, s), 16) <=> Bit(s, 16)
      /\ Bit(Cbits(a, a, s), 128) <=> Bit(s, 128)
      /\ Bit(Cbits(a, a, s), 256) <=> Bit(s, 256)
  BY <1>1
<1>3. cbitsTable(Cbits(a, a, s)) = cbitsTable(s)
  <2>1. When("H", Bit(Cbits(a, a, s), 16)) = When("H", Bit(s, 16))
    <3>1. CASE Bit(s, 16)
      BY <1>2, <3>1 DEF When
    <3>2. CASE ~Bit(s, 16)
      BY <1>2, <3>2 DEF When
    <3> QED  BY <3>1, <3>2
  <2>2. When("C", Bit(Cbits(a, a, s), 256)) = When("C", Bit(s, 256))
    <3>1. CASE Bit(s, 256)
      BY <1>2, <3>1 DEF When
    <3>2. CASE ~Bit(s, 256)
      BY <1>2, <3>2 DEF When
    <3> QED  BY <3>1, <3>2
  <2> QED  BY <2>1, <2>2 DEF cbitsTable
<1>4. SET_PV(Cbits(a, a, s)) = SET_PV(s)
  <2>1. (Bit(Cbits(a, a, s), 256) # Bit(Cbits(a, a, s), 128)) <=> (Bit(s, 128) # Bit(s, 256))
    BY <1>2, BitsDiffer DEF Bit
  <2>2. (Bit(s, 256) # Bit(s, 128)) <=> (Bit(s, 128) # Bit(s, 256))
    OBVIOUS
  <2>3. CASE Bit(s, 256) # Bit(s, 128)
    BY <2>1, <2>2, <2>3 DEF SET_PV, When
  <2>4. CASE ~(Bit(s, 256) # Bit(s, 128))
    BY <2>1, <2>2, <2>4 DEF SET_PV, When
  <2> QED  BY <2>3, <2>4
<1> QED  BY <1>3, <1>4

\* A - A has no borrow and no overflow.
LEMMA OwnDifference ==
    ASSUME NEW a \in Byte
    PROVE  Arch!Difference(a, a, 0) = Arch!Of(0, {"Z", "N"})
<1>1. /\ (a - a - 0) % 256 = 0 /\ ~((a % 16) - (a % 16) - 0 < 0) /\ ~(a - a - 0 < 0)
      /\ Arch!Signed(a) - Arch!Signed(a) - 0 \in -128 .. 127
  BY SMT DEF Byte, Arch!Signed
<1>2. Arch!SZ(0) = {"Z"}
  BY DEF Arch!SZ, Arch!Set
<1> QED  BY <1>1, <1>2 DEF Arch!Difference, Arch!Of, Arch!Set

\* The bits of A and A, A or A, and A xor A.
LEMMA OwnBits ==
    ASSUME NEW a \in Byte
    PROVE  And(a, a) = a /\ Or(a, a) = a /\ Xor(a, a) = 0
<1> DEFINE d(w) == (a \div w) % 2
           v(w) == IF Bit(a, w) THEN w ELSE 0
           zero(w) == IF Bit(a, w) # Bit(a, w) THEN w ELSE 0
<1>1. /\ d(128) \in {0, 1} /\ d(64) \in {0, 1} /\ d(32) \in {0, 1} /\ d(16) \in {0, 1}
      /\ d(8) \in {0, 1} /\ d(4) \in {0, 1} /\ d(2) \in {0, 1} /\ d(1) \in {0, 1}
  BY SMTT(30) DEF Byte
<1>2. a = 128 * d(128) + 64 * d(64) + 32 * d(32) + 16 * d(16)
            + 8 * d(8) + 4 * d(4) + 2 * d(2) + d(1)
  BY SMTT(60) DEF Byte
<1>3. \A w \in {1, 2, 4, 8, 16, 32, 64, 128} : v(w) = IF d(w) = 1 THEN w ELSE 0
  BY DEF Bit
<1>4. /\ And(a, a) = v(128) + v(64) + v(32) + v(16) + v(8) + v(4) + v(2) + v(1)
      /\ Or(a, a) = v(128) + v(64) + v(32) + v(16) + v(8) + v(4) + v(2) + v(1)
  BY DEF And, Or, OfBits
<1>5. Xor(a, a) = zero(128) + zero(64) + zero(32) + zero(16) + zero(8) + zero(4)
                    + zero(2) + zero(1)
  BY DEF Xor, OfBits
<1>6. \A w : zero(w) = 0
  BY DEF Bit
<1> HIDE DEF v, zero
<1>7. Xor(a, a) = 0
  BY <1>5, <1>6
<1> HIDE DEF d
<1>8. /\ v(128) = 128 * d(128) /\ v(64) = 64 * d(64) /\ v(32) = 32 * d(32)
      /\ v(16) = 16 * d(16) /\ v(8) = 8 * d(8) /\ v(4) = 4 * d(4)
      /\ v(2) = 2 * d(2) /\ v(1) = d(1)
  BY <1>1, <1>3
<1> QED  BY <1>1, <1>2, <1>4, <1>7, <1>8

\* The shortcuts of the eight operations on A and A (cpu.h, 0x87 to 0xbf).
LEMMA SelfComputes ==
    ASSUME NEW op \in ArithOps, NEW a \in Byte, NEW k \in {0, 1}
    PROVE  Computes(Arith8Self(op, a, k), Arch!Computed(op, a, a, k))
<1> DEFINE Twice(s) == [acu |-> s % 256,
                        f |-> (cbitsTable(s) \cup SZYX(s)) \cup SET_PV(s)]
<1>0. a \in Int /\ 0 \in {0, 1}
  BY DEF Byte
<1>1. ASSUME NEW j \in {0, 1}
      PROVE  Computes(Twice(2 * a + j), Arch!Sum(a, a, j))
  <2> DEFINE s == a + a + j
  <2>1. s \in Int /\ 2 * a + j = s
    BY <1>0
  <2>2. Add8(a, a, j) = [acu |-> s % 256,
                         f |-> SZYX(s) \cup (cbitsTable(Cbits(a, a, s)) \cup SET_PV(Cbits(a, a, s)))]
    BY DEF Add8, With, addTable, Result
  <2> HIDE DEF s
  <2>3. Add8(a, a, j) = Twice(s)
    BY <1>0, <2>1, <2>2, OwnCarries, ZenonT(60)
  <2> HIDE DEF Twice
  <2> QED  BY <2>1, <2>3, AddComputes
<1>2. CASE op = "ADD"
  <2>1. /\ Arith8Self(op, a, k) = Twice(2 * a)
        /\ Arch!Computed(op, a, a, k) = Arch!Sum(a, a, 0)
    BY <1>2 DEF Arith8Self, Arch!Computed, cbitsDup8Table, Result
  <2>2. 2 * a + 0 = 2 * a
    BY <1>0
  <2> HIDE DEF Twice
  <2> QED  BY <1>0, <1>1, <2>1, <2>2
<1>3. CASE op = "ADC"
  <2>1. /\ Arith8Self(op, a, k) = Twice(2 * a + k)
        /\ Arch!Computed(op, a, a, k) = Arch!Sum(a, a, k)
    BY <1>3 DEF Arith8Self, Arch!Computed, cbitsDup8Table, Result
  <2> HIDE DEF Twice
  <2> QED  BY <1>1, <2>1
<1>4. CASE op = "SUB" \/ op = "CP"
  <2>1. Arch!Difference(a, a, 0) = Arch!Of(0, {"Z", "N"})
    BY OwnDifference
  <2>2. {"Z", "N"} \subseteq FlagNames /\ {"Z", "N"} \subseteq Arch!Documented
    BY DEF FlagNames, Arch!Documented
  <2>3. 0 % 256 = 0 /\ a % 256 = a
    BY SMT DEF Byte
  <2>4. CASE op = "SUB"
    <3>1. Arith8Self(op, a, k) = [acu |-> 0, f |-> {"Z", "N"}]
      BY <2>4 DEF Arith8Self, Result
    <3>2. Arch!Computed(op, a, a, k) = [v |-> 0, fl |-> {"Z", "N"}]
      BY <2>1, <2>4 DEF Arch!Computed, Arch!Of
    <3> QED  BY <2>2, <2>3, <3>1, <3>2 DEF Computes
  <2>5. CASE op = "CP"
    <3>1. Arith8Self(op, a, k) = [acu |-> a, f |-> YX(a) \cup {"Z", "N"}]
      BY <2>5 DEF Arith8Self, Result
    <3>2. Arch!Computed(op, a, a, k) = [v |-> a, fl |-> {"Z", "N"}]
      <4>1. Arch!Computed(op, a, a, k) = Arch!Of(a, Arch!Difference(a, a, 0).fl)
        BY <2>5 DEF Arch!Computed
      <4>2. Arch!Difference(a, a, 0).fl = {"Z", "N"}
        BY <2>1 DEF Arch!Of
      <4> QED  BY <4>1, <4>2 DEF Arch!Of
    <3>3. YX(a) \in SUBSET FlagNames /\ YX(a) \cap Arch!Documented = {}
      BY <1>0, FlagSets, UndocumentedApart
    <3> QED  BY <1>0, <2>2, <2>3, <3>1, <3>2, <3>3 DEF Computes
  <2> QED  BY <1>4, <2>4, <2>5
<1>5. CASE op = "SBC"
  <2> DEFINE s == a - a - k
             t == s % 256
  <2>1. s \in Int /\ s = -k /\ t \in Int
    BY <1>0, SMT
  <2>2. Arith8Self(op, a, k)
          = [acu |-> t % 256, f |-> (SZYX(t) \cup {"N"}) \cup (cbitsTable(s) \cup SET_PV(s))]
    BY <1>5, <2>1 DEF Arith8Self, With, subTable, Result
  <2>3. Sub8(a, a, k)
          = [acu |-> t % 256,
             f |-> (SZYX(t) \cup {"N"}) \cup (cbitsTable(Cbits(a, a, s)) \cup SET_PV(Cbits(a, a, s)))]
    BY DEF Sub8, With, subTable, Result
  <2> HIDE DEF s, t
  <2>4. Arith8Self(op, a, k) = Sub8(a, a, k)
    BY <1>0, <2>1, <2>2, <2>3, OwnCarries, ZenonT(60)
  <2>5. Arch!Computed(op, a, a, k) = Arch!Difference(a, a, k)
    BY <1>5 DEF Arch!Computed
  <2> QED  BY <2>4, <2>5, SubComputes
<1>6. CASE op \in {"AND", "OR"}
  <2>1. Arith8(op, a, a, k) = IF op = "AND" THEN andTable(And(a, a)) ELSE xororTable(Or(a, a))
    BY <1>6 DEF Arith8
  <2>2. Arith8Self(op, a, k) = IF op = "AND" THEN andTable(a) ELSE xororTable(a)
    BY <1>6 DEF Arith8Self
  <2> QED  BY <2>1, <2>2, OwnBits, OperationComputes
<1>7. CASE op = "XOR"
  <2>1. Arith8(op, a, a, k) = xororTable(Xor(a, a)) /\ Arith8Self(op, a, k) = Result(0, {"Z", "P"})
    BY <1>7 DEF Arith8, Arith8Self
  <2>2. xororTable(0) = Result(0, {"Z", "P"})
    <3>1. SZYX(0) = {"Z"}
      <4>1. 0 % 256 = 0 /\ ~Bit(0, 32) /\ ~Bit(0, 8) /\ ~Bit(0, 128)
        BY SMT DEF Bit
      <4> QED  BY <4>1 DEF SZYX, SYX, YX, When
    <3>2. parityTable(0) = {"P"}
      <4>1. EvenParity(0)
        BY SMT DEF EvenParity
      <4> QED  BY <4>1 DEF parityTable, When
    <3> QED  BY <3>1, <3>2 DEF xororTable, Result
  <2> QED  BY <2>1, <2>2, OwnBits, OperationComputes
<1> QED  BY <1>2, <1>3, <1>4, <1>5, <1>6, <1>7 DEF ArithOps

\* A and the flags set from a result, with what has run out above A's byte.
LEMMA Accumulated ==
    ASSUME reg \in [Pairs -> Int], NEW result, NEW o, Computes(result, o),
           Registers(SetAF(Fetched, result)), NoOthers
    PROVE  Arch!Accumulate(o) /\ UNCHANGED ADDRMASK(reg["SP"]) /\ Arch!Rest
<1> DEFINE acu == result.acu
           f == result.f
           g == SetAF(Fetched, result)
           af == 256 * acu + FlagByte(f)
<1>1. /\ acu \in Int /\ acu % 256 = o.v
      /\ f \in SUBSET FlagNames /\ f \cap Arch!Documented = o.fl
  BY DEF Computes
<1>2. FlagByte(f) \in Int
  BY <1>1, FlagsOfFlagByte
<1>3. af \in Int
  <2> HIDE DEF acu, f
  <2> QED  BY <1>1, <1>2
<1>4. /\ Fetched \in [Pairs -> Int] /\ "AF" \in Pairs
      /\ \A p \in Pairs \ {"PC"} : Fetched[p] = reg[p]
  BY FetchedKeeps DEF Pairs, RegPairs
<1>5. g = [Fetched EXCEPT !["AF"] = af]
  BY <1>4 DEF SetAF
<1> HIDE DEF af
<1>6. /\ g \in [Pairs -> Int] /\ g["AF"] = af
      /\ \A p \in Pairs \ {"AF", "PC"} : g[p] = reg[p]
      /\ g["PC"] = Fetched["PC"]
  BY <1>3, <1>4, <1>5 DEF Pairs
<1>7. reg' = g /\ RAM' = RAM /\ UNCHANGED <<alt, IR, IFF>>
  BY DEF Registers, NoOthers
<1> HIDE DEF g
<1>8. g["AF"] = 256 * acu + FlagByte(f)
  BY <1>6 DEF af
<1>9. /\ [z \in Regs |-> Contents(reg, z)]'
           = [[z \in Regs |-> Contents(reg, z)] EXCEPT !["A"] = acu % 256]
      /\ F' = f
      /\ reg'["SP"] = reg["SP"]
      /\ Arch!Advance
  <2> HIDE DEF acu, f
  <2> QED  BY <1>1, <1>6, <1>7, <1>8, ResultPut
<1>10. Arch!FlagsBecome(o.fl)
  BY <1>1, <1>9, DocumentedFlags
<1> HIDE DEF acu, f
<1>11. Arch!Accumulate(o)
  BY <1>1, <1>7, <1>9, <1>10 DEF Arch!Accumulate, Arch!Put
<1>12. Arch!Rest
  BY <1>7, <1>9 DEF Arch!Rest, Arch!Alternate, Arch!Special
<1> QED  BY <1>9, <1>11, <1>12

\* Setting the flags is setting AF to A, as far as it has run out, and them.
LEMMA FlagsAlone ==
    ASSUME reg \in [Pairs -> Int], NEW f
    PROVE  SetFlags(Fetched, f) = SetAF(Fetched, Result(reg["AF"] \div 256, f))
<1>1. /\ "AF" \in Pairs \ {"PC"} /\ Fetched["AF"] = reg["AF"] /\ DOMAIN Fetched = Pairs
  BY FetchedKeeps DEF Pairs, RegPairs
<1> QED  BY <1>1 DEF SetFlags, SetAF, Result

\* What A has above its byte is no part of it.
LEMMA AccumulatorByte ==
    ASSUME reg \in [Pairs -> Int]
    PROVE  /\ Acu \in Byte /\ reg["AF"] \div 256 \in Int
           /\ (reg["AF"] \div 256) % 256 = Acu
           /\ Acu = [z \in Regs |-> Contents(reg, z)]["A"]
           /\ Carry \in {0, 1} /\ Carry = Arch!c
<1>1. reg["AF"] \in Int
  BY DEF Pairs, RegPairs
<1>2. Acu \in Byte
  BY <1>1, WordOfHalves DEF Acu, Byte
<1>3. reg["AF"] \div 256 \in Int /\ (reg["AF"] \div 256) % 256 = Acu
  BY <1>1, SMT DEF Acu, HIGH_REGISTER
<1>4. Acu = [z \in Regs |-> Contents(reg, z)]["A"]
  BY DEF Acu, Contents, Regs, MainRegs, HighRegs, PairOf
<1>5. Carry \in {0, 1} /\ Carry = Arch!c
  BY DEF Carry, Arch!c
<1> QED  BY <1>2, <1>3, <1>4, <1>5

\* ADD, ADC, SUB, SBC, AND, XOR, OR and CP of every operand (cpu.h, 0x80 to
\* 0xbf), A itself included, for which the code takes shortcuts, give the byte
\* and the documented flags of the Z80, whatever the int AF holds above A.
THEOREM ArithmeticCorrect ==
    ASSUME reg \in [Pairs -> Int], \A a \in DOMAIN RAM : RAM[a] \in Byte,
           ins.d \in Byte, ins.n \in Int, ins.y \in Operands8,
           ins.y = "n" => ins.n \in Byte,
           Arithmetic
    PROVE  Arch!Arithmetic
<1> DEFINE a == Acu
           y == ins.y
           b == Value8(y)
           result == IF y = "A" THEN Arith8Self(ins.op, a, Carry)
                                ELSE Arith8(ins.op, a, b, Carry)
           o == Arch!Computed(ins.op, a, b, Carry)
<1>1. /\ ins.op \in ArithOps /\ Reachable(y) /\ NoOthers
      /\ Registers(IF ins.op = "CP" THEN SetFlags(Fetched, result.f)
                                    ELSE SetAF(Fetched, result))
  BY DEF Arithmetic
<1>2. a \in Byte /\ Carry \in {0, 1}
  BY AccumulatorByte
<1>3. b \in Byte /\ b = Arch!Operand(y)
  BY <1>1, OperandByte, SameOperand
<1>4. y = "A" => b = a
  BY DEF Value8, Acu, Regs, MainRegs, HighRegs, PairOf
<1>5. Computes(result, o)
  <2>1. CASE y = "A"
    <3>1. result = Arith8Self(ins.op, a, Carry) /\ b = a
      BY <1>4, <2>1
    <3> HIDE DEF a, b, y
    <3>2. Computes(Arith8Self(ins.op, a, Carry), Arch!Computed(ins.op, a, a, Carry))
      BY <1>1, <1>2, SelfComputes
    <3> QED  BY <3>1, <3>2
  <2>2. CASE y # "A"
    <3>1. result = Arith8(ins.op, a, b, Carry)
      BY <2>2
    <3> HIDE DEF a, b, y
    <3> QED  BY <1>1, <1>2, <1>3, <3>1, OperationComputes
  <2> QED  BY <2>1, <2>2
<1>6. o = Arch!Computed(ins.op, [z \in Regs |-> Contents(reg, z)]["A"],
                        Arch!Operand(y), Arch!c)
  BY <1>3, AccumulatorByte
<1>7. ASSUME ins.op # "CP"
      PROVE  Arch!Accumulate(o) /\ UNCHANGED ADDRMASK(reg["SP"]) /\ Arch!Rest
  <2>1. Registers(SetAF(Fetched, result))
    BY <1>1, <1>7
  <2> HIDE DEF result, o
  <2> QED  BY <1>1, <1>5, <2>1, Accumulated
<1>8. ASSUME ins.op = "CP"
      PROVE  Arch!Accumulate(o) /\ UNCHANGED ADDRMASK(reg["SP"]) /\ Arch!Rest
  <2> DEFINE kept == Result(reg["AF"] \div 256, result.f)
  <2>1. o.v = a
    BY <1>8 DEF Arch!Computed, Arch!Of
  <2>2. Computes(kept, o)
    <3>1. result.f \in SUBSET FlagNames /\ result.f \cap Arch!Documented = o.fl
      BY <1>5 DEF Computes
    <3>2. kept.acu = reg["AF"] \div 256 /\ kept.f = result.f
      BY DEF Result
    <3> HIDE DEF kept, result, o
    <3> QED  BY <2>1, <3>1, <3>2, AccumulatorByte DEF Computes
  <2> HIDE DEF result, o
  <2>3. Registers(SetAF(Fetched, kept))
    BY <1>1, <1>8, FlagsAlone
  <2> QED  BY <1>1, <2>2, <2>3, Accumulated
<1>9. Arch!Accumulate(o) /\ UNCHANGED ADDRMASK(reg["SP"]) /\ Arch!Rest
  BY <1>7, <1>8
<1>10. Arch!ins.op \in Arch!ArithOps /\ Arch!ins.op = ins.op /\ Arch!ins.y = y
  BY <1>1, SameInstruction DEF ArithOps, Arch!ArithOps
<1> HIDE DEF o, y
<1> QED  BY <1>6, <1>9, <1>10 DEF Arch!Arithmetic

-----------------------------------------------------------------------------
(* INC and DEC of bytes.                                                   *)

\* The tables of INC, for a sum that is masked and for one that is not.
LEMMA IncTables ==
    ASSUME NEW v \in Byte, NEW i \in {v + 1, (v + 1) % 256}
    PROVE  /\ incZ80Table(i) \in SUBSET FlagNames
           /\ incZ80Table(i) \cap Arch!Documented = Arch!Sum(v, 1, 0).fl \ {"C"}
<1>1. i \in Int /\ i % 256 = (v + 1 + 0) % 256
  BY SMT DEF Byte
<1>2. i % 16 = 0 <=> (v % 16) + (1 % 16) + 0 > 15
  BY SMTT(30) DEF Byte
<1>3. i = 128 <=> Arch!Signed(v) + Arch!Signed(1) + 0 \notin -128 .. 127
  BY SMTT(30) DEF Byte, Arch!Signed
<1>4. SZYX(i) = YX(i) \cup Arch!SZ((v + 1 + 0) % 256)
  BY <1>1, SignAndZero
<1>5. YX(i) \cap Arch!Documented = {}
  BY <1>1, UndocumentedApart
<1> DEFINE sz == Arch!SZ((v + 1 + 0) % 256)
           h == When("H", i % 16 = 0)
           p == When("P", i = 128)
           carry == Arch!Set(v + 1 + 0 > 255, "C")
<1>6. sz \subseteq {"S", "Z"} /\ h \subseteq {"H"} /\ p \subseteq {"P"} /\ carry \subseteq {"C"}
  BY DEF Arch!SZ, Arch!Set, When
<1>7. incZ80Table(i) = YX(i) \cup sz \cup h \cup p
  BY <1>4 DEF incZ80Table, incTable
<1>8. Arch!Sum(v, 1, 0).fl = sz \cup h \cup p \cup carry
  BY <1>2, <1>3 DEF Arch!Sum, Arch!Of, Arch!Set, When
<1>9. YX(i) \in SUBSET FlagNames
  BY <1>1, FlagSets
<1> HIDE DEF sz, h, p, carry
<1>10. {"S", "Z", "H", "P"} \subseteq Arch!Documented /\ {"S", "Z", "H", "P"} \subseteq FlagNames
  BY DEF Arch!Documented, FlagNames
<1>11. incZ80Table(i) \in SUBSET FlagNames
  BY <1>6, <1>7, <1>9, <1>10
<1>12. incZ80Table(i) \cap Arch!Documented = sz \cup h \cup p
  BY <1>5, <1>6, <1>7, <1>10, ZenonT(60)
<1>13. Arch!Sum(v, 1, 0).fl \ {"C"} = sz \cup h \cup p
  BY <1>6, <1>8
<1> QED  BY <1>11, <1>12, <1>13

\* The tables of DEC.
LEMMA DecTables ==
    ASSUME NEW v \in Byte, NEW i \in Int, i = (v - 1) % 256
    PROVE  /\ decZ80Table(i) \in SUBSET FlagNames
           /\ decZ80Table(i) \cap Arch!Documented = Arch!Difference(v, 1, 0).fl \ {"C"}
<1>1. i % 256 = i /\ (v - 1 - 0) % 256 = i
  BY SMT DEF Byte
<1>2. i % 16 = 15 <=> (v % 16) - (1 % 16) - 0 < 0
  BY SMTT(30) DEF Byte
<1>3. i = 127 <=> Arch!Signed(v) - Arch!Signed(1) - 0 \notin -128 .. 127
  BY SMTT(30) DEF Byte, Arch!Signed
<1> DEFINE sz == Arch!SZ(i)
           h == When("H", i % 16 = 15)
           p == When("P", i = 127)
           carry == Arch!Set(v - 1 - 0 < 0, "C")
<1>4. SZYX(i) = YX(i) \cup sz
  BY <1>1, SignAndZero
<1>5. YX(i) \cap Arch!Documented = {} /\ YX(i) \in SUBSET FlagNames
  BY UndocumentedApart, FlagSets
<1>6. sz \subseteq {"S", "Z"} /\ h \subseteq {"H"} /\ p \subseteq {"P"} /\ carry \subseteq {"C"}
  BY DEF Arch!SZ, Arch!Set, When
<1>7. decZ80Table(i) = YX(i) \cup sz \cup h \cup {"N"} \cup p
  BY <1>4 DEF decZ80Table, decTable
<1>8. Arch!Difference(v, 1, 0).fl = sz \cup {"N"} \cup h \cup p \cup carry
  BY <1>1, <1>2, <1>3 DEF Arch!Difference, Arch!Of, Arch!Set, When
<1> HIDE DEF sz, h, p, carry
<1>9. /\ {"S", "Z", "H", "P", "N"} \subseteq Arch!Documented
      /\ {"S", "Z", "H", "P", "N"} \subseteq FlagNames
  BY DEF Arch!Documented, FlagNames
<1> DEFINE rest == sz \cup {"N"} \cup h \cup p
<1>13. /\ rest \subseteq {"S", "Z", "H", "P", "N"}
       /\ decZ80Table(i) = YX(i) \cup rest
  BY <1>6, <1>7
<1> HIDE DEF rest
<1>10. decZ80Table(i) \in SUBSET FlagNames
  BY <1>5, <1>9, <1>13, ZenonT(60)
<1>11. decZ80Table(i) \cap Arch!Documented = rest
  <2>1. rest \subseteq Arch!Documented
    BY <1>9, <1>13, Zenon
  <2> QED  BY <1>5, <1>13, <2>1, ZenonT(60)
<1>12. Arch!Difference(v, 1, 0).fl \ {"C"} = rest
  BY <1>6, <1>8, ZenonT(60) DEF rest
<1> QED  BY <1>10, <1>11, <1>12

\* Setting the flags leaves every register alone.
LEMMA FlagsPut ==
    ASSUME NEW g \in [Pairs -> Int], NEW f \in SUBSET FlagNames
    PROVE  /\ SetFlags(g, f) \in [Pairs -> Int]
           /\ \A z \in Regs : Contents(SetFlags(g, f), z) = Contents(g, z)
           /\ FlagsIn(LOW_REGISTER(SetFlags(g, f)["AF"])) = f
           /\ \A p \in {"SP", "PC"} : SetFlags(g, f)[p] = g[p]
<1> DEFINE high == g["AF"] \div 256
           b == FlagByte(f)
           af == 256 * high + b
           h == SetFlags(g, f)
<1>1. "AF" \in Pairs /\ g["AF"] \in Int
  BY DEF Pairs, RegPairs
<1>2. b \in Int /\ b % 256 = b /\ FlagsIn(b) = f
  BY FlagsOfFlagByte
<1>3. h = [g EXCEPT !["AF"] = af]
  BY <1>1 DEF SetFlags
<1> HIDE DEF h, b
<1>4. /\ af \in Int /\ HIGH_REGISTER(af) = HIGH_REGISTER(g["AF"]) /\ LOW_REGISTER(af) = b
  <2> DEFINE w == g["AF"]
  <2>1. w \in Int
    BY <1>1
  <2>2. af = 256 * (w \div 256) + b
    OBVIOUS
  <2> HIDE DEF w
  <2>3. /\ 256 * (w \div 256) + b \in Int
        /\ HIGH_REGISTER(256 * (w \div 256) + b) = HIGH_REGISTER(w)
        /\ LOW_REGISTER(256 * (w \div 256) + b) = b
    BY <1>2, <2>1, SMTT(60) DEF HIGH_REGISTER, LOW_REGISTER
  <2> QED  BY <2>2, <2>3 DEF w
<1> HIDE DEF af
<1>5. /\ h \in [Pairs -> Int] /\ h["AF"] = af
      /\ \A q \in Pairs \ {"AF"} : h[q] = g[q]
  BY <1>1, <1>3, <1>4
<1>6. "A" \in Regs /\ PairOf("A") = "AF" /\ "A" \in HighRegs
  BY DEF Regs, MainRegs, PairOf, HighRegs
<1>7. \A z \in Regs : z # "A" => PairOf(z) \in Pairs \ {"AF"}
  BY DEF Regs, MainRegs, IndexRegs, PairOf, Pairs, RegPairs
<1>8. \A z \in Regs : Contents(h, z) = Contents(g, z)
  BY <1>4, <1>5, <1>6, <1>7 DEF Contents
<1>9. {"SP", "PC"} \subseteq Pairs \ {"AF"}
  BY DEF Pairs, RegPairs
<1> QED  BY <1>2, <1>4, <1>5, <1>8, <1>9 DEF h

\* What counting a byte leaves alone, once its flags are set.
LEMMA CountedFlags ==
    ASSUME reg \in [Pairs -> Int], NEW f, NEW doc, f \cap Arch!Documented = doc,
           reg'["SP"] = reg["SP"], reg'["PC"] = Fetched["PC"],
           FlagsIn(LOW_REGISTER(reg'["AF"])) = f, NoOthers
    PROVE  Arch!FlagsBecome(doc) /\ UNCHANGED ADDRMASK(reg["SP"]) /\ Arch!Rest
<1>1. F' = f
  BY DEF F
<1>2. F' \cap Arch!Documented = doc
  BY <1>1
<1>3. Arch!Advance
  BY FetchedKeeps, Advances DEF Pairs
<1>4. Arch!FlagsBecome(doc)
  BY <1>2, DocumentedFlags
<1> QED  BY <1>3, <1>4 DEF NoOthers, Arch!Rest, Arch!Alternate, Arch!Special

\* A high register counts inside its pair.
LEMMA CountedHigh ==
    ASSUME reg \in [Pairs -> Int], NEW x \in HighRegs, NEW w \in Int,
           NEW g \in [Pairs -> Int],
           \A q \in Pairs \ {PairOf(x)} : g[q] = Fetched[q],
           LOW_REGISTER(g[PairOf(x)]) = LOW_REGISTER(Fetched[PairOf(x)]),
           HIGH_REGISTER(g[PairOf(x)]) = w,
           NEW f \in SUBSET FlagNames, NEW doc, f \cap Arch!Documented = doc,
           Registers(SetFlags(g, f)), NoOthers
    PROVE  /\ Arch!Place(x, w)
           /\ Arch!FlagsBecome(doc)
           /\ UNCHANGED ADDRMASK(reg["SP"]) /\ Arch!Rest
<1> DEFINE h == SetFlags(g, f)
<1>0. /\ Fetched \in [Pairs -> Int]
      /\ \A z \in Regs : Contents(Fetched, z) = Contents(reg, z)
      /\ Fetched["SP"] = reg["SP"]
  BY FetchedContents, FetchedKeeps
<1>1. x \in Regs
  BY OperandNames
<1>2. reg' = h /\ RAM' = RAM
  BY DEF Registers
<1>3. /\ \A y \in Regs \ {x} : Contents(g, y) = Contents(Fetched, y)
      /\ \A q \in {"SP", "PC"} : g[q] = Fetched[q]
  BY <1>0, <1>1, HalfChanged
<1>4. /\ \A z \in Regs : Contents(h, z) = Contents(g, z)
      /\ FlagsIn(LOW_REGISTER(h["AF"])) = f
      /\ \A q \in {"SP", "PC"} : h[q] = g[q]
  BY FlagsPut
<1> HIDE DEF h
<1>5. Contents(g, x) = w
  BY DEF Contents
<1>6. \A z \in Regs : Contents(reg', z) = IF z = x THEN w ELSE Contents(reg, z)
  BY <1>0, <1>2, <1>3, <1>4, <1>5
<1>7. [z \in Regs |-> Contents(reg', z)]
        = [[z \in Regs |-> Contents(reg, z)] EXCEPT ![x] = w]
  BY <1>1, <1>6
<1>8. Arch!Place(x, w)
  BY <1>1, <1>2, <1>7, SameRegisters DEF Arch!Place
<1>9. reg'["SP"] = reg["SP"] /\ reg'["PC"] = Fetched["PC"]
  BY <1>0, <1>2, <1>3, <1>4
<1>10. FlagsIn(LOW_REGISTER(reg'["AF"])) = f
  BY <1>2, <1>4
<1> QED  BY <1>8, <1>9, <1>10, CountedFlags

\* A low register or a byte of memory counts through temp, which runs over.
LEMMA CountedLow ==
    ASSUME reg \in [Pairs -> Int], ins.d \in Byte, ins.n \in Int,
           NEW x \in Regs \cup Memory, NEW temp \in Int,
           NEW f \in SUBSET FlagNames, NEW doc, f \cap Arch!Documented = doc,
           Store(SetFlags(Fetched, f), x, temp), NoOthers
    PROVE  /\ Arch!Place(x, temp % 256)
           /\ Arch!FlagsBecome(doc)
           /\ UNCHANGED ADDRMASK(reg["SP"]) /\ Arch!Rest
<1> DEFINE g == SetFlags(Fetched, f)
<1>0. /\ Fetched \in [Pairs -> Int]
      /\ \A z \in Regs : Contents(Fetched, z) = Contents(reg, z)
      /\ Fetched["SP"] = reg["SP"]
  BY FetchedKeeps, FetchedContents
<1>1. /\ g \in [Pairs -> Int]
      /\ \A z \in Regs : Contents(g, z) = Contents(Fetched, z)
      /\ FlagsIn(LOW_REGISTER(g["AF"])) = f
      /\ \A q \in {"SP", "PC"} : g[q] = Fetched[q]
  BY <1>0, FlagsPut
<1> HIDE DEF g
<1>2. Store(g, x, temp) /\ \A z \in Regs : Contents(g, z) = Contents(reg, z)
  BY <1>0, <1>1 DEF g
<1>3. /\ Arch!Place(x, temp % 256)
      /\ \A q \in {"SP", "PC"} : reg'[q] = g[q]
      /\ LOW_REGISTER(reg'["AF"]) = LOW_REGISTER(g["AF"])
  BY <1>1, <1>2, StoreCorrect
<1>4. reg'["SP"] = reg["SP"] /\ reg'["PC"] = Fetched["PC"]
  BY <1>0, <1>1, <1>3
<1>5. FlagsIn(LOW_REGISTER(reg'["AF"])) = f
  BY <1>1, <1>3
<1> QED  BY <1>3, <1>4, <1>5, CountedFlags

\* INC and DEC of every byte (cpu.h, 0x04 to 0x3d): in the high byte of an int
\* that is not masked, through a temp that is 256 or -1 at the ends, or in
\* memory.  The byte and the documented flags are the Z80's.
THEOREM CountCorrect ==
    ASSUME reg \in [Pairs -> Int], \A a \in DOMAIN RAM : RAM[a] \in Byte,
           ins.d \in Byte, ins.n \in Int, ins.x \in Regs \cup Memory,
           Inc8 \/ Dec8
    PROVE  Arch!Count
<1> DEFINE x == ins.x
           v == Value8(x)
           p == PairOf(x)
           carry == F \cap {"C"}
<1>0. carry \in SUBSET FlagNames /\ carry \subseteq Arch!Documented
  BY DEF FlagNames, Arch!Documented
<1>1. /\ x \in Operands8 /\ x # "n" /\ v = Arch!Operand(x)
      /\ NoOthers
      /\ (x \in HighRegs \/ Reachable(x))
  <2>1. x \in Operands8 /\ x # "n"
    BY OperandNames DEF Operands8
  <2>2. x \in HighRegs \/ Reachable(x)
    BY DEF Inc8, Dec8, CountHigh, CountLow
  <2>3. NoOthers
    BY DEF Inc8, Dec8
  <2> QED  BY <2>1, <2>2, <2>3, SameOperand
<1>2. Reachable(x)
  BY <1>1, OperandNames DEF Reachable
<1>3. v \in Byte
  BY <1>1, <1>2, OperandByte
<1>4. v \in Int /\ 1 \in Int /\ -1 \in Int /\ v + (-1) = v - 1 /\ v + 1 \in Int /\ v - 1 \in Int
  BY <1>3 DEF Byte
<1>5. ASSUME x \in HighRegs, NEW step \in Int, NEW g, g = [Fetched EXCEPT ![p] = @ + 256 * step]
      PROVE  /\ g \in [Pairs -> Int]
             /\ \A q \in Pairs \ {p} : g[q] = Fetched[q]
             /\ LOW_REGISTER(g[p]) = LOW_REGISTER(Fetched[p])
             /\ HIGH_REGISTER(g[p]) = (v + step) % 256
  <2> DEFINE w == Fetched[p]
  <2>1. /\ x \in Regs /\ p \in Pairs /\ p # "PC" /\ w \in Int /\ w = reg[p]
        /\ p \in DOMAIN Fetched /\ Fetched \in [Pairs -> Int]
    BY <1>5, OperandNames, FetchedKeeps DEF Pairs, RegPairs
  <2>2. v = HIGH_REGISTER(w)
    BY <1>5, <2>1, OperandNames DEF Value8
  <2>3. g[p] = w + 256 * step /\ g \in [Pairs -> Int] /\ \A q \in Pairs \ {p} : g[q] = Fetched[q]
    BY <1>5, <2>1
  <2> HIDE DEF w, v
  <2>4. /\ HIGH_REGISTER(w + 256 * step) = (HIGH_REGISTER(w) + step) % 256
        /\ LOW_REGISTER(w + 256 * step) = LOW_REGISTER(w)
    <3>1. w \in Int /\ step \in Int
      BY <1>5, <2>1
    <3> QED  BY <3>1, LateHigh, ZenonT(60)
  <2>5. HIGH_REGISTER(g[p]) = (v + step) % 256 /\ LOW_REGISTER(g[p]) = LOW_REGISTER(w)
    BY <2>2, <2>3, <2>4, Zenon
  <2> QED  BY <2>3, <2>5 DEF w
<1>6. CASE Inc8
  <2> DEFINE doc == (Arch!Sum(v, 1, 0).fl \ {"C"}) \cup carry
             done(w) == /\ Arch!Place(x, w % 256)
                        /\ Arch!FlagsBecome(doc)
                        /\ UNCHANGED ADDRMASK(reg["SP"]) /\ Arch!Rest
  <2>1. ins.op = "INC" /\ (CountHigh(1, IncFlags) \/ CountLow(1, IncFlags))
    BY <1>6 DEF Inc8
  <2>2. \A i \in {v + 1, (v + 1) % 256} :
           IncFlags(i) \in SUBSET FlagNames /\ IncFlags(i) \cap Arch!Documented = doc
    <3> TAKE i \in {v + 1, (v + 1) % 256}
    <3>1. /\ incZ80Table(i) \in SUBSET FlagNames
          /\ incZ80Table(i) \cap Arch!Documented = Arch!Sum(v, 1, 0).fl \ {"C"}
      BY <1>3, IncTables
    <3>2. IncFlags(i) = incZ80Table(i) \cup carry
      BY DEF IncFlags
    <3> HIDE DEF carry
    <3> QED  BY <1>0, <3>1, <3>2
  <2>3. ASSUME CountHigh(1, IncFlags)
        PROVE  done(v + 1)
    <3> DEFINE g == [Fetched EXCEPT ![p] = @ + 256 * (1)]
               f == IncFlags(HIGH_REGISTER(g[p]))
    <3>1. x \in HighRegs /\ Registers(SetFlags(g, f))
      BY <2>3 DEF CountHigh
    <3>2. /\ g \in [Pairs -> Int]
          /\ \A q \in Pairs \ {p} : g[q] = Fetched[q]
          /\ LOW_REGISTER(g[p]) = LOW_REGISTER(Fetched[p])
          /\ HIGH_REGISTER(g[p]) = (v + (1)) % 256
      BY <1>4, <1>5, <3>1, ZenonT(60)
    <3> HIDE DEF g
    <3>3. HIGH_REGISTER(g[p]) = (v + 1) % 256 /\ (v + 1) % 256 \in Int
      BY <1>4, <3>2
    <3>4. f \in SUBSET FlagNames /\ f \cap Arch!Documented = doc
      BY <2>2, <3>3
    <3> HIDE DEF f, doc
    <3> DEFINE w == (v + 1) % 256
    <3>5. w \in Int /\ HIGH_REGISTER(g[p]) = w
      BY <3>3
    <3> HIDE DEF w
    <3>6. /\ Arch!Place(x, w)
          /\ Arch!FlagsBecome(doc)
          /\ UNCHANGED ADDRMASK(reg["SP"]) /\ Arch!Rest
      BY <1>1, <3>1, <3>2, <3>4, <3>5, CountedHigh
    <3> QED  BY <3>6 DEF w
  <2>4. ASSUME CountLow(1, IncFlags)
        PROVE  done(v + 1)
    <3> DEFINE temp == v + 1
               f == IncFlags(temp)
    <3>1. Store(SetFlags(Fetched, f), x, temp)
      BY <1>4, <2>4 DEF CountLow
    <3>2. f \in SUBSET FlagNames /\ f \cap Arch!Documented = doc /\ temp \in Int
      BY <1>4, <2>2
    <3> HIDE DEF f, doc, temp
    <3>3. done(temp)
      BY <1>1, <3>1, <3>2, CountedLow
    <3> QED  BY <3>3 DEF temp
  <2>5. done(v + 1)
    BY <2>1, <2>3, <2>4
  <2>6. (v + 1) % 256 = Arch!Sum(v, 1, 0).v
    BY <1>4 DEF Arch!Sum, Arch!Difference, Arch!Of
  <2> HIDE DEF carry, v, x
  <2> QED
    BY <1>1, <2>1, <2>5, <2>6, SameInstruction DEF Arch!Count, carry, x
<1>7. CASE Dec8
  <2> DEFINE doc == (Arch!Difference(v, 1, 0).fl \ {"C"}) \cup carry
             done(w) == /\ Arch!Place(x, w % 256)
                        /\ Arch!FlagsBecome(doc)
                        /\ UNCHANGED ADDRMASK(reg["SP"]) /\ Arch!Rest
  <2>1. ins.op = "DEC" /\ (CountHigh(-1, DecFlags) \/ CountLow(-1, DecFlags))
    BY <1>7 DEF Dec8
  <2>2. \A i \in {v - 1, (v - 1) % 256} :
           DecFlags(i) \in SUBSET FlagNames /\ DecFlags(i) \cap Arch!Documented = doc
    <3> TAKE i \in {v - 1, (v - 1) % 256}
    <3>0. i % 256 \in Int /\ i % 256 = (v - 1) % 256
      BY <1>3, SMT DEF Byte
    <3>1. /\ decZ80Table(i % 256) \in SUBSET FlagNames
          /\ decZ80Table(i % 256) \cap Arch!Documented = Arch!Difference(v, 1, 0).fl \ {"C"}
      BY <1>3, <3>0, DecTables
    <3>2. DecFlags(i) = decZ80Table(i % 256) \cup carry
      BY DEF DecFlags
    <3> HIDE DEF carry
    <3> QED  BY <1>0, <3>1, <3>2
  <2>3. ASSUME CountHigh(-1, DecFlags)
        PROVE  done(v - 1)
    <3> DEFINE g == [Fetched EXCEPT ![p] = @ + 256 * (-1)]
               f == DecFlags(HIGH_REGISTER(g[p]))
    <3>1. x \in HighRegs /\ Registers(SetFlags(g, f))
      BY <2>3 DEF CountHigh
    <3>2. /\ g \in [Pairs -> Int]
          /\ \A q \in Pairs \ {p} : g[q] = Fetched[q]
          /\ LOW_REGISTER(g[p]) = LOW_REGISTER(Fetched[p])
          /\ HIGH_REGISTER(g[p]) = (v + (-1)) % 256
      BY <1>4, <1>5, <3>1
    <3> HIDE DEF g
    <3>3. HIGH_REGISTER(g[p]) = (v - 1) % 256 /\ (v - 1) % 256 \in Int
      BY <1>4, <3>2
    <3>4. f \in SUBSET FlagNames /\ f \cap Arch!Documented = doc
      BY <2>2, <3>3
    <3> HIDE DEF f, doc
    <3> DEFINE w == (v - 1) % 256
    <3>5. w \in Int /\ HIGH_REGISTER(g[p]) = w
      BY <3>3
    <3> HIDE DEF w
    <3>6. /\ Arch!Place(x, w)
          /\ Arch!FlagsBecome(doc)
          /\ UNCHANGED ADDRMASK(reg["SP"]) /\ Arch!Rest
      BY <1>1, <3>1, <3>2, <3>4, <3>5, CountedHigh
    <3> QED  BY <3>6 DEF w
  <2>4. ASSUME CountLow(-1, DecFlags)
        PROVE  done(v - 1)
    <3> DEFINE temp == v - 1
               f == DecFlags(temp)
    <3>1. Store(SetFlags(Fetched, f), x, temp)
      BY <1>4, <2>4 DEF CountLow
    <3>2. f \in SUBSET FlagNames /\ f \cap Arch!Documented = doc /\ temp \in Int
      BY <1>4, <2>2
    <3> HIDE DEF f, doc, temp
    <3>3. done(temp)
      BY <1>1, <3>1, <3>2, CountedLow
    <3> QED  BY <3>3 DEF temp
  <2>5. done(v - 1)
    BY <2>1, <2>3, <2>4
  <2>6. (v - 1) % 256 = Arch!Difference(v, 1, 0).v
    BY <1>4 DEF Arch!Sum, Arch!Difference, Arch!Of
  <2> HIDE DEF carry, v, x
  <2> QED
    BY <1>1, <2>1, <2>5, <2>6, SameInstruction DEF Arch!Count, carry, x
<1> QED  BY <1>6, <1>7

-----------------------------------------------------------------------------
(* DAA, NEG, CPL, SCF, CCF and the rotations of A.                         *)

\* Code and Z80 agree on NEG.
LEMMA NegateComputes ==
    ASSUME NEW a \in Byte
    PROVE  Computes(Result((-a) % 256, SZYX((-a) % 256) \cup negTable(a)),
                    Arch!Difference(0, a, 0))
<1> DEFINE t == (-a) % 256
           h == When("H", a % 16 # 0)
           p == When("P", a = 128)
           carry == When("C", a # 0)
           rest == h \cup p \cup {"N"} \cup carry
<1>1. t \in Int /\ t % 256 = t /\ (0 - a - 0) % 256 = t
  BY SMT DEF Byte
<1>2. a % 16 # 0 <=> (0 % 16) - (a % 16) - 0 < 0
  BY SMTT(30) DEF Byte
<1>3. a = 128 <=> Arch!Signed(0) - Arch!Signed(a) - 0 \notin -128 .. 127
  BY SMTT(30) DEF Byte, Arch!Signed
<1>4. a # 0 <=> 0 - a - 0 < 0
  BY SMT DEF Byte
<1>5. SZYX(t) = YX(t) \cup Arch!SZ(t)
  BY <1>1, SignAndZero
<1>6. YX(t) \cap Arch!Documented = {} /\ SZYX(t) \in SUBSET FlagNames
  BY <1>1, UndocumentedApart, FlagSets
<1>7. rest \subseteq Arch!Documented /\ rest \subseteq FlagNames
  BY DEF When, Arch!Documented, FlagNames
<1>8. Arch!SZ(t) \subseteq Arch!Documented
  BY DEF Arch!SZ, Arch!Set, Arch!Documented
<1>9. Arch!Difference(0, a, 0) = Arch!Of(t, Arch!SZ(t) \cup {"N"} \cup h \cup p \cup carry)
  <2>1. /\ Arch!Set((0 % 16) - (a % 16) - 0 < 0, "H") = h
        /\ Arch!Set(Arch!Signed(0) - Arch!Signed(a) - 0 \notin -128 .. 127, "P") = p
        /\ Arch!Set(0 - a - 0 < 0, "C") = carry
    BY <1>2, <1>3, <1>4, Zenon DEF Arch!Set, When
  <2>2. Arch!Difference(0, a, 0)
          = Arch!Of((0 - a - 0) % 256,
               Arch!SZ((0 - a - 0) % 256) \cup {"N"}
                 \cup Arch!Set((0 % 16) - (a % 16) - 0 < 0, "H")
                 \cup Arch!Set(Arch!Signed(0) - Arch!Signed(a) - 0 \notin -128 .. 127, "P")
                 \cup Arch!Set(0 - a - 0 < 0, "C"))
    BY Zenon DEF Arch!Difference
  <2> HIDE DEF t, h, p, carry
  <2> QED  BY <1>1, <2>1, <2>2, ZenonT(60)
<1>10. Result(t, SZYX(t) \cup negTable(a)) = [acu |-> t, f |-> SZYX(t) \cup rest]
  BY DEF Result, negTable
<1>11. Arch!SZ(t) \cup {"N"} \cup h \cup p \cup carry = Arch!SZ(t) \cup rest
  OBVIOUS
<1> HIDE DEF t, h, p, carry, rest
<1>12. (SZYX(t) \cup rest) \cap Arch!Documented = Arch!SZ(t) \cup rest
  BY <1>5, <1>6, <1>7, <1>8
<1>13. SZYX(t) \cup rest \in SUBSET FlagNames
  BY <1>6, <1>7
<1>14. Computes([acu |-> t, f |-> SZYX(t) \cup rest], Arch!Of(t, Arch!SZ(t) \cup rest))
  BY <1>1, <1>12, <1>13 DEF Computes, Arch!Of
<1> QED  BY <1>9, <1>10, <1>11, <1>14, ZenonT(60) DEF t

\* Flags that are documented, and YF and XF of anything.
LEMMA KeptFlags ==
    ASSUME NEW x \in Int, NEW k \in Int, NEW doc \in SUBSET Arch!Documented,
           NEW result, result.acu = x, result.f = doc \cup YX(k)
    PROVE  Computes(result, Arch!Of(x % 256, doc))
<1>1. YX(k) \cap Arch!Documented = {} /\ YX(k) \in SUBSET FlagNames
  BY UndocumentedApart, FlagSets
<1>2. Arch!Documented \subseteq FlagNames
  BY DEF Arch!Documented, FlagNames
<1>3. doc \cup YX(k) \in SUBSET FlagNames /\ (doc \cup YX(k)) \cap Arch!Documented = doc
  BY <1>1, <1>2
<1> QED  BY <1>3 DEF Computes, Arch!Of

\* DAA after a subtraction: the code subtracts 352 for 96 and keeps N.
LEMMA DaaSubtractComputes ==
    ASSUME NEW a \in Byte, "N" \in F
    PROVE  Computes(DaaSubtract(a, F), Arch!Adjusted(a))
<1> DEFINE low == a % 16
           hd == "C" \in F \/ a > 153
           fix == "H" \in F \/ low > 9
           once == IF fix THEN (a - 6) % 256 ELSE a
           acu == once - (IF hd THEN 352 ELSE 0)
           half == F \cap (IF fix /\ low > 5 THEN {"N"} ELSE {"N", "H"})
           carry == When("C", Bit(acu, 256) \/ "C" \in F)
           by == (IF fix THEN 6 ELSE 0) + (IF hd THEN 96 ELSE 0)
           v == (a - by) % 256
<1>1. acu \in Int /\ v = acu % 256 /\ v \in Byte
  BY SMTT(60) DEF Byte
<1>2. (acu \div 256) % 2 = 1 => hd
  <2>1. ~hd => acu = once /\ once \in 0 .. 255
    BY SMTT(30) DEF Byte
  <2> HIDE DEF acu, once
  <2> QED  BY <2>1, SMTT(30)
<1>3. a > 153 => (acu \div 256) % 2 = 1
  <2>1. a > 153 => once \in 148 .. 255 /\ acu = once - 352
    BY SMTT(30) DEF Byte
  <2> HIDE DEF acu, once
  <2> QED  BY <2>1, SMTT(30)
<1>4. carry = Arch!Set(hd, "C")
  BY <1>2, <1>3 DEF When, Arch!Set, Bit
<1>5. half = Arch!Set("H" \in F /\ a % 16 < 6, "H") \cup (F \cap {"N"})
  <2>1. low > 5 <=> ~(low < 6)
    BY SMT DEF Byte
  <2> HIDE DEF low
  <2>2. half = Arch!Set("H" \in F /\ low < 6, "H") \cup (F \cap {"N"})
    BY <2>1 DEF Arch!Set
  <2> QED  BY <2>2 DEF low
<1> DEFINE extra == half \cup carry
           t == rrdrldTable(v)
<1>6. DaaSubtract(a, F) = [acu |-> v, f |-> (SZYX(v) \cup parityTable(v)) \cup extra]
  <2>1. DaaSubtract(a, F) = With(rrdrldTable(acu % 256), extra)
    BY DEF DaaSubtract
  <2> HIDE DEF acu, v, extra
  <2> QED  BY <1>1, <2>1 DEF With, rrdrldTable, Result
<1>7. Arch!Adjusted(a) = Arch!Of(v, Arch!SZ(v) \cup Arch!Parity(v) \cup Arch!Set(hd, "C")
             \cup Arch!Set("H" \in F /\ a % 16 < 6, "H") \cup (F \cap {"N"}))
  BY DEF Arch!Adjusted
<1>8. extra \subseteq Arch!Documented
  BY DEF When, Arch!Documented
<1> HIDE DEF v, half, carry, hd
<1>9. Arch!SZ(v) \cup Arch!Parity(v) \cup Arch!Set(hd, "C")
             \cup Arch!Set("H" \in F /\ a % 16 < 6, "H") \cup (F \cap {"N"})
        = Arch!SZ(v) \cup Arch!Parity(v) \cup extra
  BY <1>4, <1>5
<1>10. (SZYX(v) \cup parityTable(v)) \cup extra = SZYX(v) \cup extra \cup parityTable(v)
  OBVIOUS
<1> DEFINE result == DaaSubtract(a, F)
<1>11. /\ result.acu = v /\ result.f = SZYX(v) \cup extra \cup parityTable(v)
       /\ extra \in SUBSET Arch!Documented
  BY <1>6, <1>8, <1>10
<1> HIDE DEF extra, result
<1>12. Computes(result, Arch!Of(v, Arch!SZ(v) \cup Arch!Parity(v) \cup extra))
  BY <1>1, <1>11, LogicFlags
<1> QED  BY <1>7, <1>9, <1>12 DEF result

\* DAA after an addition: the high digit is tested once the low one is right.
LEMMA DaaAddComputes ==
    ASSUME NEW a \in Byte, "N" \notin F
    PROVE  Computes(DaaAdd(a, F), Arch!Adjusted(a))
<1> DEFINE low == a % 16
           hd == "C" \in F \/ a > 153
           fix == "H" \in F \/ low > 9
           once == IF fix THEN a + 6 ELSE a
           acu == IF "C" \in F \/ 16 * (once \div 16) > 144 THEN once + 96 ELSE once
           half == IF fix THEN When("H", low > 9) ELSE F \cap {"H"}
           carry == When("C", Bit(acu, 256) \/ "C" \in F)
           by == (IF fix THEN 6 ELSE 0) + (IF hd THEN 96 ELSE 0)
           v == (a + by) % 256
<1>1. once \in Int /\ once \in 0 .. 261
  BY SMT DEF Byte
<1>2. 16 * (once \div 16) > 144 <=> a > 153
  BY SMTT(60) DEF Byte
<1>3. acu = IF hd THEN once + 96 ELSE once
  <2> HIDE DEF once
  <2> QED  BY <1>2
<1>4. a + by = IF hd THEN once + 96 ELSE once
  BY SMT DEF Byte
<1>5. acu \in Int /\ v = acu % 256 /\ v \in Byte
  <2> HIDE DEF acu, hd, once, by
  <2>1. a + by = acu /\ acu \in Int
    BY <1>1, <1>3, <1>4
  <2> QED  BY <2>1, SMT DEF Byte
<1>6. a > 153 => once + 96 > 255
  BY SMT DEF Byte
<1>7. ~(a > 153) => once < 256
  BY SMT DEF Byte
<1>8. ~hd => (acu \div 256) % 2 = 0
  <2>1. ~hd => acu = once /\ once < 256
    BY <1>3, <1>7
  <2> HIDE DEF acu, once, hd
  <2> QED  BY <1>1, <2>1, SMT
<1>9. a > 153 => (acu \div 256) % 2 = 1
  <2>1. a > 153 => acu = once + 96 /\ once + 96 > 255
    BY <1>3, <1>6
  <2> HIDE DEF acu, once
  <2> QED  BY <1>1, <2>1, SMT
<1>10. carry = Arch!Set(hd, "C")
  BY <1>8, <1>9 DEF When, Arch!Set, Bit
<1>11. half = Arch!Set(a % 16 > 9, "H")
  <2> HIDE DEF low
  <2>1. half = Arch!Set(low > 9, "H")
    BY DEF When, Arch!Set
  <2> QED  BY <2>1 DEF low
<1> DEFINE extra == half \cup carry
<1>12. DaaAdd(a, F) = [acu |-> v, f |-> (SZYX(v) \cup parityTable(v)) \cup extra]
  <2>1. DaaAdd(a, F) = With(rrdrldTable(acu % 256), extra)
    BY DEF DaaAdd
  <2> HIDE DEF acu, v, extra
  <2> QED  BY <1>5, <2>1 DEF With, rrdrldTable, Result
<1>13. Arch!Adjusted(a) = Arch!Of(v, Arch!SZ(v) \cup Arch!Parity(v) \cup Arch!Set(hd, "C")
             \cup Arch!Set(a % 16 > 9, "H") \cup (F \cap {"N"}))
  BY DEF Arch!Adjusted
<1>14. extra \subseteq Arch!Documented /\ F \cap {"N"} = {}
  BY DEF When, Arch!Documented
<1> HIDE DEF v, half, carry, hd
<1>15. Arch!SZ(v) \cup Arch!Parity(v) \cup Arch!Set(hd, "C")
             \cup Arch!Set(a % 16 > 9, "H") \cup (F \cap {"N"})
        = Arch!SZ(v) \cup Arch!Parity(v) \cup extra
  BY <1>10, <1>11, <1>14
<1>16. (SZYX(v) \cup parityTable(v)) \cup extra = SZYX(v) \cup extra \cup parityTable(v)
  OBVIOUS
<1> DEFINE result == DaaAdd(a, F)
<1>17. /\ result.acu = v /\ result.f = SZYX(v) \cup extra \cup parityTable(v)
       /\ extra \in SUBSET Arch!Documented
  BY <1>12, <1>14, <1>16
<1> HIDE DEF extra, result
<1>18. Computes(result, Arch!Of(v, Arch!SZ(v) \cup Arch!Parity(v) \cup extra))
  BY <1>5, <1>17, LogicFlags
<1> QED  BY <1>13, <1>15, <1>18 DEF result

\* The rotations and shifts of a byte, for either carry.
LEMMA ShiftComputes ==
    ASSUME NEW op \in ShiftOps, NEW a \in Byte, NEW k \in {0, 1}
    PROVE  /\ Shift(op, a, k).temp \in Byte
           /\ Arch!Shifted(op, a, k)
                = Arch!Of(Shift(op, a, k).temp,
                          Arch!SZ(Shift(op, a, k).temp) \cup Arch!Parity(Shift(op, a, k).temp)
                            \cup When("C", Shift(op, a, k).cbits))
<1> DEFINE left == op \in {"RLC", "RL", "SLA", "SLL"}
           out == IF left THEN a \div 128 ELSE a % 2
           in == CASE op \in {"RLC", "RRC"} -> out [] op \in {"RL", "RR"} -> k
                   [] op = "SRA" -> a \div 128 [] op = "SLL" -> 1
                   [] op \in {"SLA", "SRL"} -> 0
           t == Shift(op, a, k).temp
<1>1. a \in Int /\ k \in Int
  BY DEF Byte
<1>2. /\ (2 * a + a \div 128) % 256 = ((2 * a) % 256) + a \div 128
      /\ (2 * a + k) % 256 = ((2 * a) % 256) + k
      /\ (2 * a) % 256 = ((2 * a) % 256) + 0
      /\ (2 * a + 1) % 256 = ((2 * a) % 256) + 1
  BY SMTT(60) DEF Byte
<1>3. /\ (a \div 2 + 128 * (a % 2)) % 256 = (a \div 2) + 128 * (a % 2)
      /\ (a \div 2 + 128 * k) % 256 = (a \div 2) + 128 * k
      /\ (a \div 2 + 128 * (a \div 128)) % 256 = (a \div 2) + 128 * (a \div 128)
      /\ (a \div 2) % 256 = (a \div 2) + 128 * 0
  BY SMTT(60) DEF Byte
<1>4. t = IF left THEN ((2 * a) % 256) + in ELSE (a \div 2) + 128 * in
  BY <1>2, <1>3 DEF Shift, ShiftOps
<1>5. Bit(a, 128) <=> a \div 128 = 1
  BY SMTT(60) DEF Bit, Byte
<1>6. Bit(a, 1) <=> a % 2 = 1
  BY <1>1, SMTT(60) DEF Bit
<1>7. Shift(op, a, k).cbits <=> out = 1
  BY <1>5, <1>6 DEF Shift, ShiftOps
<1>8. t \in Byte
  <2>1. \E n \in Int : t = n % 256
    BY <1>1 DEF Shift, ShiftOps
  <2> HIDE DEF t
  <2> QED  BY <2>1, SMT DEF Byte
<1>9. Arch!Shifted(op, a, k)
        = Arch!Of(t, Arch!SZ(t) \cup Arch!Parity(t) \cup Arch!Set(out = 1, "C"))
  BY <1>4 DEF Arch!Shifted
<1>10. When("C", Shift(op, a, k).cbits) = Arch!Set(out = 1, "C")
  <2>1. CASE out = 1
    BY <1>7, <2>1 DEF When, Arch!Set
  <2>2. CASE out # 1
    BY <1>7, <2>2 DEF When, Arch!Set
  <2> QED  BY <2>1, <2>2
<1> QED  BY <1>8, <1>9, <1>10

\* The rotations of A keep S, Z and P and set C alone.
LEMMA RotatedA ==
    ASSUME NEW op \in ShiftOps, NEW a \in Byte, NEW k \in {0, 1}, NEW y \in Int,
           NEW x \in Int, x % 256 = Shift(op, a, k).temp,
           NEW result, result.acu = x,
           result.f = ((F \cap {"S", "Z", "P"}) \cup When("C", Shift(op, a, k).cbits)) \cup YX(y)
    PROVE  Computes(result, Arch!Of(Arch!Shifted(op, a, k).v,
                               (F \cap {"S", "Z", "P"})
                                 \cup (Arch!Shifted(op, a, k).fl \cap {"C"})))
<1> DEFINE t == Shift(op, a, k).temp
           carry == When("C", Shift(op, a, k).cbits)
           kept == F \cap {"S", "Z", "P"}
           doc == kept \cup carry
           s == Arch!Shifted(op, a, k)
<1>1. s = Arch!Of(t, Arch!SZ(t) \cup Arch!Parity(t) \cup carry)
  BY ShiftComputes
<1>2. Arch!SZ(t) \cup Arch!Parity(t) \subseteq {"S", "Z", "P"} /\ carry \subseteq {"C"}
  BY DEF Arch!SZ, Arch!Parity, Arch!Set, When
<1>3. doc \in SUBSET Arch!Documented
  BY <1>2 DEF Arch!Documented
<1>4. result.f = doc \cup YX(y) /\ x % 256 = t
  OBVIOUS
<1> HIDE DEF s, t, carry
<1>5. s.v = t /\ s.fl \cap {"C"} = carry
  BY <1>1, <1>2 DEF Arch!Of
<1> HIDE DEF doc
<1>6. Computes(result, Arch!Of(x % 256, doc))
  BY <1>3, <1>4, KeptFlags, SMTT(60)
<1> QED  BY <1>4, <1>5, <1>6 DEF doc, s

\* DAA, NEG, CPL, SCF, CCF, RLCA, RRCA, RLA and RRA (cpu.h, 0x07 to 0x3f and
\* 0xed44): the code rotates, complements and corrects the int above F, or its
\* byte, through the tables; A and the documented flags are the Z80's.
THEOREM AccumulatorCorrect ==
    ASSUME reg \in [Pairs -> Int],
           DecimalAdjust \/ Negate \/ Accumulator \/ RotateA
    PROVE  Arch!Arithmetic
<1> DEFINE a == Acu
           m == reg["AF"] \div 256
           k == Carry
           A == [z \in Regs |-> Contents(reg, z)]["A"]
           done(o) == Arch!Accumulate(o) /\ UNCHANGED ADDRMASK(reg["SP"]) /\ Arch!Rest
           kept == F \cap {"S", "Z", "P"}
<1>1. /\ a \in Byte /\ a \in Int /\ m \in Int /\ m % 256 = a /\ a = A
      /\ k \in {0, 1} /\ k = Arch!c
  BY AccumulatorByte DEF Byte
<1>2. Arch!ins.op = ins.op
  BY SameInstruction
<1>3. NoOthers
  BY DEF DecimalAdjust, Negate, Accumulator, RotateA
<1>4. ASSUME NEW result, NEW o, Computes(result, o), Registers(SetAF(Fetched, result))
      PROVE  done(o)
  BY <1>3, <1>4, Accumulated
<1> HIDE DEF done
<1>5. CASE DecimalAdjust
  <2>1. ins.op = "DAA" /\ Registers(SetAF(Fetched, Daa(a, F)))
    BY <1>5 DEF DecimalAdjust
  <2>2. Computes(Daa(a, F), Arch!Adjusted(a))
    BY <1>1, DaaSubtractComputes, DaaAddComputes DEF Daa
  <2>3. done(Arch!Adjusted(A))
    BY <1>1, <1>4, <2>1, <2>2
  <2> QED  BY <1>2, <2>1, <2>3 DEF Arch!Arithmetic, done
<1>6. CASE Negate
  <2> DEFINE result == Result((-a) % 256, SZYX((-a) % 256) \cup negTable(a))
  <2>1. ins.op = "NEG" /\ Registers(SetAF(Fetched, result))
    BY <1>6 DEF Negate
  <2>2. Computes(result, Arch!Difference(0, a, 0))
    BY <1>1, NegateComputes
  <2> HIDE DEF result
  <2>3. done(Arch!Difference(0, A, 0))
    BY <1>1, <1>4, <2>1, <2>2
  <2> QED  BY <1>2, <2>1, <2>3 DEF Arch!Arithmetic, done
<1>7. CASE Accumulator
  <2>1. CASE ins.op = "CPL"
    <3> DEFINE doc == (F \cap {"S", "Z", "P", "C"}) \cup {"H", "N"}
               result == Result(-1 - m, (F \cap {"S", "Z", "P", "C"}) \cup YX(-1 - a)
                                          \cup {"H", "N"})
    <3>1. Registers(SetAF(Fetched, result))
      BY <1>7, <2>1 DEF Accumulator
    <3>2. /\ -1 - m \in Int /\ -1 - a \in Int /\ (-1 - m) % 256 = 255 - a
      <4> HIDE DEF m, a
      <4> QED  BY <1>1, SMTT(60) DEF Byte
    <3>3. doc \in SUBSET Arch!Documented
      BY DEF Arch!Documented
    <3>4. result.acu = -1 - m /\ result.f = doc \cup YX(-1 - a)
      BY DEF Result
    <3> HIDE DEF result, doc, m, a
    <3>5. Computes(result, Arch!Of(255 - a, doc))
      <4> DEFINE x == -1 - m
                 y == -1 - a
                 w == 255 - a
      <4>1. x \in Int /\ y \in Int /\ x % 256 = w /\ result.acu = x /\ result.f = doc \cup YX(y)
        BY <3>2, <3>4
      <4> HIDE DEF x, y, w
      <4>2. Computes(result, Arch!Of(w, doc))
        BY <3>3, <4>1, KeptFlags
      <4> QED  BY <4>2 DEF w
    <3>6. done(Arch!Of(255 - A, doc))
      BY <1>1, <1>4, <3>1, <3>5
    <3> QED  BY <1>2, <2>1, <3>6 DEF Arch!Arithmetic, done, doc
  <2>2. CASE ins.op = "SCF"
    <3> DEFINE doc == kept \cup {"C"}
               flags == kept \cup YX(a) \cup {"C"}
               result == Result(m, flags)
    <3>1. Registers(SetAF(Fetched, result))
      BY <1>7, <2>2, FlagsAlone DEF Accumulator
    <3>2. doc \in SUBSET Arch!Documented
      BY DEF Arch!Documented
    <3>3. result.acu = m /\ result.f = doc \cup YX(a)
      BY DEF Result
    <3> HIDE DEF result, doc, m, a
    <3>4. Computes(result, Arch!Of(a, doc))
      BY <1>1, <3>2, <3>3, KeptFlags
    <3>5. done(Arch!Of(A, doc))
      BY <1>1, <1>4, <3>1, <3>4
    <3> QED  BY <1>2, <2>2, <3>5 DEF Arch!Arithmetic, done, doc
  <2>3. CASE ins.op = "CCF"
    <3> DEFINE doc == kept \cup Arch!Set(k = 1, "H") \cup Arch!Set(k = 0, "C")
               flags == kept \cup YX(a) \cup (IF "C" \in F THEN {"H"} ELSE {"C"})
               result == Result(m, flags)
    <3>1. Registers(SetAF(Fetched, result))
      BY <1>7, <2>3, FlagsAlone DEF Accumulator
    <3>2. doc \in SUBSET Arch!Documented
      BY DEF Arch!Documented, Arch!Set
    <3>3. result.acu = m /\ result.f = doc \cup YX(a)
      <4>1. Arch!Set(k = 1, "H") \cup Arch!Set(k = 0, "C") = IF "C" \in F THEN {"H"} ELSE {"C"}
        BY DEF Carry, Arch!Set
      <4> QED  BY <4>1 DEF Result
    <3> HIDE DEF result, doc, m, a
    <3>4. Computes(result, Arch!Of(a, doc))
      BY <1>1, <3>2, <3>3, KeptFlags
    <3>5. done(Arch!Of(A, doc))
      BY <1>1, <1>4, <3>1, <3>4
    <3>6. doc = (F \cap {"S", "Z", "P"}) \cup Arch!Set(Arch!c = 1, "H") \cup Arch!Set(Arch!c = 0, "C")
      BY <1>1 DEF doc
    <3> QED  BY <1>2, <2>3, <3>5, <3>6 DEF Arch!Arithmetic, done
  <2> QED  BY <1>7, <2>1, <2>2, <2>3 DEF Accumulator
<1>8. CASE RotateA
  <2> DEFINE turned(op) == Arch!Of(Arch!Shifted(op, A, Arch!c).v,
                              kept \cup (Arch!Shifted(op, A, Arch!c).fl \cap {"C"}))
  <2>0. {"RLC", "RRC", "RL", "RR"} \subseteq ShiftOps
    BY DEF ShiftOps
  <2>1. ASSUME NEW op \in ShiftOps, NEW x \in Int, NEW y \in Int, NEW f,
               x % 256 = Shift(op, a, k).temp,
               f = (kept \cup When("C", Shift(op, a, k).cbits)) \cup YX(y),
               Registers(SetAF(Fetched, Result(x, f)))
        PROVE  done(turned(op))
    <3> DEFINE result == Result(x, f)
    <3>1. result.acu = x /\ result.f = f
      BY DEF Result
    <3> HIDE DEF result, a, k
    <3>3. /\ op \in ShiftOps /\ a \in Byte /\ k \in {0, 1} /\ y \in Int /\ x \in Int
          /\ x % 256 = Shift(op, a, k).temp /\ result.acu = x
          /\ result.f = ((F \cap {"S", "Z", "P"}) \cup When("C", Shift(op, a, k).cbits)) \cup YX(y)
      BY <1>1, <2>1, <3>1, Zenon
    <3>2. Computes(result, Arch!Of(Arch!Shifted(op, a, k).v,
                                   kept \cup (Arch!Shifted(op, a, k).fl \cap {"C"})))
      BY <3>3, RotatedA, ZenonT(60)
    <3> QED  BY <1>1, <1>4, <2>1, <3>2 DEF result
  <2>2. /\ (2 * m + a \div 128) % 256 = (2 * a + a \div 128) % 256
        /\ (2 * m + k) % 256 = (2 * a + k) % 256
        /\ 2 * m + a \div 128 \in Int /\ 2 * m + k \in Int
    <3> DEFINE q == m \div 256
    <3> HIDE DEF m, a, k
    <3>1. m = 256 * q + a /\ q \in Int
      BY <1>1, SMT
    <3> HIDE DEF q
    <3>2. 2 * m = 512 * q + 2 * a
      BY <1>1, <3>1
    <3>3. ASSUME NEW n \in Int
          PROVE  (2 * m + n) % 256 = (2 * a + n) % 256 /\ 2 * m + n \in Int
      <4> DEFINE j == 2 * a + n
      <4>1. 2 * m + n = 512 * q + j /\ j \in Int
        BY <1>1, <3>1, <3>2
      <4> HIDE DEF j
      <4>2. (512 * q + j) % 256 = j % 256
        BY <3>1, <4>1, SMTT(60)
      <4> QED  BY <3>1, <4>1, <4>2 DEF j
    <3>4. a \div 128 \in Int /\ k \in Int
      BY <1>1
    <3> QED  BY <3>3, <3>4, ZenonT(60)
  <2>3. /\ a \div 2 \in Int /\ 128 * (a % 2) + a \div 2 \in Int
        /\ a \div 2 + 128 * k \in Int
        /\ (128 * (a % 2) + a \div 2) + 0 = a \div 2 + 128 * (a % 2)
        /\ a \div 2 + 128 * (a % 2) \in Int
    <3> HIDE DEF a, k
    <3> QED  BY <1>1, SMT DEF Byte
  <2>4. CASE ins.op = "RLCA"
    <3> DEFINE x == 2 * m + a \div 128
    <3>1. Registers(SetAF(Fetched, Result(x, kept \cup YX(x) \cup When("C", Bit(a, 128)))))
      BY <1>8, <2>4 DEF RotateA
    <3>2. /\ x % 256 = Shift("RLC", a, k).temp
          /\ Shift("RLC", a, k).cbits = Bit(a, 128)
      BY <2>2 DEF Shift
    <3>3. x \in Int
      BY <2>2
    <3> HIDE DEF x, a, k, m, kept, turned
    <3>4. done(turned("RLC"))
      BY <2>0, <2>1, <3>1, <3>2, <3>3
    <3> QED  BY <1>2, <2>4, <3>4 DEF Arch!Arithmetic, done, turned, kept
  <2>5. CASE ins.op = "RLA"
    <3> DEFINE x == 2 * m + k
    <3>1. Registers(SetAF(Fetched, Result(x, kept \cup YX(x) \cup When("C", Bit(a, 128)))))
      BY <1>8, <2>5 DEF RotateA
    <3>2. /\ x % 256 = Shift("RL", a, k).temp
          /\ Shift("RL", a, k).cbits = Bit(a, 128)
      BY <2>2 DEF Shift
    <3>3. x \in Int
      BY <2>2
    <3> HIDE DEF x, a, k, m, kept, turned
    <3>4. done(turned("RL"))
      BY <2>0, <2>1, <3>1, <3>2, <3>3
    <3> QED  BY <1>2, <2>5, <3>4 DEF Arch!Arithmetic, done, turned, kept
  <2>6. CASE ins.op = "RRCA"
    <3> DEFINE x == a \div 2 + 128 * (a % 2)
               y == a \div 2
               f == (YX(y) \cup When("C", Bit(a, 1))) \cup kept
    <3>1. Registers(SetAF(Fetched, Result(x, f)))
      BY <1>8, <2>3, <2>6 DEF RotateA, rrcaTable, Result
    <3>2. /\ x % 256 = Shift("RRC", a, k).temp
          /\ Shift("RRC", a, k).cbits = Bit(a, 1)
      BY <2>2 DEF Shift
    <3>3. x \in Int /\ y \in Int
      BY <2>3
    <3>4. f = (kept \cup When("C", Bit(a, 1))) \cup YX(y)
      OBVIOUS
    <3> HIDE DEF x, y, f, a, k, m, kept, turned
    <3>5. done(turned("RRC"))
      BY <2>0, <2>1, <3>1, <3>2, <3>3, <3>4
    <3> QED  BY <1>2, <2>6, <3>5 DEF Arch!Arithmetic, done, turned, kept
  <2>7. CASE ins.op = "RRA"
    <3> DEFINE x == a \div 2 + 128 * k
               y == a \div 2
               f == (YX(y) \cup When("C", Bit(a, 1))) \cup kept
    <3>1. Registers(SetAF(Fetched, Result(x, f)))
      BY <1>8, <2>3, <2>7 DEF RotateA, rraTable, Result
    <3>2. /\ x % 256 = Shift("RR", a, k).temp
          /\ Shift("RR", a, k).cbits = Bit(a, 1)
      BY <2>2 DEF Shift
    <3>3. x \in Int /\ y \in Int
      BY <2>3
    <3>4. f = (kept \cup When("C", Bit(a, 1))) \cup YX(y)
      OBVIOUS
    <3> HIDE DEF x, y, f, a, k, m, kept, turned
    <3>5. done(turned("RR"))
      BY <2>0, <2>1, <3>1, <3>2, <3>3, <3>4
    <3> QED  BY <1>2, <2>7, <3>5 DEF Arch!Arithmetic, done, turned, kept
  <2> QED  BY <1>8, <2>4, <2>5, <2>6, <2>7 DEF RotateA
<1> QED  BY <1>5, <1>6, <1>7, <1>8

-----------------------------------------------------------------------------
(* The CB prefix.                                                          *)

\* One bit of a byte, tested, cleared and set.
LEMMA OneBit ==
    ASSUME NEW a \in Byte, NEW n \in 0 .. 7
    PROVE  LET w == 2 ^ n
               one == (a \div w) % 2
           IN  /\ one \in {0, 1}
               /\ Bit(a, w) <=> one = 1
               /\ (IF Bit(a, w) THEN a - w ELSE a) = a - one * w
               /\ (IF Bit(a, w) THEN a ELSE a + w) = a + (1 - one) * w
               /\ a - one * w \in Byte /\ a + (1 - one) * w \in Byte
<1> DEFINE w == 2 ^ n
           one == (a \div w) % 2
<1>1. w \in {1, 2, 4, 8, 16, 32, 64, 128}
  <2>1. /\ 2 ^ 0 = 1 /\ 2 ^ 1 = 2 /\ 2 ^ 2 = 4 /\ 2 ^ 3 = 8
        /\ 2 ^ 4 = 16 /\ 2 ^ 5 = 32 /\ 2 ^ 6 = 64 /\ 2 ^ 7 = 128
    BY SMT
  <2>2. \/ n = 0 \/ n = 1 \/ n = 2 \/ n = 3
        \/ n = 4 \/ n = 5 \/ n = 6 \/ n = 7
    BY SMT
  <2>3. /\ (n = 0 => w = 1) /\ (n = 1 => w = 2) /\ (n = 2 => w = 4) /\ (n = 3 => w = 8)
        /\ (n = 4 => w = 16) /\ (n = 5 => w = 32) /\ (n = 6 => w = 64) /\ (n = 7 => w = 128)
    BY <2>1, ZenonT(60)
  <2> HIDE DEF w
  <2> QED  BY <2>2, <2>3, SMT
<1> HIDE DEF w
<1>2. one \in {0, 1} /\ w \in Int
  BY <1>1, SMTT(60) DEF Byte
<1>3. Bit(a, w) <=> one = 1
  BY DEF Bit
<1>4. (one = 1 => a - w \in Byte) /\ (one = 0 => a + w \in Byte)
  BY <1>1, SMTT(60) DEF Byte
<1>5. a \in Int
  BY DEF Byte
<1> HIDE DEF one
<1>6. CASE one = 0
  <2>1. one * w = 0 /\ (1 - one) * w = w
    BY <1>2, <1>6, SMT
  <2>2. a - one * w = a /\ a + (1 - one) * w = a + w
    BY <1>2, <1>5, <2>1
  <2> QED  BY <1>2, <1>3, <1>4, <1>6, <2>2 DEF w, one
<1>7. CASE one = 1
  <2>1. one * w = w /\ (1 - one) * w = 0
    BY <1>2, <1>7, SMT
  <2>2. a - one * w = a - w /\ a + (1 - one) * w = a
    BY <1>2, <1>5, <2>1
  <2> QED  BY <1>2, <1>3, <1>4, <1>7, <2>2 DEF w, one
<1> QED  BY <1>2, <1>6, <1>7

\* RLC to SRL, BIT, RES and SET of every byte (cpu.h, 0xcb, 0xddcb and 0xfdcb).
\* BIT writes its operand back as it was.
THEOREM BitsCorrect ==
    ASSUME reg \in [Pairs -> Int], \A a \in DOMAIN RAM : RAM[a] \in Byte,
           RAM = [a \in DOMAIN RAM |-> RAM[a]],
           ins.d \in Byte, ins.n \in Int, ins.x \in Regs \cup Memory,
           ins.op \in BitOps => ins.n \in 0 .. 7,
           ShiftBits \/ TestBit \/ ChangeBit
    PROVE  Arch!Bits
<1> DEFINE x == ins.x
           v == Value8(x)
           w == 2 ^ ins.n
           one == (v \div w) % 2
<1>0. /\ x \in Operands8 /\ x # "n" /\ Reachable(x) /\ NoOthers
      /\ ins.op \in ShiftOps \/ ins.op \in BitOps
  BY OperandNames DEF Operands8, ShiftBits, TestBit, ChangeBit, BitOps
<1>1. v \in Byte /\ v = Arch!Operand(x)
  BY <1>0, OperandByte, SameOperand
<1>2. v \in Int /\ v % 256 = v
  <2> HIDE DEF v
  <2> QED  BY <1>1, SMT DEF Byte
<1>3. Carry \in {0, 1} /\ Carry = Arch!c
  BY AccumulatorByte
<1>4. /\ Fetched \in [Pairs -> Int] /\ DOMAIN reg = Pairs /\ reg["PC"] \in Int
      /\ \A z \in Regs : Contents(Fetched, z) = Contents(reg, z)
      /\ Fetched["SP"] = reg["SP"]
      /\ LOW_REGISTER(Fetched["AF"]) = LOW_REGISTER(reg["AF"])
  BY FetchedKeeps, FetchedContents
<1>5. Arch!ins = ins
  BY SameInstruction
<1>6. CASE ShiftBits
  <2> DEFINE s == Shift(ins.op, v, Carry)
             t == s.temp
             f == rotateShiftTable(t) \cup When("C", s.cbits)
             doc == Arch!SZ(t) \cup Arch!Parity(t) \cup When("C", s.cbits)
  <2>1. ins.op \in ShiftOps /\ Store(SetFlags(Fetched, f), x, t)
    BY <1>6 DEF ShiftBits
  <2>2. t \in Byte /\ Arch!Shifted(ins.op, v, Carry) = Arch!Of(t, doc)
    <3> HIDE DEF v
    <3> QED  BY <1>1, <1>3, <2>1, ShiftComputes
  <2>3. f \in SUBSET FlagNames /\ f \cap Arch!Documented = doc
    <3> DEFINE carry == When("C", s.cbits)
               result == [acu |-> t, f |-> SZYX(t) \cup carry \cup parityTable(t)]
    <3>1. carry \in SUBSET Arch!Documented
      BY DEF When, Arch!Documented
    <3>2. f = result.f
      BY DEF rotateShiftTable
    <3>3. result.acu = t /\ result.f = SZYX(t) \cup carry \cup parityTable(t)
      OBVIOUS
    <3> HIDE DEF result, carry, t
    <3>4. Computes(result, Arch!Of(t, Arch!SZ(t) \cup Arch!Parity(t) \cup carry))
      BY <2>2, <3>1, <3>3, LogicFlags
    <3> QED  BY <3>2, <3>4 DEF Computes, Arch!Of, carry
  <2> HIDE DEF f, t, doc
  <2>4. t \in Int /\ t % 256 = t
    BY <2>2, SMT DEF Byte
  <2>5. /\ Arch!Place(x, t % 256) /\ Arch!FlagsBecome(doc)
        /\ UNCHANGED ADDRMASK(reg["SP"]) /\ Arch!Rest
    BY <1>0, <2>1, <2>3, <2>4, CountedLow, SMTT(30)
  <2>6. ins.op \in Arch!ShiftOps
    BY <2>1 DEF ShiftOps, Arch!ShiftOps
  <2>7. Arch!Shifted(Arch!ins.op, Arch!Operand(Arch!ins.x), Arch!c) = Arch!Of(t, doc)
    BY <1>1, <1>3, <1>5, <2>2
  <2>8. /\ Arch!Place(Arch!ins.x, Arch!Shifted(Arch!ins.op, Arch!Operand(Arch!ins.x), Arch!c).v)
        /\ Arch!FlagsBecome(Arch!Shifted(Arch!ins.op, Arch!Operand(Arch!ins.x), Arch!c).fl)
        /\ Arch!ins.op \in Arch!ShiftOps
    BY <1>5, <2>4, <2>5, <2>6, <2>7 DEF Arch!Of
  <2> QED  BY <2>5, <2>8 DEF Arch!Bits
<1>7. CASE TestBit
  <2> DEFINE f == IF Bit(v, w) THEN {"H"} \cup When("S", ins.n = 7) ELSE {"H", "Z", "P"}
             yx == IF x \in Memory THEN {} ELSE YX(v)
             carry == F \cap {"C"}
             all == f \cup yx \cup carry
             doc == {"H"} \cup carry
                      \cup (IF one = 0 THEN {"Z", "P"} ELSE Arch!Set(ins.n = 7, "S"))
  <2>1. ins.op = "BIT" /\ Store(SetFlags(Fetched, all), x, v)
    BY <1>7 DEF TestBit
  <2>2. one \in {0, 1} /\ (Bit(v, w) <=> one = 1)
    <3>1. ins.n \in 0 .. 7
      BY <2>1 DEF BitOps
    <3> HIDE DEF v
    <3> QED  BY <1>1, <3>1, OneBit
  <2>3. all \in SUBSET FlagNames /\ all \cap Arch!Documented = doc
    <3>1. f \cup carry = doc
      <4> HIDE DEF one, w, v
      <4>1. CASE one = 1
        BY <2>2, <4>1 DEF When, Arch!Set
      <4>2. CASE one = 0
        BY <2>2, <4>2 DEF When, Arch!Set
      <4> QED  BY <2>2, <4>1, <4>2
    <3>2. doc \subseteq Arch!Documented /\ doc \subseteq FlagNames
      BY DEF Arch!Documented, FlagNames, Arch!Set
    <3>3. yx \cap Arch!Documented = {} /\ yx \in SUBSET FlagNames
      <4> HIDE DEF v
      <4> QED  BY <1>2, UndocumentedApart, FlagSets
    <3>4. all = doc \cup yx
      BY <3>1
    <3> HIDE DEF all, doc, yx
    <3> QED  BY <3>2, <3>3, <3>4
  <2> HIDE DEF all, doc
  <2>4. /\ Arch!Place(x, v) /\ Arch!FlagsBecome(doc)
        /\ UNCHANGED ADDRMASK(reg["SP"]) /\ Arch!Rest
    <3> HIDE DEF v
    <3>1. /\ Arch!Place(x, v % 256) /\ Arch!FlagsBecome(doc)
          /\ UNCHANGED ADDRMASK(reg["SP"]) /\ Arch!Rest
      BY <1>0, <1>2, <2>1, <2>3, CountedLow
    <3> QED  BY <1>2, <3>1
  <2>5. UNCHANGED [z \in Regs |-> Contents(reg, z)] /\ UNCHANGED RAM
    <3>1. CASE x \in Regs
      <4>1. v = [z \in Regs |-> Contents(reg, z)][x]
        BY <1>1, <3>1, SameRegisters DEF Arch!Operand
      <4> QED  BY <2>4, <3>1, <4>1, SameRegisters DEF Arch!Place
    <3>2. CASE x \notin Regs
      <4>1. x \notin Arch!Regs /\ v = RAM[Arch!Address(x)]
        BY <1>0, <1>1, <3>2, SameRegisters DEF Arch!Operand
      <4> DEFINE a == Arch!Address(x)
      <4>2. RAM' = [RAM EXCEPT ![a] = RAM[a]] /\ UNCHANGED [z \in Regs |-> Contents(reg, z)]
        BY <2>4, <4>1 DEF Arch!Place
      <4> HIDE DEF a
      <4> QED  BY <4>2
    <3> QED  BY <3>1, <3>2
  <2>6. doc = {"H"} \cup (F \cap {"C"})
                \cup (IF (Arch!Operand(Arch!ins.x) \div 2 ^ Arch!ins.n) % 2 = 0
                      THEN {"Z", "P"} ELSE Arch!Set(Arch!ins.n = 7, "S"))
    BY <1>1, <1>5 DEF doc
  <2> QED  BY <1>5, <2>1, <2>4, <2>5, <2>6 DEF Arch!Bits
<1>8. CASE ChangeBit
  <2> DEFINE low == v - one * w
             high == v + (1 - one) * w
             new == IF ins.op = "RES" THEN low ELSE high
  <2>1. /\ ins.op \in {"RES", "SET"}
        /\ Store(Fetched, x, IF ins.op = "RES" THEN IF Bit(v, w) THEN v - w ELSE v
                             ELSE IF Bit(v, w) THEN v ELSE v + w)
    BY <1>8 DEF ChangeBit
  <2>2. /\ (IF Bit(v, w) THEN v - w ELSE v) = low
        /\ (IF Bit(v, w) THEN v ELSE v + w) = high
        /\ low \in Byte /\ high \in Byte
    <3>1. ins.n \in 0 .. 7
      BY <2>1 DEF BitOps
    <3> HIDE DEF v
    <3> QED  BY <1>1, <3>1, OneBit
  <2> HIDE DEF low, high
  <2>3. Store(Fetched, x, new) /\ new \in Byte
    BY <2>1, <2>2
  <2> HIDE DEF new
  <2>4. new \in Int /\ new % 256 = new
    BY <2>3, SMT DEF Byte
  <2>5. /\ Arch!Place(x, new % 256)
        /\ \A p \in {"SP", "PC"} : reg'[p] = Fetched[p]
        /\ LOW_REGISTER(reg'["AF"]) = LOW_REGISTER(Fetched["AF"])
    BY <1>4, <2>3, <2>4, StoreCorrect
  <2>6. Arch!Place(x, new) /\ UNCHANGED ADDRMASK(reg["SP"]) /\ F' = F
    BY <1>4, <2>4, <2>5 DEF F
  <2>7. Arch!Rest
    <3>1. Arch!Advance
      BY <1>4, <2>5, Advances DEF Pairs
    <3> QED  BY <1>0, <3>1 DEF NoOthers, Arch!Rest, Arch!Alternate, Arch!Special
  <2>8. CASE ins.op = "RES"
    <3> DEFINE to(y) == y - ((y \div 2 ^ Arch!ins.n) % 2) * 2 ^ Arch!ins.n
    <3>1. new = to(v)
      BY <1>5, <2>8, Zenon DEF new, low
    <3> HIDE DEF to, v
    <3>2. Arch!Place(Arch!ins.x, to(Arch!Operand(Arch!ins.x)))
      BY <1>1, <1>5, <2>6, <3>1
    <3>3. Arch!Place(Arch!ins.x, LET y == Arch!Operand(Arch!ins.x) IN y - ((y \div 2 ^ Arch!ins.n) % 2) * 2 ^ Arch!ins.n)
      BY <3>2 DEF to
    <3> QED  BY <1>5, <2>6, <2>7, <2>8, <3>3, Zenon DEF Arch!Bits, Arch!KeepFlags
  <2>9. CASE ins.op = "SET"
    <3> DEFINE to(y) == y + (1 - ((y \div 2 ^ Arch!ins.n) % 2)) * 2 ^ Arch!ins.n
    <3>1. new = to(v)
      BY <1>5, <2>9, Zenon DEF new, high
    <3> HIDE DEF to, v
    <3>2. Arch!Place(Arch!ins.x, to(Arch!Operand(Arch!ins.x)))
      BY <1>1, <1>5, <2>6, <3>1
    <3>3. Arch!Place(Arch!ins.x, LET y == Arch!Operand(Arch!ins.x) IN y + (1 - ((y \div 2 ^ Arch!ins.n) % 2)) * 2 ^ Arch!ins.n)
      BY <3>2 DEF to
    <3> QED  BY <1>5, <2>6, <2>7, <2>9, <3>3, Zenon DEF Arch!Bits, Arch!KeepFlags
  <2> QED  BY <2>1, <2>8, <2>9
<1> QED  BY <1>6, <1>7, <1>8

-----------------------------------------------------------------------------
(* ADD, ADC and SBC of words: the high bytes, with what the low ones carry. *)

\* The bytes of a word.
LEMMA WordBytes ==
    ASSUME NEW x \in Int, ADDRMASK(x) = x
    PROVE  /\ x \div 256 \in Byte /\ x % 256 \in Byte
           /\ x = 256 * (x \div 256) + (x % 256)
<1>1. 0 =< x /\ x < 65536
  BY SMT DEF ADDRMASK
<1>2. x \div 256 \in Byte
  BY <1>1, SMTT(60) DEF Byte
<1>3. x % 256 \in Byte
  BY SMTT(60) DEF Byte
<1>4. x = 256 * (x \div 256) + (x % 256)
  BY SMTT(60)
<1> QED  BY <1>2, <1>3, <1>4

\* A sum of words is a sum of its high bytes.
LEMMA HighSum ==
    ASSUME NEW x \in Int, ADDRMASK(x) = x, NEW y \in Int, ADDRMASK(y) = y, NEW c \in {0, 1}
    PROVE  LET a == x \div 256
               al == x % 256
               b == y \div 256
               bl == y % 256
               k == IF al + bl + c > 255 THEN 1 ELSE 0
           IN  /\ k \in {0, 1}
               /\ (x + y + c) \div 256 = a + b + k
               /\ (x % 4096) + (y % 4096) + c > 4095 <=> (a % 16) + (b % 16) + k > 15
               /\ x + y + c > 65535 <=> a + b + k > 255
               /\ ADDRMASK(x + y + c) > 32767 <=> Bit((x + y + c) \div 256, 128)
<1> DEFINE a == x \div 256
           al == x % 256
           b == y \div 256
           bl == y % 256
           k == IF al + bl + c > 255 THEN 1 ELSE 0
<1>a. /\ a \in Byte /\ al \in Byte /\ b \in Byte /\ bl \in Byte
      /\ x = 256 * a + al /\ y = 256 * b + bl
  BY WordBytes
<1>k. k \in Int /\ k = IF al + bl + c > 255 THEN 1 ELSE 0
  BY <1>a DEF Byte
<1> HIDE DEF a, al, b, bl, k
<1> DEFINE l == al + bl + c - 256 * k
<1>1. k \in {0, 1} /\ al + bl + c = 256 * k + l /\ l \in Byte
  BY <1>a, <1>k, SMTT(60) DEF Byte
<1>2. l \in Byte /\ x + y + c = 256 * (a + b + k) + l
  BY <1>a, <1>k, <1>1, SMTT(60) DEF Byte
<1>3. a \in Int /\ b \in Int /\ al \in Int /\ bl \in Int /\ c \in Int
  BY <1>a DEF Byte
<1>4. x % 4096 = 256 * (a % 16) + al /\ y % 4096 = 256 * (b % 16) + bl
  BY <1>a, <1>k, SMTT(60) DEF Byte
<1>5. a % 16 \in Int /\ b % 16 \in Int
  BY <1>a, <1>k, <1>3
<1>6. (x % 4096) + (y % 4096) + c = 256 * ((a % 16) + (b % 16) + k) + l
  BY <1>a, <1>k, <1>1, <1>3, <1>4, <1>5
<1> DEFINE h == (a % 16) + (b % 16) + k
           n == a + b + k
           s == x + y + c
           d == (x % 4096) + (y % 4096) + c
<1>7. h \in Int /\ n \in Int /\ d = 256 * h + l /\ s = 256 * n + l
  BY <1>a, <1>k, <1>1, <1>2, <1>3, <1>5, <1>6
<1> HIDE DEF h, n, s, d, l
<1>8. /\ d > 4095 <=> h > 15
      /\ s > 65535 <=> n > 255
      /\ s \div 256 = n
  BY <1>a, <1>k, <1>2, <1>7, SMTT(60) DEF Byte
<1>9. ADDRMASK(s) > 32767 <=> Bit(n, 128)
  BY <1>a, <1>k, <1>2, <1>7, SMTT(60) DEF ADDRMASK, Byte, Bit
<1> QED  BY <1>1, <1>8, <1>9 DEF h, n, s, d, a, al, b, bl, k

\* A difference of words is a difference of its high bytes.
LEMMA HighDifference ==
    ASSUME NEW x \in Int, ADDRMASK(x) = x, NEW y \in Int, ADDRMASK(y) = y, NEW c \in {0, 1}
    PROVE  LET a == x \div 256
               al == x % 256
               b == y \div 256
               bl == y % 256
               k == IF al - bl - c < 0 THEN 1 ELSE 0
           IN  /\ k \in {0, 1}
               /\ (x - y - c) \div 256 = a - b - k
               /\ (x % 4096) < (y % 4096) + c <=> (a % 16) - (b % 16) - k < 0
               /\ x < y + c <=> a - b - k < 0
               /\ ADDRMASK(x - y - c) > 32767 <=> Bit((x - y - c) \div 256, 128)
<1> DEFINE a == x \div 256
           al == x % 256
           b == y \div 256
           bl == y % 256
           k == IF al - bl - c < 0 THEN 1 ELSE 0
<1>a. /\ a \in Byte /\ al \in Byte /\ b \in Byte /\ bl \in Byte
      /\ x = 256 * a + al /\ y = 256 * b + bl
  BY WordBytes
<1>k. k \in Int /\ k = IF al - bl - c < 0 THEN 1 ELSE 0
  BY <1>a DEF Byte
<1> HIDE DEF a, al, b, bl, k
<1> DEFINE l == al - bl - c + 256 * k
<1>1. k \in {0, 1} /\ l \in Byte /\ al - bl - c = l - 256 * k
  BY <1>a, <1>k, SMTT(60) DEF Byte
<1>2. x - y - c = 256 * (a - b - k) + l
  BY <1>a, <1>k, <1>1, SMTT(60) DEF Byte
<1>3. a \in Int /\ b \in Int /\ al \in Int /\ bl \in Int /\ c \in Int
  BY <1>a DEF Byte
<1>4. x % 4096 = 256 * (a % 16) + al /\ y % 4096 = 256 * (b % 16) + bl
  BY <1>a, <1>k, SMTT(60) DEF Byte
<1>5. a % 16 \in Int /\ b % 16 \in Int
  BY <1>a, <1>k, <1>3
<1> HIDE DEF l
<1> DEFINE h == (a % 16) - (b % 16) - k
           n == a - b - k
           s == x - y - c
           d == (x % 4096) - ((y % 4096) + c)
<1>6. l \in Int
  BY <1>a, <1>k, <1>1 DEF Byte
<1>7. h \in Int /\ n \in Int /\ d = 256 * h + l /\ s = 256 * n + l
  BY <1>a, <1>k, <1>1, <1>2, <1>3, <1>4, <1>5, <1>6
<1>8. /\ (x % 4096) < (y % 4096) + c <=> d < 0
      /\ x < y + c <=> s < 0
  BY <1>a, <1>k, <1>3, <1>4, <1>5
<1> HIDE DEF h, n, s, d
<1>9. /\ d < 0 <=> h < 0
      /\ s < 0 <=> n < 0
      /\ s \div 256 = n
  BY <1>a, <1>k, <1>1, <1>7, SMTT(60) DEF Byte
<1>10. ADDRMASK(s) > 32767 <=> Bit(n, 128)
  BY <1>a, <1>k, <1>1, <1>7, SMTT(60) DEF ADDRMASK, Byte, Bit
<1> QED  BY <1>1, <1>8, <1>9, <1>10 DEF h, n, s, a, al, b, bl, k

\* Overflow of a word is overflow of its high byte.
LEMMA SignedWords ==
    ASSUME NEW a \in Byte, NEW al \in Byte, NEW x \in Int, x = 256 * a + al
    PROVE  /\ Arch!Signed16(x) = 256 * Arch!Signed(a) + al
           /\ Arch!Signed(a) \in Int
  BY SMTT(60) DEF Byte, Arch!Signed, Arch!Signed16

\* A sum of words overflows when that of its high bytes does.
LEMMA SumOverflow ==
    ASSUME NEW x \in Int, ADDRMASK(x) = x, NEW y \in Int, ADDRMASK(y) = y, NEW c \in {0, 1}
    PROVE  LET a == x \div 256
               al == x % 256
               b == y \div 256
               bl == y % 256
               k == IF al + bl + c > 255 THEN 1 ELSE 0
           IN  (\/ Arch!Signed16(x) + Arch!Signed16(y) + c < -32768
                 \/ Arch!Signed16(x) + Arch!Signed16(y) + c > 32767)
                 <=> Arch!Signed(a) + Arch!Signed(b) + k \notin -128 .. 127
<1> DEFINE a == x \div 256
           al == x % 256
           b == y \div 256
           bl == y % 256
           k == IF al + bl + c > 255 THEN 1 ELSE 0
<1>a. /\ a \in Byte /\ al \in Byte /\ b \in Byte /\ bl \in Byte
      /\ x = 256 * a + al /\ y = 256 * b + bl
  BY WordBytes
<1>k. k \in Int /\ k = IF al + bl + c > 255 THEN 1 ELSE 0
  BY <1>a DEF Byte
<1> HIDE DEF a, al, b, bl, k
<1> DEFINE l == al + bl + c - 256 * k
           n == Arch!Signed(a) + Arch!Signed(b) + k
           s == Arch!Signed16(x) + Arch!Signed16(y) + c
<1>1. al + bl + c = 256 * k + l /\ l \in Byte
  BY <1>a, <1>k, SMTT(60) DEF Byte
<1>2. /\ Arch!Signed16(x) = 256 * Arch!Signed(a) + al /\ Arch!Signed(a) \in Int
      /\ Arch!Signed16(y) = 256 * Arch!Signed(b) + bl /\ Arch!Signed(b) \in Int
  BY <1>a, SignedWords
<1>3. al \in Int /\ bl \in Int /\ c \in Int /\ l \in Int
  BY <1>a, <1>k, <1>1 DEF Byte
<1> HIDE DEF l
<1>4. n \in Int /\ s \in Int /\ s = 256 * n + l
  BY <1>a, <1>k, <1>1, <1>2, <1>3
<1> HIDE DEF n, s
<1>5. (-32768 =< s /\ s =< 32767) <=> (-128 =< n /\ n =< 127)
  BY <1>a, <1>k, <1>1, <1>4, SMTT(60) DEF Byte
<1>6. (s < -32768 \/ s > 32767) <=> n \notin -128 .. 127
  BY <1>a, <1>k, <1>4, <1>5, SMT
<1> QED  BY <1>6 DEF s, n, a, al, b, bl, k

\* A difference of words overflows when that of its high bytes does.
LEMMA DifferenceOverflow ==
    ASSUME NEW x \in Int, ADDRMASK(x) = x, NEW y \in Int, ADDRMASK(y) = y, NEW c \in {0, 1}
    PROVE  LET a == x \div 256
               al == x % 256
               b == y \div 256
               bl == y % 256
               k == IF al - bl - c < 0 THEN 1 ELSE 0
           IN  (\/ Arch!Signed16(x) - Arch!Signed16(y) - c < -32768
                 \/ Arch!Signed16(x) - Arch!Signed16(y) - c > 32767)
                 <=> Arch!Signed(a) - Arch!Signed(b) - k \notin -128 .. 127
<1> DEFINE a == x \div 256
           al == x % 256
           b == y \div 256
           bl == y % 256
           k == IF al - bl - c < 0 THEN 1 ELSE 0
<1>a. /\ a \in Byte /\ al \in Byte /\ b \in Byte /\ bl \in Byte
      /\ x = 256 * a + al /\ y = 256 * b + bl
  BY WordBytes
<1>k. k \in Int /\ k = IF al - bl - c < 0 THEN 1 ELSE 0
  BY <1>a DEF Byte
<1> HIDE DEF a, al, b, bl, k
<1> DEFINE l == al - bl - c + 256 * k
           n == Arch!Signed(a) - Arch!Signed(b) - k
           s == Arch!Signed16(x) - Arch!Signed16(y) - c
<1>1. al - bl - c = l - 256 * k /\ l \in Byte
  BY <1>a, <1>k, SMTT(60) DEF Byte
<1>2. /\ Arch!Signed16(x) = 256 * Arch!Signed(a) + al /\ Arch!Signed(a) \in Int
      /\ Arch!Signed16(y) = 256 * Arch!Signed(b) + bl /\ Arch!Signed(b) \in Int
  BY <1>a, SignedWords
<1>3. al \in Int /\ bl \in Int /\ c \in Int /\ l \in Int
  BY <1>a, <1>k, <1>1 DEF Byte
<1> HIDE DEF l
<1>4. n \in Int /\ s \in Int /\ s = 256 * n + l
  BY <1>a, <1>k, <1>1, <1>2, <1>3
<1> HIDE DEF n, s
<1>5. (-32768 =< s /\ s =< 32767) <=> (-128 =< n /\ n =< 127)
  BY <1>a, <1>k, <1>1, <1>4, SMTT(60) DEF Byte
<1>6. (s < -32768 \/ s > 32767) <=> n \notin -128 .. 127
  BY <1>a, <1>k, <1>4, <1>5, SMT
<1> QED  BY <1>6 DEF s, n, a, al, b, bl, k

\* The flags of a sum of words, read off its high bytes.
LEMMA SumWordFlags ==
    ASSUME NEW x \in Int, ADDRMASK(x) = x, NEW y \in Int, ADDRMASK(y) = y, NEW c \in {0, 1}
    PROVE  /\ (x + y + c) \div 256 \in Int
           /\ cbitsTable(Cbits(x \div 256, y \div 256, (x + y + c) \div 256)) = Arch!Set((x % 4096) + (y % 4096) + c > 4095, "H")
                                 \cup Arch!Set(x + y + c > 65535, "C")
           /\ SET_PV(Cbits(x \div 256, y \div 256, (x + y + c) \div 256))
                = Arch!Set(\/ Arch!Signed16(x) + Arch!Signed16(y) + c < -32768
                           \/ Arch!Signed16(x) + Arch!Signed16(y) + c > 32767, "P")
           /\ When("S", Bit((x + y + c) \div 256, 128)) = Arch!Set(ADDRMASK(x + y + c) > 32767, "S")
<1> DEFINE a == x \div 256
           al == x % 256
           b == y \div 256
           bl == y % 256
           k == IF al + bl + c > 255 THEN 1 ELSE 0
           n == a + b + k
           cb == Cbits(a, b, n)
           half == (x % 4096) + (y % 4096) + c > 4095
           over == x + y + c > 65535
           pv == \/ Arch!Signed16(x) + Arch!Signed16(y) + c < -32768
                 \/ Arch!Signed16(x) + Arch!Signed16(y) + c > 32767
           sign == ADDRMASK(x + y + c) > 32767
           odd128 == (Bit(a, 128) # Bit(b, 128)) # Bit(n, 128)
<1>1. /\ a \in Byte /\ al \in Byte /\ b \in Byte /\ bl \in Byte
      /\ x = 256 * a + al /\ y = 256 * b + bl
  BY WordBytes
<1>2. a \in Int /\ b \in Int /\ al \in Int /\ bl \in Int /\ c \in Int /\ k \in Int
  BY <1>1 DEF Byte
<1> HIDE DEF a, al, b, bl
<1>k. k \in Int /\ k = IF al + bl + c > 255 THEN 1 ELSE 0
  BY <1>2
<1> HIDE DEF k
<1>3. /\ k \in {0, 1}
      /\ (x + y + c) \div 256 = n
      /\ half <=> (a % 16) + (b % 16) + k > 15
      /\ over <=> n > 255
      /\ sign <=> Bit(n, 128)
  <2>1. k \in {0, 1}
    BY HighSum, SMTT(30) DEF a, al, b, bl, k
  <2>2. (x + y + c) \div 256 = n
    BY HighSum, SMTT(30) DEF a, al, b, bl, k
  <2>3. half <=> (a % 16) + (b % 16) + k > 15
    BY HighSum, SMTT(30) DEF a, al, b, bl, k
  <2>4. over <=> n > 255
    BY HighSum, SMTT(30) DEF a, al, b, bl, k
  <2>5. sign <=> Bit((x + y + c) \div 256, 128)
    BY HighSum, SMTT(30) DEF a, al, b, bl, k
  <2>6. sign <=> Bit(n, 128)
    <3> HIDE DEF n, sign
    <3> QED  BY <2>2, <2>5
  <2> HIDE DEF half, over, sign, n
  <2> QED  BY <2>1, <2>2, <2>3, <2>4, <2>6
<1>4. pv <=> Arch!Signed(a) + Arch!Signed(b) + k \notin -128 .. 127
  BY SumOverflow, SMTT(90) DEF a, al, b, bl, k
<1>5. n \in Int
  BY <1>2
<1>6. Bit(cb, 16) <=> half
  <2>1. Bit(cb, 16) <=> (a % 16) + (b % 16) + k > 15
    <3>1. Bit(cb, 16) <=> ((Bit(a, 16) # Bit(b, 16)) # Bit(n, 16))
      BY <1>2, <1>5, CbitsBits
    <3> QED  BY <3>1, <1>1, <1>3, SumBit16
  <2> QED  BY <1>3, <2>1
<1>7. Bit(cb, 256) <=> over
  <2>1. Bit(cb, 256) <=> n > 255
    <3>1. Bit(cb, 256) <=> ((Bit(a, 256) # Bit(b, 256)) # Bit(n, 256))
      BY <1>2, <1>5, CbitsBits
    <3> QED  BY <3>1, <1>1, <1>3, SumBit256
  <2> QED  BY <1>3, <2>1
<1>8. (Bit(cb, 256) # Bit(cb, 128)) <=> pv
  <2>1. Bit(cb, 128) <=> odd128
    BY <1>2, <1>5, CbitsBits
  <2>2. (odd128 # (n > 255)) <=> pv
    <3>1. (odd128 # (n > 255)) <=> Arch!Signed(a) + Arch!Signed(b) + k \notin -128 .. 127
      BY <1>1, <1>3, SumBit128
    <3> HIDE DEF n, pv, odd128
    <3> QED  BY <3>1, <1>4
  <2>3. Bit(cb, 256) <=> n > 255
    BY <1>3, <1>7
  <2> QED  BY <2>1, <2>2, <2>3, BitsDiffer DEF Bit
<1>12. (x + y + c) \div 256 = n
  BY <1>3
<1> HIDE DEF half, over, pv, sign, n, cb
<1>9. cbitsTable(cb) = Arch!Set(half, "H") \cup Arch!Set(over, "C")
  BY <1>6, <1>7 DEF cbitsTable, When, Arch!Set
<1>10. SET_PV(cb) = Arch!Set(pv, "P")
  BY <1>8 DEF SET_PV, When, Arch!Set
<1>11. When("S", Bit(n, 128)) = Arch!Set(sign, "S")
  BY <1>3 DEF When, Arch!Set
<1>13. Cbits(x \div 256, y \div 256, (x + y + c) \div 256) = cb
  BY <1>12, Zenon DEF cb, a, b
<1>14. (x + y + c) \div 256 \in Int
  BY <1>5, <1>12
<1> HIDE DEF cb
<1>15. cbitsTable(Cbits(x \div 256, y \div 256, (x + y + c) \div 256))
          = Arch!Set((x % 4096) + (y % 4096) + c > 4095, "H") \cup Arch!Set(x + y + c > 65535, "C")
  BY <1>9, <1>13, SMTT(30) DEF half, over, Arch!Set
<1>16. SET_PV(Cbits(x \div 256, y \div 256, (x + y + c) \div 256))
          = Arch!Set(\/ Arch!Signed16(x) + Arch!Signed16(y) + c < -32768
                     \/ Arch!Signed16(x) + Arch!Signed16(y) + c > 32767, "P")
  BY <1>10, <1>13, SMTT(30) DEF pv, Arch!Set
<1>17. When("S", Bit((x + y + c) \div 256, 128)) = Arch!Set(ADDRMASK(x + y + c) > 32767, "S")
  BY <1>11, <1>12, SMTT(30) DEF sign, Arch!Set
<1> QED  BY <1>14, <1>15, <1>16, <1>17, SMTT(60) DEF Arch!Set

\* The flags of a difference of words.
LEMMA DifferenceWordFlags ==
    ASSUME NEW x \in Int, ADDRMASK(x) = x, NEW y \in Int, ADDRMASK(y) = y, NEW c \in {0, 1}
    PROVE  /\ (x - y - c) \div 256 \in Int
           /\ cbitsTable(Cbits(x \div 256, y \div 256, (x - y - c) \div 256)) = Arch!Set((x % 4096) < (y % 4096) + c, "H")
                                 \cup Arch!Set(x < y + c, "C")
           /\ SET_PV(Cbits(x \div 256, y \div 256, (x - y - c) \div 256))
                = Arch!Set(\/ Arch!Signed16(x) - Arch!Signed16(y) - c < -32768
                           \/ Arch!Signed16(x) - Arch!Signed16(y) - c > 32767, "P")
           /\ When("S", Bit((x - y - c) \div 256, 128)) = Arch!Set(ADDRMASK(x - y - c) > 32767, "S")
<1> DEFINE a == x \div 256
           al == x % 256
           b == y \div 256
           bl == y % 256
           k == IF al - bl - c < 0 THEN 1 ELSE 0
           n == a - b - k
           cb == Cbits(a, b, n)
           half == (x % 4096) < (y % 4096) + c
           over == x < y + c
           pv == \/ Arch!Signed16(x) - Arch!Signed16(y) - c < -32768
                 \/ Arch!Signed16(x) - Arch!Signed16(y) - c > 32767
           sign == ADDRMASK(x - y - c) > 32767
           odd128 == (Bit(a, 128) # Bit(b, 128)) # Bit(n, 128)
<1>1. /\ a \in Byte /\ al \in Byte /\ b \in Byte /\ bl \in Byte
      /\ x = 256 * a + al /\ y = 256 * b + bl
  BY WordBytes
<1>2. a \in Int /\ b \in Int /\ al \in Int /\ bl \in Int /\ c \in Int /\ k \in Int
  BY <1>1 DEF Byte
<1> HIDE DEF a, al, b, bl
<1>k. k \in Int /\ k = IF al - bl - c < 0 THEN 1 ELSE 0
  BY <1>2
<1> HIDE DEF k
<1>3. /\ k \in {0, 1}
      /\ (x - y - c) \div 256 = n
      /\ half <=> (a % 16) - (b % 16) - k < 0
      /\ over <=> n < 0
      /\ sign <=> Bit(n, 128)
  <2>1. k \in {0, 1}
    BY HighDifference, SMTT(30) DEF a, al, b, bl, k
  <2>2. (x - y - c) \div 256 = n
    BY HighDifference, SMTT(30) DEF a, al, b, bl, k
  <2>3. half <=> (a % 16) - (b % 16) - k < 0
    BY HighDifference, SMTT(30) DEF a, al, b, bl, k
  <2>4. over <=> n < 0
    BY HighDifference, SMTT(30) DEF a, al, b, bl, k
  <2>5. sign <=> Bit((x - y - c) \div 256, 128)
    BY HighDifference, SMTT(30) DEF a, al, b, bl, k
  <2>6. sign <=> Bit(n, 128)
    <3> HIDE DEF n, sign
    <3> QED  BY <2>2, <2>5
  <2> HIDE DEF half, over, sign, n
  <2> QED  BY <2>1, <2>2, <2>3, <2>4, <2>6
<1>4. pv <=> Arch!Signed(a) - Arch!Signed(b) - k \notin -128 .. 127
  BY DifferenceOverflow, SMTT(60) DEF a, al, b, bl, k
<1>5. n \in Int
  BY <1>2
<1>6. Bit(cb, 16) <=> half
  <2>1. Bit(cb, 16) <=> (a % 16) - (b % 16) - k < 0
    <3>1. Bit(cb, 16) <=> ((Bit(a, 16) # Bit(b, 16)) # Bit(n, 16))
      BY <1>2, <1>5, CbitsBits
    <3> QED  BY <3>1, <1>1, <1>3, DifferenceBit16
  <2> QED  BY <1>3, <2>1
<1>7. Bit(cb, 256) <=> over
  <2>1. Bit(cb, 256) <=> n < 0
    <3>1. Bit(cb, 256) <=> ((Bit(a, 256) # Bit(b, 256)) # Bit(n, 256))
      BY <1>2, <1>5, CbitsBits
    <3> QED  BY <3>1, <1>1, <1>3, DifferenceBit256
  <2> QED  BY <1>3, <2>1
<1>8. (Bit(cb, 256) # Bit(cb, 128)) <=> pv
  <2>1. Bit(cb, 128) <=> odd128
    BY <1>2, <1>5, CbitsBits
  <2>2. (odd128 # (n < 0)) <=> pv
    <3>1. (odd128 # (n < 0)) <=> Arch!Signed(a) - Arch!Signed(b) - k \notin -128 .. 127
      <4>2. a \in Byte /\ b \in Byte
        BY <1>1
      <4>1. k \in {0, 1} /\ (over <=> n < 0)
        BY <1>3
      <4> HIDE DEF over, half, sign, pv, cb
      <4>3. \A q \in {0, 1} :
               (((Bit(a, 128) # Bit(b, 128)) # Bit(a - b - q, 128)) # (a - b - q < 0))
                 <=> Arch!Signed(a) - Arch!Signed(b) - q \notin -128 .. 127
        BY <4>2, DifferenceBit128
      <4> QED  BY <4>1, <4>3
    <3> HIDE DEF n, pv, odd128
    <3> QED  BY <3>1, <1>4
  <2>3. Bit(cb, 256) <=> n < 0
    BY <1>3, <1>7
  <2> QED  BY <2>1, <2>2, <2>3, BitsDiffer DEF Bit
<1>12. (x - y - c) \div 256 = n
  BY <1>3
<1> HIDE DEF half, over, pv, sign, n, cb
<1>9. cbitsTable(cb) = Arch!Set(half, "H") \cup Arch!Set(over, "C")
  BY <1>6, <1>7 DEF cbitsTable, When, Arch!Set
<1>10. SET_PV(cb) = Arch!Set(pv, "P")
  BY <1>8 DEF SET_PV, When, Arch!Set
<1>11. When("S", Bit(n, 128)) = Arch!Set(sign, "S")
  BY <1>3 DEF When, Arch!Set
<1>13. Cbits(x \div 256, y \div 256, (x - y - c) \div 256) = cb
  BY <1>12, Zenon DEF cb, a, b
<1>14. (x - y - c) \div 256 \in Int
  BY <1>5, <1>12
<1> HIDE DEF cb
<1>15. cbitsTable(Cbits(x \div 256, y \div 256, (x - y - c) \div 256))
          = Arch!Set((x % 4096) < (y % 4096) + c, "H") \cup Arch!Set(x < y + c, "C")
  BY <1>9, <1>13, SMTT(30) DEF half, over, Arch!Set
<1>16. SET_PV(Cbits(x \div 256, y \div 256, (x - y - c) \div 256))
          = Arch!Set(\/ Arch!Signed16(x) - Arch!Signed16(y) - c < -32768
                     \/ Arch!Signed16(x) - Arch!Signed16(y) - c > 32767, "P")
  BY <1>10, <1>13, SMTT(30) DEF pv, Arch!Set
<1>17. When("S", Bit((x - y - c) \div 256, 128)) = Arch!Set(ADDRMASK(x - y - c) > 32767, "S")
  BY <1>11, <1>12, SMTT(30) DEF sign, Arch!Set
<1> QED  BY <1>14, <1>15, <1>16, <1>17, SMTT(60) DEF Arch!Set

\* The tables of an own sum are looked up modulo 512.
LEMMA NineBits ==
    ASSUME NEW n \in Int
    PROVE  /\ n % 512 \in Int
           /\ cbitsTable(n % 512) = cbitsTable(n)
           /\ SET_PV(n % 512) = SET_PV(n)
           /\ SYX(n % 512) = SYX(n)
<1>0. n % 512 \in Int
  BY SMT
<1>1. /\ ((n % 512) \div 256) % 2 = (n \div 256) % 2
      /\ ((n % 512) \div 128) % 2 = (n \div 128) % 2
      /\ ((n % 512) \div 32) % 2 = (n \div 32) % 2
  BY SMTT(60)
<1>2. /\ ((n % 512) \div 16) % 2 = (n \div 16) % 2
      /\ ((n % 512) \div 8) % 2 = (n \div 8) % 2
  BY SMTT(60)
<1>3. \A w \in {256, 128, 32, 16, 8} : Bit(n % 512, w) = Bit(n, w)
  BY <1>1, <1>2 DEF Bit
<1>4. /\ Bit(n % 512, 256) = Bit(n, 256) /\ Bit(n % 512, 128) = Bit(n, 128)
      /\ Bit(n % 512, 32) = Bit(n, 32) /\ Bit(n % 512, 16) = Bit(n, 16)
      /\ Bit(n % 512, 8) = Bit(n, 8)
  BY <1>3
<1> QED  BY <1>0, <1>4 DEF cbitsTable, SET_PV, SYX, YX

\* Flags fl, of which the Z80 documents doc.
Leaves(fl, doc) == fl \in SUBSET FlagNames /\ fl \cap Arch!Documented = doc

\* The flags ADD HL,rr puts in F.
Added(p, q, x, y, f) ==
    (f \cap {"S", "Z", "P"})
      \cup (IF p = q THEN cbitsDup16Table((x + y) \div 256)
            ELSE YX((x + y) \div 256) \cup cbitsTable(High16Cbits(x, y, x + y)))

\* The documented ones are those the Z80 sets.
LEMMA AddedFlags ==
    ASSUME NEW x \in Int, ADDRMASK(x) = x, NEW y \in Int, ADDRMASK(y) = y,
           NEW p, NEW q, p = q => x = y, NEW f
    PROVE  Leaves(Added(p, q, x, y, f), (f \cap {"S", "Z", "P"}) \cup (Arch!Sum16(x, y, 0).fl \cap {"H", "C"}))
<1> DEFINE fl == Added(p, q, x, y, f)
           n == (x + y) \div 256
           cb == Cbits(x \div 256, y \div 256, n)
           carries == Arch!Set((x % 4096) + (y % 4096) + 0 > 4095, "H")
                        \cup Arch!Set(x + y + 0 > 65535, "C")
<1>1. x + y + 0 = x + y
  OBVIOUS
<1>2. n \in Int /\ cbitsTable(cb) = carries
  <2>1. /\ (x + y + 0) \div 256 \in Int
        /\ cbitsTable(Cbits(x \div 256, y \div 256, (x + y + 0) \div 256)) = carries
    <3> HIDE DEF fl
    <3> QED  BY SumWordFlags, SMTT(60) DEF Arch!Set
  <2> HIDE DEF carries
  <2> QED  BY <1>1, <2>1
<1>3. carries \subseteq {"H", "C"}
  BY DEF Arch!Set
<1>4. High16Cbits(x, y, x + y) = cb
  BY DEF High16Cbits
<1>5. p = q => cbitsTable(cb) = cbitsTable(n)
  <2> HIDE DEF n
  <2> SUFFICES ASSUME p = q PROVE cbitsTable(cb) = cbitsTable(n)
    OBVIOUS
  <2>1. x \div 256 \in Int /\ y \div 256 = x \div 256
    OBVIOUS
  <2> QED  BY <1>2, <2>1, OwnCarries
<1> HIDE DEF n, cb, carries, fl
<1>6. fl = (f \cap {"S", "Z", "P"}) \cup YX(n) \cup carries
  <2>1. fl = (f \cap {"S", "Z", "P"})
                  \cup (IF p = q THEN cbitsDup16Table(n) ELSE YX(n) \cup cbitsTable(cb))
    BY <1>4 DEF n, fl, Added
  <2> QED  BY <1>2, <1>5, <2>1 DEF cbitsDup16Table
<1>7. YX(n) \subseteq {"Y", "X"}
  BY DEF YX, When
<1>8. fl \in SUBSET FlagNames
  BY <1>3, <1>6, <1>7 DEF FlagNames
<1>9. fl \cap Arch!Documented = (f \cap {"S", "Z", "P"}) \cup carries
  BY <1>3, <1>6, <1>7 DEF Arch!Documented
<1>10. Arch!Sum16(x, y, 0).fl \cap {"H", "C"} = carries
  BY SMTT(60) DEF Arch!Sum16, Arch!SZ16, Arch!Of, Arch!Set, carries
<1> QED  BY <1>8, <1>9, <1>10 DEF fl, Leaves

\* The flags ADC HL,rr puts in F.
Carried(p, q, x, y, c) ==
    (IF q = p THEN cbitsZ80DupTable(((x + y + c) \div 256) % 512)
     ELSE SYX((x + y + c) \div 256) \cup cbitsZ80Table(High16Cbits(x, y, x + y + c)))
      \cup When("Z", ADDRMASK(x + y + c) = 0)

\* The documented ones are those the Z80 sets.
LEMMA CarriedFlags ==
    ASSUME NEW x \in Int, ADDRMASK(x) = x, NEW y \in Int, ADDRMASK(y) = y, NEW c \in {0, 1},
           NEW p, NEW q, p = q => x = y
    PROVE  Leaves(Carried(p, q, x, y, c), Arch!Sum16(x, y, c).fl)
<1> DEFINE fl == Carried(p, q, x, y, c)
           n == (x + y + c) \div 256
           cb == Cbits(x \div 256, y \div 256, n)
           hc == Arch!Set((x % 4096) + (y % 4096) + c > 4095, "H")
                   \cup Arch!Set(x + y + c > 65535, "C")
           sf == Arch!Set(ADDRMASK(x + y + c) > 32767, "S")
           zf == Arch!Set(ADDRMASK(x + y + c) = 0, "Z")
           pf == Arch!Set(\/ Arch!Signed16(x) + Arch!Signed16(y) + c < -32768
                          \/ Arch!Signed16(x) + Arch!Signed16(y) + c > 32767, "P")
<1>1. n \in Int /\ cbitsTable(cb) = hc /\ SET_PV(cb) = pf /\ When("S", Bit(n, 128)) = sf
  BY SumWordFlags, SMTT(60) DEF Arch!Set
<1>2. When("Z", ADDRMASK(x + y + c) = 0) = zf
  BY DEF When, Arch!Set
<1>3. hc \subseteq {"H", "C"} /\ sf \subseteq {"S"} /\ zf \subseteq {"Z"} /\ pf \subseteq {"P"}
  BY DEF Arch!Set
<1>4. High16Cbits(x, y, x + y + c) = cb
  BY DEF High16Cbits
<1>5. p = q => cbitsTable(cb) = cbitsTable(n) /\ SET_PV(cb) = SET_PV(n)
  <2> HIDE DEF n, hc, sf, zf, pf
  <2> SUFFICES ASSUME p = q PROVE cbitsTable(cb) = cbitsTable(n) /\ SET_PV(cb) = SET_PV(n)
    OBVIOUS
  <2>1. x \div 256 \in Int /\ y \div 256 = x \div 256
    OBVIOUS
  <2> QED  BY <1>1, <2>1, OwnCarries
<1>6. fl = (IF q = p THEN cbitsZ80DupTable(n % 512) ELSE SYX(n) \cup cbitsZ80Table(cb)) \cup zf
  BY <1>2, <1>4 DEF Carried
<1> HIDE DEF n, cb, hc, sf, zf, pf, fl
<1>7. /\ cbitsTable(n % 512) = cbitsTable(n) /\ SET_PV(n % 512) = SET_PV(n)
      /\ SYX(n % 512) = SYX(n)
  BY <1>1, NineBits
<1>8. /\ cbitsZ80DupTable(n % 512) = cbitsTable(n) \cup SET_PV(n) \cup SYX(n)
      /\ cbitsZ80Table(cb) = hc \cup pf
      /\ SYX(n) = YX(n) \cup sf
  BY <1>1, <1>7 DEF cbitsZ80DupTable, cbitsZ80Table, SYX
<1>9. fl = YX(n) \cup hc \cup sf \cup zf \cup pf
  BY <1>1, <1>5, <1>6, <1>8
<1>10. YX(n) \subseteq {"Y", "X"}
  BY DEF YX, When
<1>11. fl \in SUBSET FlagNames
  BY <1>3, <1>9, <1>10 DEF FlagNames
<1>12. fl \cap Arch!Documented = (hc) \cup sf \cup zf \cup pf
  <2> DEFINE d == (hc) \cup sf \cup zf \cup pf
  <2>1. fl = YX(n) \cup d
    BY <1>9
  <2>2. d \subseteq Arch!Documented
    BY <1>3 DEF Arch!Documented
  <2>3. YX(n) \cap Arch!Documented = {}
    BY <1>10 DEF Arch!Documented
  <2> HIDE DEF d
  <2>4. fl \cap Arch!Documented = d
    BY <2>1, <2>2, <2>3
  <2> QED  BY <2>4 DEF d
<1>13. Arch!Sum16(x, y, c).fl = (hc) \cup sf \cup zf \cup pf
  <2>1. Arch!Word(x + y + c) = ADDRMASK(x + y + c)
    BY DEF Arch!Word, ADDRMASK
  <2> QED
    BY <2>1, SMTT(60) DEF Arch!Sum16, Arch!SZ16, Arch!Of, Arch!Set, hc, sf, zf, pf
<1> QED  BY <1>11, <1>12, <1>13, Zenon DEF fl, Leaves

\* The flags SBC HL,rr puts in F.
Borrowed(p, q, x, y, c) ==
    (IF q = p THEN cbits2Z80DupTable(((x - y - c) \div 256) % 512)
     ELSE SYX((x - y - c) \div 256) \cup cbits2Z80Table(High16Cbits(x, y, x - y - c)))
      \cup When("Z", ADDRMASK(x - y - c) = 0)

\* The documented ones are those the Z80 sets.
LEMMA BorrowedFlags ==
    ASSUME NEW x \in Int, ADDRMASK(x) = x, NEW y \in Int, ADDRMASK(y) = y, NEW c \in {0, 1},
           NEW p, NEW q, p = q => x = y
    PROVE  Leaves(Borrowed(p, q, x, y, c), Arch!Difference16(x, y, c).fl)
<1> DEFINE fl == Borrowed(p, q, x, y, c)
           n == (x - y - c) \div 256
           cb == Cbits(x \div 256, y \div 256, n)
           hc == Arch!Set((x % 4096) < (y % 4096) + c, "H")
                   \cup Arch!Set(x < y + c, "C")
           sf == Arch!Set(ADDRMASK(x - y - c) > 32767, "S")
           zf == Arch!Set(ADDRMASK(x - y - c) = 0, "Z")
           pf == Arch!Set(\/ Arch!Signed16(x) - Arch!Signed16(y) - c < -32768
                          \/ Arch!Signed16(x) - Arch!Signed16(y) - c > 32767, "P")
<1>1. n \in Int /\ cbitsTable(cb) = hc /\ SET_PV(cb) = pf /\ When("S", Bit(n, 128)) = sf
  BY DifferenceWordFlags, SMTT(60) DEF Arch!Set
<1>2. When("Z", ADDRMASK(x - y - c) = 0) = zf
  BY DEF When, Arch!Set
<1>3. hc \subseteq {"H", "C"} /\ sf \subseteq {"S"} /\ zf \subseteq {"Z"} /\ pf \subseteq {"P"}
  BY DEF Arch!Set
<1>4. High16Cbits(x, y, x - y - c) = cb
  BY DEF High16Cbits
<1>5. p = q => cbitsTable(cb) = cbitsTable(n) /\ SET_PV(cb) = SET_PV(n)
  <2> HIDE DEF n, hc, sf, zf, pf
  <2> SUFFICES ASSUME p = q PROVE cbitsTable(cb) = cbitsTable(n) /\ SET_PV(cb) = SET_PV(n)
    OBVIOUS
  <2>1. x \div 256 \in Int /\ y \div 256 = x \div 256
    OBVIOUS
  <2> QED  BY <1>1, <2>1, OwnCarries
<1>6. fl = (IF q = p THEN cbits2Z80DupTable(n % 512) ELSE SYX(n) \cup cbits2Z80Table(cb)) \cup zf
  BY <1>2, <1>4 DEF Borrowed
<1> HIDE DEF n, cb, hc, sf, zf, pf, fl
<1>7. /\ cbitsTable(n % 512) = cbitsTable(n) /\ SET_PV(n % 512) = SET_PV(n)
      /\ SYX(n % 512) = SYX(n)
  BY <1>1, NineBits
<1>8. /\ cbits2Z80DupTable(n % 512) = cbitsTable(n) \cup SET_PV(n) \cup {"N"} \cup SYX(n)
      /\ cbits2Z80Table(cb) = hc \cup pf \cup {"N"}
      /\ SYX(n) = YX(n) \cup sf
  BY <1>1, <1>7 DEF cbits2Z80DupTable, cbits2Z80Table, cbitsZ80Table, SYX
<1>9. fl = YX(n) \cup {"N"} \cup hc \cup sf \cup zf \cup pf
  BY <1>1, <1>5, <1>6, <1>8
<1>10. YX(n) \subseteq {"Y", "X"}
  BY DEF YX, When
<1>11. fl \in SUBSET FlagNames
  BY <1>3, <1>9, <1>10 DEF FlagNames
<1>12. fl \cap Arch!Documented = ({"N"} \cup hc) \cup sf \cup zf \cup pf
  <2> DEFINE d == ({"N"} \cup hc) \cup sf \cup zf \cup pf
  <2>1. fl = YX(n) \cup d
    BY <1>9
  <2>2. d \subseteq Arch!Documented
    BY <1>3 DEF Arch!Documented
  <2>3. YX(n) \cap Arch!Documented = {}
    BY <1>10 DEF Arch!Documented
  <2> HIDE DEF d
  <2>4. fl \cap Arch!Documented = d
    BY <2>1, <2>2, <2>3
  <2> QED  BY <2>4 DEF d
<1>13. Arch!Difference16(x, y, c).fl = ({"N"} \cup hc) \cup sf \cup zf \cup pf
  <2>1. Arch!Word(x - y - c) = ADDRMASK(x - y - c)
    BY DEF Arch!Word, ADDRMASK
  <2> QED
    BY <2>1, SMTT(60) DEF Arch!Difference16, Arch!SZ16, Arch!Of, Arch!Set, hc, sf, zf, pf
<1> QED  BY <1>11, <1>12, <1>13, Zenon DEF fl, Leaves

\* A sum put into a pair, the operands masked and the flags set.
LEMMA SumPlaced ==
    ASSUME reg \in [Pairs -> Int], NEW p \in RegPairs \ {"AF"}, NEW q \in WordRegs,
           NEW s \in Int, NEW fl, NEW doc, Leaves(fl, doc),
           Registers([SetFlags(Masked(Fetched, {p, q}), fl) EXCEPT ![p] = s]), NoOthers
    PROVE  /\ Arch!PlaceWord(p, ADDRMASK(s))
           /\ Arch!FlagsBecome(doc)
           /\ UNCHANGED RAM /\ Arch!Rest
<1> DEFINE m == Masked(Fetched, {p, q})
           h == SetFlags(m, fl)
<1>1. /\ p \in Pairs /\ "AF" \in Pairs /\ "SP" \in Pairs /\ "PC" \in Pairs
      /\ p \notin {"AF", "SP", "PC"} /\ {p, q} \cap {"AF", "PC"} = {}
      /\ \A z \in Regs : PairOf(z) \in Pairs \ {"PC"}
      /\ RegPairs \subseteq Pairs
  BY OperandNames DEF WordRegs, Pairs, RegPairs
<1>2. /\ Fetched \in [Pairs -> Int]
      /\ \A z \in Pairs \ {"PC"} : Fetched[z] = reg[z]
      /\ reg["PC"] \in Int
      /\ \A z \in Regs : Contents(Fetched, z) = Contents(reg, z)
  BY FetchedContents, FetchedKeeps
<1>3. /\ m \in [Pairs -> Int]
      /\ m["PC"] = Fetched["PC"] /\ ADDRMASK(m["SP"]) = ADDRMASK(reg["SP"])
      /\ \A z \in Pairs : m[z] = Fetched[z] \/ m[z] = ADDRMASK(Fetched[z])
  BY <1>1, <1>2, MaskedTwice DEF Masked
<1>4. \A z \in Regs : Contents(m, z) = Contents(reg, z)
  <2>1. \A w \in Int : /\ HIGH_REGISTER(ADDRMASK(w)) = HIGH_REGISTER(w)
                       /\ LOW_REGISTER(ADDRMASK(w)) = LOW_REGISTER(w)
    BY SMTT(60) DEF HIGH_REGISTER, LOW_REGISTER, ADDRMASK
  <2> HIDE DEF m
  <2>2. ASSUME NEW z \in Regs PROVE Contents(m, z) = Contents(Fetched, z)
    <3>1. PairOf(z) \in Pairs /\ Fetched[PairOf(z)] \in Int
      BY <1>1, <1>2
    <3> QED  BY <1>3, <2>1, <3>1 DEF Contents
  <2> QED  BY <1>2, <2>2
<1> HIDE DEF m
<1>5. /\ h \in [Pairs -> Int]
      /\ \A z \in Regs : Contents(h, z) = Contents(m, z)
      /\ FlagsIn(LOW_REGISTER(h["AF"])) = fl
      /\ \A z \in {"SP", "PC"} : h[z] = m[z]
  BY <1>3, FlagsPut DEF Leaves
<1>6. RAM' = RAM /\ reg' = [h EXCEPT ![p] = s]
  BY DEF Registers, m
<1> HIDE DEF h
<1>7. /\ reg' \in [Pairs -> Int] /\ reg'[p] = s
      /\ \A z \in Pairs \ {p} : reg'[z] = h[z]
  BY <1>1, <1>5, <1>6
<1>8. [z \in Regs |-> Contents(reg', z)]
        = Arch!InPair([z \in Regs |-> Contents(h, z)], p, ADDRMASK(s))
  BY <1>1, <1>5, <1>7, PairPut
<1>9. [z \in Regs |-> Contents(h, z)] = [z \in Regs |-> Contents(reg, z)]
  BY <1>4, <1>5
<1>10. /\ reg'["AF"] = h["AF"] /\ reg'["PC"] = Fetched["PC"]
       /\ ADDRMASK(reg'["SP"]) = ADDRMASK(reg["SP"])
  BY <1>1, <1>3, <1>5, <1>7
<1>11. Arch!PlaceWord(p, ADDRMASK(s))
  BY <1>1, <1>8, <1>9, <1>10 DEF Arch!PlaceWord
<1>12. F' \cap Arch!Documented = doc
  BY <1>5, <1>10 DEF F, Leaves
<1>13. Arch!Advance
  BY <1>1, <1>2, <1>10, FetchedKeeps, Advances, SMTT(30)
<1> QED  BY <1>6, <1>11, <1>12, <1>13, DocumentedFlags
         DEF NoOthers, Arch!Rest, Arch!Alternate, Arch!Special

\* ADD, ADC and SBC of words (cpu.h, 0x09 to 0x39, 0xed 0x42 to 0x7a and the
\* prefixed ones) leave the Z80's word in the pair and its documented flags,
\* the flags read off the carries of the high bytes, though the sum is stored
\* unmasked.
THEOREM SumWordCorrect ==
    ASSUME reg \in [Pairs -> Int],
           ins.x \in {"HL", "IX", "IY"}, ins.y \in WordRegs,
           ins.op \in {"ADCW", "SBCW"} => ins.x = "HL",
           Add16 \/ AdcSbc16
    PROVE  Arch!SumWord
<1> DEFINE p == ins.x
           q == ins.y
           x == ADDRMASK(reg[p])
           y == ADDRMASK(reg[q])
<1>1. /\ p \in RegPairs \ {"AF"} /\ p \in WordRegs
  BY DEF WordRegs, RegPairs
<1>2. /\ Arch!Pair(p) = x /\ Arch!Pair(q) = y
      /\ x \in Int /\ y \in Int /\ ADDRMASK(x) = x /\ ADDRMASK(y) = y
  BY <1>1, WordRead, MaskedTwice
<1>3. Carry \in {0, 1} /\ Carry = Arch!c
  BY DEF Carry, Arch!c
<1>4. p = q => x = y
  OBVIOUS
<1>5. \A w \in Int : Arch!Word(w) = ADDRMASK(w)
  BY MaskedTwice
<1>6. CASE Add16
  <2> DEFINE fl == Added(p, q, x, y, F)
             doc == (F \cap {"S", "Z", "P"}) \cup (Arch!Sum16(x, y, 0).fl \cap {"H", "C"})
  <2>1. /\ ins.op = "ADDW" /\ NoOthers
        /\ Registers([SetFlags(Masked(Fetched, {p, q}), fl) EXCEPT ![p] = x + y])
    BY <1>6 DEF Add16, Added
  <2> HIDE DEF x, y
  <2>2. Leaves(fl, doc)
    BY <1>2, <1>4, AddedFlags
  <2>3. x + y \in Int /\ x + y + 0 = x + y /\ Arch!Word(x + y) = ADDRMASK(x + y)
    BY <1>2, <1>5
  <2> HIDE DEF fl, doc
  <2>4. /\ Arch!PlaceWord(p, ADDRMASK(x + y)) /\ Arch!FlagsBecome(doc)
        /\ UNCHANGED RAM /\ Arch!Rest
    BY <1>1, <2>1, <2>2, <2>3, SumPlaced
  <2> QED
    <3>1. Arch!Pair(p) = x /\ Arch!Pair(q) = y
      BY <1>2
    <3>2. Arch!Sum16(x, y, 0).v = ADDRMASK(x + y)
      BY <2>3 DEF Arch!Sum16, Arch!Of
    <3> QED
      BY <2>1, <2>4, <3>1, <3>2, SameInstruction DEF Arch!SumWord, doc
<1>7. CASE AdcSbc16 /\ ins.op = "ADCW"
  <2> DEFINE c == Carry
             fl == Carried(p, q, x, y, c)
             doc == Arch!Sum16(x, y, c).fl
  <2>1. /\ p = "HL" /\ NoOthers
        /\ Registers([SetFlags(Masked(Fetched, {p, q}), fl) EXCEPT ![p] = x + y + c])
    <3>1. p = "HL" /\ NoOthers
      BY <1>7 DEF AdcSbc16
    <3>2. Registers([SetFlags(Masked(Fetched, {"HL", q}), Carried("HL", q, ADDRMASK(reg["HL"]), y, c))
                       EXCEPT !["HL"] = ADDRMASK(reg["HL"]) + y + c])
      BY <1>7 DEF AdcSbc16, Carry16, Carried
    <3> QED  BY <3>1, <3>2
  <2> HIDE DEF x, y, c
  <2>2. c \in {0, 1} /\ c = Arch!c
    BY <1>3 DEF c
  <2>3. Leaves(fl, doc)
    BY <1>2, <1>4, <2>2, CarriedFlags
  <2>4. x + y + c \in Int /\ Arch!Word(x + y + c) = ADDRMASK(x + y + c)
    BY <1>2, <1>5, <2>2
  <2> HIDE DEF fl, doc
  <2>5. /\ Arch!PlaceWord(p, ADDRMASK(x + y + c)) /\ Arch!FlagsBecome(doc)
        /\ UNCHANGED RAM /\ Arch!Rest
    BY <1>1, <2>1, <2>3, <2>4, SumPlaced
  <2> QED
    <3>1. Arch!Pair(p) = x /\ Arch!Pair(q) = y
      BY <1>2
    <3>2. Arch!Sum16(x, y, c).v = ADDRMASK(x + y + c)
      BY <2>4 DEF Arch!Sum16, Arch!Of
    <3> QED
      BY <1>7, <2>2, <2>5, <3>1, <3>2, SameInstruction DEF Arch!SumWord, doc
<1>8. CASE AdcSbc16 /\ ins.op = "SBCW"
  <2> DEFINE c == Carry
             fl == Borrowed(p, q, x, y, c)
             doc == Arch!Difference16(x, y, c).fl
  <2>1. /\ p = "HL" /\ NoOthers
        /\ Registers([SetFlags(Masked(Fetched, {p, q}), fl) EXCEPT ![p] = x - y - c])
    <3>1. p = "HL" /\ NoOthers
      BY <1>8 DEF AdcSbc16
    <3>2. Registers([SetFlags(Masked(Fetched, {"HL", q}), Borrowed("HL", q, ADDRMASK(reg["HL"]), y, c))
                       EXCEPT !["HL"] = ADDRMASK(reg["HL"]) - y - c])
      BY <1>8 DEF AdcSbc16, Carry16, Borrowed
    <3> QED  BY <3>1, <3>2
  <2> HIDE DEF x, y, c
  <2>2. c \in {0, 1} /\ c = Arch!c
    BY <1>3 DEF c
  <2>3. Leaves(fl, doc)
    BY <1>2, <1>4, <2>2, BorrowedFlags
  <2>4. x - y - c \in Int /\ Arch!Word(x - y - c) = ADDRMASK(x - y - c)
    BY <1>2, <1>5, <2>2
  <2> HIDE DEF fl, doc
  <2>5. /\ Arch!PlaceWord(p, ADDRMASK(x - y - c)) /\ Arch!FlagsBecome(doc)
        /\ UNCHANGED RAM /\ Arch!Rest
    BY <1>1, <2>1, <2>3, <2>4, SumPlaced
  <2> QED
    <3>1. Arch!Pair(p) = x /\ Arch!Pair(q) = y
      BY <1>2
    <3>2. Arch!Difference16(x, y, c).v = ADDRMASK(x - y - c)
      BY <2>4 DEF Arch!Difference16, Arch!Of
    <3> QED
      BY <1>8, <2>2, <2>5, <3>1, <3>2, SameInstruction DEF Arch!SumWord, doc
<1>9. ins.op \in {"ADCW", "SBCW"} \/ Add16
  BY DEF AdcSbc16, Carry16
<1> QED  BY <1>6, <1>7, <1>8, <1>9 DEF AdcSbc16, Carry16, Add16

-----------------------------------------------------------------------------
(* I and R, control, RRD and RLD.                                          *)

\* NOP, IM, DI and EI (cpu.h, 0x00, 0xf3, 0xfb and those of ED that do
\* nothing): PC moves, and the flip-flops say whether interrupts are enabled.
THEOREM ControlCorrect ==
    ASSUME reg \in [Pairs -> Int], NoOperation \/ InterruptFlags
    PROVE  Arch!Control
<1>1. reg' = Fetched /\ RAM' = RAM /\ UNCHANGED <<alt, IR>>
  BY DEF NoOperation, InterruptFlags, Registers, NoOthers
<1>2. \A p \in RegPairs : reg'[p] = reg[p]
  BY <1>1, FetchedKeeps DEF Pairs, RegPairs
<1>3. UNCHANGED [z \in Regs |-> Contents(reg, z)] /\ F' = F
  BY <1>2, RegistersKept
<1>4. reg'["SP"] = reg["SP"]
  BY <1>1, FetchedContents
<1>5. Arch!Advance
  BY <1>1, FetchedKeeps, Advances DEF Pairs
<1>6. Arch!ins.op = ins.op
  BY SameInstruction
<1>7. \/ ins.op \in {"NOP", "IM", "ED NOP"} /\ UNCHANGED IFF
      \/ ins.op = "DI" /\ IFF' = 0
      \/ ins.op = "EI" /\ IFF' = 3
  BY DEF NoOperation, InterruptFlags, NoOthers
<1>8. \/ ins.op \in {"NOP", "IM", "ED NOP"} /\ UNCHANGED (IFF = 3)
      \/ ins.op = "DI" /\ (IFF = 3)' = FALSE
      \/ ins.op = "EI" /\ (IFF = 3)' = TRUE
  <2>1. CASE ins.op \in {"NOP", "IM", "ED NOP"} /\ UNCHANGED IFF
    BY <2>1, Zenon
  <2>2. CASE ins.op = "DI" /\ IFF' = 0
    <3>1. ~ (IFF' = 3)
      BY <2>2
    <3>2. (IFF' = 3) = FALSE
      BY <3>1, Zenon
    <3> QED  BY <2>2, <3>2, Zenon
  <2>3. CASE ins.op = "EI" /\ IFF' = 3
    <3>1. (IFF' = 3) = TRUE
      BY <2>3, Zenon
    <3> QED  BY <2>3, <3>1, Zenon
  <2> QED  BY <1>7, <2>1, <2>2, <2>3, Zenon
<1> QED  BY <1>1, <1>3, <1>4, <1>5, <1>6, <1>8 DEF Arch!Control, Arch!Alternate

\* The flags of LD A,I and LD A,R, with S and Z those of the byte loaded.
LEMMA SpecialComputes ==
    ASSUME NEW acu \in Int, NEW v \in Byte, acu % 256 = v, IFF \in {0, 3}
    PROVE  Computes(Result(acu, IRFlags(Arch!SZ(v))),
                    Arch!Of(v, Arch!SZ(v) \cup Arch!Set(IFF = 3, "P") \cup (F \cap {"C"})))
<1> DEFINE doc == Arch!SZ(v) \cup Arch!Set(IFF = 3, "P") \cup (F \cap {"C"})
           flags == IRFlags(Arch!SZ(v))
<1>1. IFF \div 2 = 1 <=> IFF = 3
  BY SMT
<1>2. When("P", IFF \div 2 = 1) = Arch!Set(IFF = 3, "P")
  BY <1>1 DEF When, Arch!Set
<1>4. flags = doc \cup (F \cap {"Y", "X"})
  <2>1. flags = Arch!SZ(v) \cup Arch!Set(IFF = 3, "P") \cup (F \cap {"Y", "X", "C"})
    BY <1>2 DEF IRFlags
  <2> QED  BY <2>1
<1>5. doc \subseteq Arch!Documented
  BY DEF Arch!SZ, Arch!Set, Arch!Documented
<1>6. Arch!Documented \subseteq FlagNames /\ Arch!Documented \cap {"Y", "X"} = {}
      /\ {"Y", "X"} \subseteq FlagNames
  BY DEF Arch!Documented, FlagNames
<1> HIDE DEF doc, flags
<1>7. flags \in SUBSET FlagNames /\ flags \cap Arch!Documented = doc
  BY <1>4, <1>5, <1>6
<1>8. Computes(Result(acu, flags), Arch!Of(v, doc))
  BY <1>7 DEF Computes, Result, Arch!Of
<1> QED  BY <1>8 DEF doc, flags

\* The S and Z the code finds on the half of IR it loads: those of R, and
\* those of I where nothing has run out above it.
LEMMA SpecialSigns ==
    ASSUME IR \in Int
    PROVE  /\ SignsOfR = Arch!SZ(LOW_REGISTER(IR))
           /\ ADDRMASK(IR) = IR => SignsOfI = Arch!SZ(HIGH_REGISTER(IR))
<1> DEFINE x == IR
<1>0. x \in Int
  OBVIOUS
<1>1. Bit(x, 128) <=> LOW_REGISTER(x) > 127
  <2> HIDE DEF x
  <2> QED  BY <1>0, SMTT(60) DEF LOW_REGISTER, Bit
<1>2. Bit(x, 32768) <=> HIGH_REGISTER(x) > 127
  <2> HIDE DEF x
  <2> QED  BY <1>0, SMTT(60) DEF HIGH_REGISTER, Bit
<1>3. ADDRMASK(x) = x => (x \div 256 = 0 <=> HIGH_REGISTER(x) = 0)
  <2> HIDE DEF x
  <2> QED  BY <1>0, SMTT(60) DEF HIGH_REGISTER, ADDRMASK
<1>4. SignsOfR = Arch!SZ(LOW_REGISTER(IR))
  BY <1>1 DEF SignsOfR, When, Arch!SZ, Arch!Set
<1>5. ADDRMASK(IR) = IR => SignsOfI = Arch!SZ(HIGH_REGISTER(IR))
  BY <1>2, <1>3 DEF SignsOfI, When, Arch!SZ, Arch!Set
<1> QED  BY <1>4, <1>5

\* A and the flags loaded with a byte v, from an int acu that may have more.
LEMMA SpecialLoaded ==
    ASSUME reg \in [Pairs -> Int], IFF \in {0, 3},
           NEW acu \in Int, NEW v \in Byte, acu % 256 = v,
           Registers(SetAF(Fetched, Result(acu, IRFlags(Arch!SZ(v))))), NoOthers
    PROVE  /\ [z \in Regs |-> Contents(reg, z)]'
                = [[z \in Regs |-> Contents(reg, z)] EXCEPT !["A"] = v]
           /\ Arch!FlagsBecome(Arch!SZ(v) \cup Arch!Set(IFF = 3, "P") \cup (F \cap {"C"}))
           /\ UNCHANGED <<RAM, ADDRMASK(reg["SP"]), IFF, alt, IR>>
           /\ Arch!Advance
<1> DEFINE o == Arch!Of(v, Arch!SZ(v) \cup Arch!Set(IFF = 3, "P") \cup (F \cap {"C"}))
           result == Result(acu, IRFlags(Arch!SZ(v)))
<1>1. Computes(result, o)
  BY SpecialComputes
<1>2. /\ o.v = v
      /\ o.fl = Arch!SZ(v) \cup Arch!Set(IFF = 3, "P") \cup (F \cap {"C"})
  BY DEF Arch!Of
<1>3. Registers(SetAF(Fetched, result)) /\ NoOthers
  OBVIOUS
<1> HIDE DEF result, o
<1>4. Arch!Accumulate(o) /\ UNCHANGED ADDRMASK(reg["SP"]) /\ Arch!Rest
  BY <1>1, <1>3, Accumulated
<1> QED  BY <1>2, <1>3, <1>4 DEF Arch!Accumulate, Arch!Put, Arch!Rest, NoOthers, Registers

\* LD I,A and LD R,A.
LEMMA SpecialStored ==
    ASSUME reg \in [Pairs -> Int], IR \in Int, LoadIR
    PROVE  Arch!LoadSpecial
<1> DEFINE r == [z \in Regs |-> Contents(reg, z)]
           m == reg["AF"] \div 256
<1>1. /\ Acu \in Byte /\ Acu = r["A"] /\ m \in Int /\ m % 256 = Acu
  BY AccumulatorByte
<1>2. Arch!ins.op = ins.op
  BY SameInstruction
<1>3. reg' = Fetched /\ RAM' = RAM /\ UNCHANGED <<alt, IFF>>
  BY DEF LoadIR, Registers
<1>4. \A p \in RegPairs : reg'[p] = reg[p]
  BY <1>3, FetchedKeeps DEF Pairs, RegPairs
<1>5. UNCHANGED r /\ F' = F
  BY <1>4, RegistersKept
<1>6. reg'["SP"] = reg["SP"]
  BY <1>3, FetchedContents
<1>7. Arch!Advance
  BY <1>3, FetchedKeeps, Advances DEF Pairs
<1>8. CASE ins.op = "LD I,A"
  <2>1. IR' = 256 * m + LOW_REGISTER(IR)
    BY <1>8 DEF LoadIR
  <2> HIDE DEF m
  <2>2. HIGH_REGISTER(IR') = Acu /\ LOW_REGISTER(IR') = LOW_REGISTER(IR)
    BY <1>1, <2>1, LateHighPut
  <2> HIDE DEF r
  <2>3. HIGH_REGISTER(IR)' = r["A"] /\ UNCHANGED LOW_REGISTER(IR)
    BY <1>1, <2>2
  <2> USE DEF r
  <2> QED  BY <1>2, <1>3, <1>5, <1>6, <1>7, <1>8, <2>3
           DEF Arch!LoadSpecial, Arch!KeepFlags, Arch!Alternate
<1>9. CASE ins.op = "LD R,A"
  <2> DEFINE v == Acu
  <2>1. v \in Int /\ v % 256 = v
    <3> DEFINE af == reg["AF"]
    <3>1. af \in Int /\ v = HIGH_REGISTER(af)
      BY FetchedKeeps DEF Acu
    <3> HIDE DEF af, r, m, v
    <3> QED  BY <3>1, HalvesAreBytes
  <2>2. IR' = 256 * (IR \div 256) + v
    <3> HIDE DEF r, m
    <3> QED  BY <1>9 DEF LoadIR
  <2>3. HIGH_REGISTER(IR') = HIGH_REGISTER(IR) /\ LOW_REGISTER(IR') = v
    <3> HIDE DEF v, r, m
    <3>1. /\ HIGH_REGISTER(256 * (IR \div 256) + v) = HIGH_REGISTER(IR)
          /\ LOW_REGISTER(256 * (IR \div 256) + v) = v
      BY <2>1, LateLowPut, ZenonT(60)
    <3> QED  BY <2>2, <3>1
  <2> HIDE DEF r
  <2>4. LOW_REGISTER(IR)' = r["A"] /\ UNCHANGED HIGH_REGISTER(IR)
    BY <1>1, <2>3
  <2> USE DEF r
  <2> QED  BY <1>2, <1>3, <1>5, <1>6, <1>7, <1>9, <2>4
           DEF Arch!LoadSpecial, Arch!KeepFlags, Arch!Alternate
<1> QED  BY <1>8, <1>9 DEF LoadIR

\* LD I,A, LD R,A, LD A,I and LD A,R (cpu.h, 0x47 to 0x5f behind 0xed).  The
\* zero flag of LD A,I is right while nothing has run out above the I register.
THEOREM SpecialCorrect ==
    ASSUME reg \in [Pairs -> Int], IR \in Int, IFF \in {0, 3},
           ins.op = "LD A,I" => ADDRMASK(IR) = IR,
           LoadIR \/ LoadFromIR
    PROVE  Arch!LoadSpecial
<1>1. Arch!ins.op = ins.op
  BY SameInstruction
<1>2. CASE LoadIR
  BY <1>2, SpecialStored
<1>3. CASE LoadFromIR
  <2>1. CASE ins.op = "LD A,I"
    <3> DEFINE v == HIGH_REGISTER(IR)
               acu == IR \div 256
    <3>1. v \in Byte /\ acu \in Int /\ acu % 256 = v
      <4>1. acu \in Int /\ acu % 256 = v
        BY HalvesAreBytes
      <4>2. v \in Byte
        BY WordOfHalves DEF Byte
      <4> QED  BY <4>1, <4>2
    <3>2. SignsOfI = Arch!SZ(v)
      BY <2>1, SpecialSigns
    <3>3. Registers(SetAF(Fetched, Result(acu, IRFlags(SignsOfI)))) /\ NoOthers
      BY <1>3, <2>1 DEF LoadFromIR
    <3> HIDE DEF v, acu
    <3>4. Registers(SetAF(Fetched, Result(acu, IRFlags(Arch!SZ(v)))))
      BY <3>2, <3>3
    <3>5. /\ [z \in Regs |-> Contents(reg, z)]'
               = [[z \in Regs |-> Contents(reg, z)] EXCEPT !["A"] = v]
          /\ Arch!FlagsBecome(Arch!SZ(v) \cup Arch!Set(IFF = 3, "P") \cup (F \cap {"C"}))
          /\ UNCHANGED <<RAM, ADDRMASK(reg["SP"]), IFF, alt, IR>>
          /\ Arch!Advance
      BY <3>1, <3>3, <3>4, SpecialLoaded, ZenonT(60)
    <3> USE DEF v
    <3> QED  BY <1>1, <2>1, <3>5 DEF Arch!LoadSpecial, Arch!Alternate
  <2>2. CASE ins.op = "LD A,R"
    <3> DEFINE v == LOW_REGISTER(IR)
    <3>1. v \in Byte /\ v \in Int /\ v % 256 = v
      <4>1. v \in Int /\ v % 256 = v
        BY HalvesAreBytes, ZenonT(60)
      <4>2. v \in Byte
        BY WordOfHalves DEF Byte
      <4> QED  BY <4>1, <4>2
    <3>2. SignsOfR = Arch!SZ(v)
      BY SpecialSigns
    <3>3. Registers(SetAF(Fetched, Result(v, IRFlags(SignsOfR)))) /\ NoOthers
      BY <1>3, <2>2 DEF LoadFromIR
    <3> HIDE DEF v
    <3>4. Registers(SetAF(Fetched, Result(v, IRFlags(Arch!SZ(v)))))
      BY <3>2, <3>3
    <3>5. /\ [z \in Regs |-> Contents(reg, z)]'
               = [[z \in Regs |-> Contents(reg, z)] EXCEPT !["A"] = v]
          /\ Arch!FlagsBecome(Arch!SZ(v) \cup Arch!Set(IFF = 3, "P") \cup (F \cap {"C"}))
          /\ UNCHANGED <<RAM, ADDRMASK(reg["SP"]), IFF, alt, IR>>
          /\ Arch!Advance
      BY <3>1, <3>3, <3>4, SpecialLoaded, ZenonT(60)
    <3> USE DEF v
    <3> QED  BY <1>1, <2>2, <3>5 DEF Arch!LoadSpecial, Arch!Alternate
  <2> QED  BY <1>3, <2>1, <2>2 DEF LoadFromIR
<1> QED  BY <1>2, <1>3

\* RRD and RLD (cpu.h, 0x67 and 0x6f behind 0xed) turn three digits, the low
\* one of A and the two of the byte at HL, as the Z80 does.
THEOREM RotateDigitCorrect ==
    ASSUME reg \in [Pairs -> Int], \A a \in DOMAIN RAM : RAM[a] \in Byte,
           ins.d \in Byte, ins.n \in Int, RotateDigit
    PROVE  Arch!RotateDigits
<1> DEFINE t == Value8("(HL)")
           right == ins.op = "RRD"
           a == 16 * (Acu \div 16) + (IF right THEN t % 16 ELSE t \div 16)
           put == IF right THEN t \div 16 + 16 * (Acu % 16) ELSE 16 * (t % 16) + (Acu % 16)
           carry == F \cap {"C"}
           result == With(rrdrldTable(a), carry)
           o == Arch!Of(a, Arch!SZ(a) \cup Arch!Parity(a) \cup carry)
           r == [z \in Regs |-> Contents(reg, z)]
<1>0. "(HL)" \in Memory /\ "(HL)" \in Operands8 /\ "(HL)" # "n"
  BY DEF Memory, Operands8
<1>1. /\ ins.op \in {"RRD", "RLD"} /\ Reachable("(HL)") /\ NoOthers
      /\ RAM' = [RAM EXCEPT ![Adr("(HL)")] = put]
      /\ reg' = SetAF(Fetched, result)
  BY DEF RotateDigit
<1>2. t \in Byte /\ t = Arch!Operand("(HL)") /\ Adr("(HL)") = Arch!Address("(HL)")
  BY <1>0, <1>1, OperandByte, SameOperand, SameAddress
<1>3. Acu \in Byte /\ Acu = r["A"]
  BY AccumulatorByte
<1>4. a \in Byte
  <2> DEFINE u == Acu
  <2>1. u \in Byte /\ t \in Byte
    BY <1>2, <1>3
  <2> HIDE DEF t, u
  <2>2. 16 * (u \div 16) + (t % 16) \in Byte /\ 16 * (u \div 16) + (t \div 16) \in Byte
    BY <2>1, SMTT(60) DEF Byte
  <2>3. \/ a = 16 * (u \div 16) + (t % 16)
        \/ a = 16 * (u \div 16) + (t \div 16)
    BY DEF u
  <2> HIDE DEF a
  <2> QED  BY <2>2, <2>3
<1>5. Computes(result, o)
  <2>1. carry \in SUBSET Arch!Documented
    BY DEF Arch!Documented
  <2>2. result.acu = a /\ result.f = SZYX(a) \cup carry \cup parityTable(a)
    BY DEF With, rrdrldTable, Result
  <2> HIDE DEF result, carry, a
  <2> QED  BY <1>4, <2>1, <2>2, LogicFlags
<1>6. /\ result.acu = a /\ a \in Int /\ a % 256 = a
      /\ result.f \in SUBSET FlagNames /\ result.f \cap Arch!Documented = o.fl
  <2>1. result.acu = a
    BY DEF With, rrdrldTable, Result
  <2> HIDE DEF result, o, a
  <2> QED  BY <1>4, <1>5, <2>1, SMT DEF Computes, Byte
<1>7. /\ r' = [r EXCEPT !["A"] = a]
      /\ F' = result.f
      /\ reg'["SP"] = reg["SP"]
      /\ Arch!Advance
  <2> DEFINE f == result.f
             g == SetAF(Fetched, result)
             af == 256 * a + FlagByte(f)
  <2>1. /\ Fetched \in [Pairs -> Int] /\ "AF" \in Pairs
        /\ \A p \in Pairs \ {"PC"} : Fetched[p] = reg[p]
    BY FetchedKeeps DEF Pairs, RegPairs
  <2>2. FlagByte(f) \in Int /\ f \in SUBSET FlagNames
    BY <1>6, FlagsOfFlagByte, ZenonT(60)
  <2>3. g = [Fetched EXCEPT !["AF"] = af]
    BY <1>6, <2>1, ZenonT(60) DEF SetAF
  <2> HIDE DEF f, a
  <2>4. af \in Int
    BY <1>6, <2>2
  <2> HIDE DEF af, g
  <2>5. /\ g \in [Pairs -> Int] /\ g["AF"] = af
        /\ \A p \in Pairs \ {"AF", "PC"} : g[p] = reg[p]
        /\ g["PC"] = Fetched["PC"]
    BY <2>1, <2>3, <2>4 DEF Pairs
  <2>6. g["AF"] = 256 * a + FlagByte(f) /\ reg' = g
    BY <1>1, <2>5 DEF af, g
  <2>7. /\ [z \in Regs |-> Contents(reg, z)]'
             = [[z \in Regs |-> Contents(reg, z)] EXCEPT !["A"] = a % 256]
        /\ F' = f
        /\ reg'["SP"] = reg["SP"]
        /\ Arch!Advance
    BY <1>6, <2>2, <2>5, <2>6, ResultPut
  <2> QED  BY <1>6, <2>7 DEF f
<1>8. o.fl = Arch!SZ(a) \cup Arch!Parity(a) \cup carry
  BY DEF Arch!Of
<1>9. Arch!FlagsBecome(Arch!SZ(a) \cup Arch!Parity(a) \cup carry)
  <2> HIDE DEF result, o, a, carry
  <2> QED  BY <1>6, <1>7, <1>8, DocumentedFlags
<1>10. Arch!Rest
  BY <1>1, <1>7 DEF Arch!Rest, Arch!Alternate, Arch!Special, NoOthers
<1>11. Arch!ins.op = ins.op
  BY SameInstruction
<1> DEFINE three == IF right THEN <<t % 16, Acu % 16, t \div 16>>
                             ELSE <<t \div 16, t % 16, Acu % 16>>
<1>12. a = 16 * (Acu \div 16) + three[1] /\ put = 16 * three[2] + three[3]
  <2>1. t % 16 \in Int /\ t \div 16 \in Int /\ Acu % 16 \in Int
    <3> HIDE DEF t
    <3> QED  BY <1>2, <1>3, SMT DEF Byte
  <2> HIDE DEF t
  <2> QED  BY <2>1
<1>13. /\ r' = [r EXCEPT !["A"] = 16 * (r["A"] \div 16) + three[1]]
       /\ RAM' = [RAM EXCEPT ![Arch!Address("(HL)")] = 16 * three[2] + three[3]]
       /\ Arch!FlagsBecome(Arch!SZ(16 * (r["A"] \div 16) + three[1])
             \cup Arch!Parity(16 * (r["A"] \div 16) + three[1]) \cup carry)
       /\ UNCHANGED ADDRMASK(reg["SP"])
  <2>1. 16 * (r["A"] \div 16) + three[1] = a
    BY <1>3, <1>12
  <2> HIDE DEF a, put, r, t, three, result
  <2> QED  BY <1>1, <1>2, <1>7, <1>9, <1>12, <2>1
<1>14. three = IF Arch!ins.op = "RRD"
               THEN <<Arch!Operand("(HL)") % 16, r["A"] % 16, Arch!Operand("(HL)") \div 16>>
               ELSE <<Arch!Operand("(HL)") \div 16, Arch!Operand("(HL)") % 16, r["A"] % 16>>
  BY <1>2, <1>3, <1>11
<1> HIDE DEF three, a, put, t, result, o
<1> QED  BY <1>1, <1>10, <1>11, <1>13, <1>14 DEF Arch!RotateDigits

-----------------------------------------------------------------------------
(* The least of a set of numbers: what an induction over the bytes of a    *)
(* block needs.                                                            *)

\* A set of numbers has a member no other one is below, in a well-founded order.
LEMMA LeastIn ==
    ASSUME NEW R, IsWellFoundedOn(R, Nat), NEW T, T \subseteq Nat, T # {}
    PROVE  \E m \in T : \A k \in T : ~ (<<k, m>> \in R)
  BY WFMin, Zenon

\* In the order of the numbers it is the least.
LEMMA LeastOfOrder ==
    ASSUME NEW R, \A k, m \in Nat : <<k, m>> \in R <=> k < m, IsWellFoundedOn(R, Nat),
           NEW T, T \subseteq Nat, T # {}
    PROVE  \E m \in T : \A k \in T : m <= k
<1>1. PICK m \in T : \A k \in T : ~ (<<k, m>> \in R)
  BY LeastIn, Zenon
<1>2. ASSUME NEW k \in T
      PROVE  m <= k
  <2>1. k \in Nat /\ m \in Nat
    OBVIOUS
  <2>2. ~ (k < m)
    BY <1>1, <2>1
  <2> QED  BY <2>1, <2>2
<1> QED  BY <1>2

\* The numbers in their order are well founded.
LEMMA NatOrder ==
    \E R : (\A k, m \in Nat : <<k, m>> \in R <=> k < m) /\ IsWellFoundedOn(R, Nat)
<1>2. \A k, m \in Nat : <<k, m>> \in OpToRel(<, Nat) <=> k < m
  BY DEF OpToRel
<1> QED  BY NatLessThanWellFounded, <1>2, Zenon

\* Every set of numbers that is not empty has a least one.
LEMMA LeastNumber ==
    ASSUME NEW T, T \subseteq Nat, T # {}
    PROVE  \E m \in T : \A k \in T : m <= k
<1>1. PICK R : (\A k, m \in Nat : <<k, m>> \in R <=> k < m) /\ IsWellFoundedOn(R, Nat)
  BY NatOrder
<1> QED  BY <1>1, LeastOfOrder, Zenon

-----------------------------------------------------------------------------
(* Copies of blocks.                                                       *)

\* A multiple of g between -g and g is 0.
LEMMA SmallMultiple ==
    ASSUME NEW k \in Int, NEW g \in Nat, g > 0, g * k < g, -g < g * k
    PROVE  g * k = 0
<1>1. CASE k >= 1
  <2>1. g * k >= g * 1
    BY <1>1, SMTT(60)
  <2> QED  BY <2>1
<1>2. CASE k <= -1
  <2>1. g * k <= -g
    BY <1>2, SMTT(60)
  <2> QED  BY <2>1
<1>3. CASE k = 0
  BY <1>3
<1> QED  BY <1>1, <1>2, <1>3

\* A remainder does not change when the divisor is taken off.
LEMMA RemainderOfRest ==
    ASSUME NEW x \in Nat, NEW g \in Nat, g > 0
    PROVE  /\ x < g => x % g = x
           /\ x >= g => (x - g) % g = x % g
<1>1. x < g => x % g = x
  BY SMTT(60)
<1>2. ASSUME x >= g
      PROVE  (x - g) % g = x % g
  <2> DEFINE y == x - g
             p == x \div g
             q == y \div g
             r == x % g
             s == y % g
  <2>1. y \in Int
    OBVIOUS
  <2>2. /\ p \in Int /\ r \in Int /\ 0 <= r /\ r < g /\ x = g * p + r
    BY SMTT(60)
  <2>3. /\ q \in Int /\ s \in Int /\ 0 <= s /\ s < g /\ y = g * q + s
    <3> HIDE DEF y
    <3> QED  BY <2>1, SMTT(60)
  <2> DEFINE k == p - q - 1
  <2>4. k \in Int /\ g * k = g * p - g * q - g
    <3> HIDE DEF p, q
    <3> QED  BY <2>2, <2>3, SMTT(60)
  <2>5. g * k = s - r
    <3>1. g * p \in Int /\ g * q \in Int
      <4> HIDE DEF p, q
      <4> QED  BY <2>2, <2>3
    <3> DEFINE gp == g * p
               gq == g * q
    <3>2. /\ gp \in Int /\ gq \in Int /\ x = gp + r /\ x - g = gq + s
          /\ g * k = gp - gq - g
      BY <2>2, <2>3, <2>4, <3>1
    <3> HIDE DEF gp, gq, k, r, s
    <3> QED  BY <2>2, <2>3, <3>2
  <2> HIDE DEF k, r, s
  <2>6. g * k < g /\ -g < g * k
    BY <2>2, <2>3, <2>5
  <2>7. g * k = 0
    BY <2>4, <2>6, SmallMultiple
  <2>8. s = r
    BY <2>2, <2>3, <2>5, <2>7
  <2> QED  BY <2>8 DEF r, s
<1> QED  BY <1>1, <1>2

\* How far an address lies from the first one of a block.
Along(dir, a, first) == ADDRMASK(dir * (a - first))

\* An address of a block lies as far along it as it was counted.
LEMMA AlongAddress ==
    ASSUME NEW dir \in {1, -1}, NEW first \in Int, NEW j \in Nat, ADDRMASK(j) = j
    PROVE  Along(dir, ADDRMASK(first + dir * j), first) = j
<1>1. CASE dir = 1
  BY <1>1, SMTT(60) DEF Along, ADDRMASK
<1>2. CASE dir = -1
  BY <1>2, SMTT(60) DEF Along, ADDRMASK
<1> QED  BY <1>1, <1>2

\* An address is the one that lies where it does along a block.
LEMMA AddressAlong ==
    ASSUME NEW dir \in {1, -1}, NEW first \in Int, NEW a \in Int, ADDRMASK(a) = a
    PROVE  a = ADDRMASK(first + dir * Along(dir, a, first))
<1>1. CASE dir = 1
  BY <1>1, SMTT(60) DEF Along, ADDRMASK
<1>2. CASE dir = -1
  BY <1>2, SMTT(60) DEF Along, ADDRMASK
<1> QED  BY <1>1, <1>2

\* How far the source of a byte lies along the block it is copied to.
LEMMA AlongSource ==
    ASSUME NEW dir \in {1, -1}, NEW from \in Int, NEW to \in Int,
           NEW j \in Nat, ADDRMASK(j) = j
    PROVE  /\ j >= Along(dir, to, from) =>
                 Along(dir, ADDRMASK(from + dir * j), to) = j - Along(dir, to, from)
           /\ ~ (j >= Along(dir, to, from)) \/ Along(dir, to, from) = 0 =>
                 ~ (Along(dir, ADDRMASK(from + dir * j), to) < j)
<1>1. CASE dir = 1
  BY <1>1, SMTT(60) DEF Along, ADDRMASK
<1>2. CASE dir = -1
  BY <1>2, SMTT(60) DEF Along, ADDRMASK
<1> QED  BY <1>1, <1>2

\* The distance of two addresses is an address.
LEMMA AlongWord ==
    ASSUME NEW dir \in {1, -1}, NEW a \in Int, NEW first \in Int
    PROVE  Along(dir, a, first) \in Nat /\ ADDRMASK(Along(dir, a, first)) = Along(dir, a, first)
<1>1. dir * (a - first) \in Int
  OBVIOUS
<1>2. \A x \in Int : ADDRMASK(x) \in Nat /\ ADDRMASK(ADDRMASK(x)) = ADDRMASK(x)
  BY SMTT(60) DEF ADDRMASK
<1> QED  BY <1>1, <1>2 DEF Along

\* The memory m with k bytes copied from one address to another: the byte
\* along the block is that of the source, or of the first bytes of the source
\* where the block runs into what has been copied.
Period(gap) == IF gap = 0 THEN 65536 ELSE gap
SourceAt(from, to, dir, j) == ADDRMASK(from + dir * (j % Period(Along(dir, to, from))))
BlockCopied(m, from, to, dir, k) ==
    [a \in DOMAIN m |-> IF Along(dir, a, to) < k THEN m[SourceAt(from, to, dir, Along(dir, a, to))]
                                                 ELSE m[a]]

\* The byte copied next is that of its place in the source, copied or not.
LEMMA NextSource ==
    ASSUME NEW m, NEW dir \in {1, -1}, NEW from \in Int, NEW to \in Int,
           NEW j \in Nat, ADDRMASK(j) = j, ADDRMASK(from + dir * j) \in DOMAIN m
    PROVE  BlockCopied(m, from, to, dir, j)[ADDRMASK(from + dir * j)]
             = m[SourceAt(from, to, dir, j)]
<1> DEFINE gap == Along(dir, to, from)
           q == ADDRMASK(from + dir * j)
           back == Along(dir, q, to)
<1>1. gap \in Nat
  BY AlongWord, Zenon
<1>2. /\ j >= gap => back = j - gap
      /\ ~ (j >= gap) \/ gap = 0 => ~ (back < j)
  BY AlongSource, ZenonT(30)
<1>3. BlockCopied(m, from, to, dir, j)[q]
        = IF back < j THEN m[SourceAt(from, to, dir, back)] ELSE m[q]
  BY DEF BlockCopied
<1>4. SourceAt(from, to, dir, j) = ADDRMASK(from + dir * (j % Period(gap)))
  BY DEF SourceAt
<1>5. CASE ~ (j >= gap) \/ gap = 0
  <2>1. ~ (back < j)
    BY <1>2, <1>5, Zenon
  <2>2. j % Period(gap) = j
    <3> HIDE DEF gap
    <3>1. CASE gap = 0
      BY <3>1, SMT DEF Period, ADDRMASK
    <3>2. CASE ~ (j >= gap)
      <4>1. gap > 0 /\ j < gap /\ gap # 0
        BY <1>1, <3>2
      <4>2. j % gap = j
        BY <1>1, <4>1, RemainderOfRest
      <4> QED  BY <4>1, <4>2 DEF Period
    <3> QED  BY <1>5, <3>1, <3>2
  <2> HIDE DEF gap, back
  <2> QED  BY <1>3, <1>4, <2>1, <2>2
<1>6. CASE j >= gap /\ gap # 0
  <2>1. back = j - gap
    BY <1>2, <1>6, Zenon
  <2> HIDE DEF gap, back
  <2>2. back < j /\ gap > 0
    BY <1>1, <1>6, <2>1
  <2>3. (j - gap) % Period(gap) = j % Period(gap)
    <3>1. (j - gap) % gap = j % gap
      BY <1>1, <1>6, <2>2, RemainderOfRest
    <3> QED  BY <1>6, <3>1 DEF Period
  <2>4. SourceAt(from, to, dir, back) = SourceAt(from, to, dir, j)
    BY <1>4, <2>1, <2>3 DEF SourceAt, gap
  <2> HIDE DEF q
  <2>5. BlockCopied(m, from, to, dir, j)[q] = m[SourceAt(from, to, dir, back)]
    BY <1>3, <2>2
  <2> QED  BY <2>4, <2>5 DEF q
<1> QED  BY <1>5, <1>6

\* Addresses, which 16 bits hold.
Addresses(S) == \A a \in S : a \in Int /\ ADDRMASK(a) = a

\* The byte v put at a.
BytePut(m, a, v) == [m EXCEPT ![a] = v]

\* One byte more is copied.
LEMMA OneMoreCopied ==
    ASSUME NEW m, Addresses(DOMAIN m), NEW dir \in {1, -1}, NEW from \in Int, NEW to \in Int,
           NEW j \in Nat, ADDRMASK(j) = j,
           ADDRMASK(from + dir * j) \in DOMAIN m, ADDRMASK(to + dir * j) \in DOMAIN m
    PROVE  BlockCopied(m, from, to, dir, j + 1)
             = BytePut(BlockCopied(m, from, to, dir, j), ADDRMASK(to + dir * j),
                       BlockCopied(m, from, to, dir, j)[ADDRMASK(from + dir * j)])
<1> DEFINE p == ADDRMASK(to + dir * j)
           before == BlockCopied(m, from, to, dir, j)
           after == BlockCopied(m, from, to, dir, j + 1)
           v == before[ADDRMASK(from + dir * j)]
<1>1. Along(dir, p, to) = j
  BY AlongAddress, ZenonT(30)
<1>2. v = m[SourceAt(from, to, dir, j)]
  BY NextSource, ZenonT(30)
<1>3. /\ DOMAIN before = DOMAIN m /\ DOMAIN after = DOMAIN m
      /\ before = [a \in DOMAIN m |-> before[a]] /\ after = [a \in DOMAIN m |-> after[a]]
  BY DEF BlockCopied
<1>4. \A a \in DOMAIN m :
        /\ before[a] = IF Along(dir, a, to) < j THEN m[SourceAt(from, to, dir, Along(dir, a, to))]
                                                ELSE m[a]
        /\ after[a] = IF Along(dir, a, to) < j + 1 THEN m[SourceAt(from, to, dir, Along(dir, a, to))]
                                                   ELSE m[a]
  BY DEF BlockCopied
<1> HIDE DEF before, after, v
<1>5. after[p] = v
  <2>1. p \in DOMAIN m /\ Along(dir, p, to) < j + 1
    BY <1>1
  <2> HIDE DEF p
  <2> QED  BY <1>1, <1>2, <1>4, <2>1
<1>6. ASSUME NEW a \in DOMAIN m, a # p
      PROVE  after[a] = before[a]
  <2>1. Along(dir, a, to) # j
    <3>1. a \in Int /\ ADDRMASK(a) = a
      BY DEF Addresses
    <3>2. a = ADDRMASK(to + dir * Along(dir, a, to))
      BY <3>1, AddressAlong, Zenon
    <3> QED  BY <1>6, <3>2, Zenon
  <2>2. Along(dir, a, to) \in Int
    <3>1. a \in Int
      BY DEF Addresses
    <3>2. Along(dir, a, to) \in Nat
      BY <3>1, AlongWord, Zenon
    <3> QED  BY <3>2
  <2>3. Along(dir, a, to) < j + 1 <=> Along(dir, a, to) < j
    BY <2>1, <2>2
  <2>4. Along(dir, a, to) < j + 1 \/ ~ (Along(dir, a, to) < j + 1)
    OBVIOUS
  <2> QED  BY <1>4, <2>3, <2>4
<1> HIDE DEF p
<1>7. after = [before EXCEPT ![p] = v]
  BY <1>3, <1>5, <1>6
<1> QED  BY <1>7 DEF after, before, v, p, BytePut

\* A function defined by its values at smaller numbers has one value at each:
\* what two functions have in common from 0 on they have everywhere.
LEMMA SameFromZero ==
    ASSUME NEW n \in Nat, NEW f, NEW g, f[0] = g[0],
           \A k \in 1 .. n : f[k - 1] = g[k - 1] => f[k] = g[k]
    PROVE  f[n] = g[n]
<1> DEFINE T == {k \in 0 .. n : f[k] # g[k]}
<1>1. CASE T = {}
  BY <1>1
<1>2. CASE T # {}
  <2>1. T \subseteq Nat
    OBVIOUS
  <2>2. PICK m \in T : \A k \in T : m <= k
    <3> HIDE DEF T
    <3> QED  BY <1>2, <2>1, LeastNumber, Zenon
  <2>3. m \in 1 .. n /\ f[m] # g[m]
    <3>1. m \in 0 .. n /\ f[m] # g[m]
      OBVIOUS
    <3>2. m # 0
      BY <3>1
    <3> QED  BY <3>1, <3>2
  <2>4. m - 1 \in 0 .. n /\ ~ (m <= m - 1)
    BY <2>3
  <2>5. m - 1 \notin T
    <3> HIDE DEF T
    <3> QED  BY <2>2, <2>4
  <2>6. f[m - 1] = g[m - 1]
    BY <2>4, <2>5
  <2> QED  BY <2>3, <2>6
<1> QED  BY <1>1, <1>2

\* The loop of LDIR and LDDR leaves the block copied.
LEMMA CopyLoopCopies ==
    ASSUME reg \in [Pairs -> Int], RAM \in [DOMAIN RAM -> Byte], Addresses(DOMAIN RAM), NEW n \in Nat,
           \A k \in 0 .. n - 1 : ADDRMASK(k) = k,
           InWindow(Run("HL", n) \cup Run("DE", n))
    PROVE  CopyLoop(n) = BlockCopied(RAM, reg["HL"], reg["DE"], Dir, n)
<1> DEFINE from == reg["HL"]
           to == reg["DE"]
           Again(c) == [k \in 0 .. n |->
                          IF k = 0 THEN RAM
                          ELSE [c[k - 1] EXCEPT
                                   ![ADDRMASK(reg["DE"] + Dir * (k - 1))] =
                                       c[k - 1][ADDRMASK(reg["HL"] + Dir * (k - 1))]]]
           closed == [k \in 0 .. n |-> BlockCopied(RAM, from, to, Dir, k)]
           copied == CHOOSE c : c = Again(c)
<1>1. from \in Int /\ to \in Int /\ Dir \in {1, -1}
  BY DEF Pairs, RegPairs, Dir
<1>2. ASSUME NEW k \in 0 .. n - 1
      PROVE  /\ ADDRMASK(from + Dir * k) \in DOMAIN RAM
             /\ ADDRMASK(to + Dir * k) \in DOMAIN RAM
  BY DEF InWindow, Run
<1>3. BlockCopied(RAM, from, to, Dir, 0) = RAM
  <2>1. ASSUME NEW a \in DOMAIN RAM
        PROVE  ~ (Along(Dir, a, to) < 0)
    <3>1. a \in Int
      BY DEF Addresses
    <3>2. Along(Dir, a, to) \in Nat
      BY <1>1, <3>1, AlongWord, Zenon
    <3> QED  BY <3>2
  <2> HIDE DEF from, to
  <2> QED  BY <2>1 DEF BlockCopied
<1>4. ASSUME NEW k \in 1 .. n
      PROVE  BlockCopied(RAM, from, to, Dir, k)
               = BytePut(BlockCopied(RAM, from, to, Dir, k - 1), ADDRMASK(to + Dir * (k - 1)),
                         BlockCopied(RAM, from, to, Dir, k - 1)[ADDRMASK(from + Dir * (k - 1))])
  <2> DEFINE j == k - 1
  <2>1. j \in 0 .. n - 1 /\ j \in Nat /\ j + 1 = k
    OBVIOUS
  <2> HIDE DEF j
  <2>2. ADDRMASK(j) = j
    BY <2>1
  <2>3. ADDRMASK(from + Dir * j) \in DOMAIN RAM /\ ADDRMASK(to + Dir * j) \in DOMAIN RAM
    BY <1>2, <2>1
  <2> HIDE DEF from, to
  <2>9. j \in Nat
    BY <2>1
  <2>4. BlockCopied(RAM, from, to, Dir, j + 1)
          = BytePut(BlockCopied(RAM, from, to, Dir, j), ADDRMASK(to + Dir * j),
                    BlockCopied(RAM, from, to, Dir, j)[ADDRMASK(from + Dir * j)])
    BY <1>1, <2>2, <2>3, <2>9, OneMoreCopied, ZenonT(60)
  <2>5. BlockCopied(RAM, from, to, Dir, k) = BlockCopied(RAM, from, to, Dir, j + 1)
    BY <2>1
  <2> QED  BY <2>4, <2>5, Zenon DEF j
<1>5. closed = Again(closed)
  <2>1. ASSUME NEW k \in 0 .. n
        PROVE  closed[k] = Again(closed)[k]
    <3>1. CASE k = 0
      <4>1. Again(closed)[k] = RAM
        <5> HIDE DEF closed
        <5> QED  BY <3>1 DEF Again
      <4> QED  BY <1>3, <3>1, <4>1
    <3>2. CASE k # 0
      <4>1. k \in 1 .. n /\ k - 1 \in 0 .. n
        BY <3>2
      <4>2. closed[k - 1] = BlockCopied(RAM, from, to, Dir, k - 1)
            /\ closed[k] = BlockCopied(RAM, from, to, Dir, k)
        BY <4>1
      <4>3. Again(closed)[k] = [closed[k - 1] EXCEPT
                                   ![ADDRMASK(to + Dir * (k - 1))] =
                                       closed[k - 1][ADDRMASK(from + Dir * (k - 1))]]
        <5> HIDE DEF closed
        <5> QED  BY <3>2 DEF Again
      <4> HIDE DEF closed, Again
      <4> QED  BY <1>4, <4>1, <4>2, <4>3 DEF BytePut
    <3> QED  BY <3>1, <3>2
  <2>2. /\ closed = [k \in 0 .. n |-> closed[k]]
        /\ Again(closed) = [k \in 0 .. n |-> Again(closed)[k]]
    <3>1. closed = [k \in 0 .. n |-> closed[k]]
      OBVIOUS
    <3>2. Again(closed) = [k \in 0 .. n |-> Again(closed)[k]]
      <4> HIDE DEF closed
      <4> QED  BY DEF Again
    <3> QED  BY <3>1, <3>2
  <2> HIDE DEF closed, Again
  <2> QED  BY <2>1, <2>2
<1>6. copied = Again(copied)
  <2> HIDE DEF closed, Again
  <2> QED  BY <1>5, Zenon
<1>7. copied[n] = closed[n]
  <2>1. copied[0] = closed[0]
    <3>1. Again(copied)[0] = RAM
      BY DEF Again
    <3> HIDE DEF copied, Again
    <3> QED  BY <1>3, <1>6, <3>1
  <2>2. ASSUME NEW k \in 1 .. n, copied[k - 1] = closed[k - 1]
        PROVE  copied[k] = closed[k]
    <3>1. /\ Again(copied)[k] = [copied[k - 1] EXCEPT
                                   ![ADDRMASK(reg["DE"] + Dir * (k - 1))] =
                                       copied[k - 1][ADDRMASK(reg["HL"] + Dir * (k - 1))]]
          /\ Again(closed)[k] = [closed[k - 1] EXCEPT
                                   ![ADDRMASK(reg["DE"] + Dir * (k - 1))] =
                                       closed[k - 1][ADDRMASK(reg["HL"] + Dir * (k - 1))]]
      <4> HIDE DEF copied, closed
      <4> QED  BY DEF Again
    <3> HIDE DEF copied, closed, Again
    <3> QED  BY <1>5, <1>6, <2>2, <3>1
  <2> HIDE DEF copied, closed
  <2> QED  BY <2>1, <2>2, SameFromZero, Zenon
<1>8. CopyLoop(n) = copied[n]
  BY DEF CopyLoop
<1>9. closed[n] = BlockCopied(RAM, from, to, Dir, n)
  OBVIOUS
<1> QED  BY <1>7, <1>8, <1>9

\* The bytes a block instruction is about, and BC once k of them are done.
Single == ins.op \in {"LDI", "LDD", "CPI", "CPD"}
BlockBytes == IF Single THEN 1 ELSE Repeats
Left(k) == IF Single THEN reg["BC"] - 1 ELSE Repeats - k

\* The bytes a block instruction is about are those the Z80 counts.
LEMMA BlockLength ==
    ASSUME reg \in [Pairs -> Int]
    PROVE  /\ Arch!length = BlockBytes /\ Arch!dir = Dir
           /\ BlockBytes \in Nat /\ BlockBytes >= 1
           /\ \A k \in 0 .. BlockBytes - 1 : ADDRMASK(k) = k
<1> DEFINE x == ADDRMASK(reg["BC"])
<1>1. Arch!ins.op = ins.op
  BY SameInstruction
<1>2. Arch!dir = Dir /\ Arch!once = Single
  BY <1>1 DEF Arch!dir, Dir, Arch!once, Single
<1>3. Arch!Pair("BC") = x /\ x \in Nat /\ ADDRMASK(x) = x
  <2>1. Arch!Pair("BC") = x
    BY PairWord DEF RegPairs
  <2> DEFINE w == reg["BC"]
  <2>2. w \in Int
    BY DEF Pairs, RegPairs
  <2> HIDE DEF w
  <2>3. ADDRMASK(w) \in Nat /\ ADDRMASK(ADDRMASK(w)) = ADDRMASK(w)
    BY <2>2, SMTT(60) DEF ADDRMASK
  <2> QED  BY <2>1, <2>3 DEF w
<1>4. Repeats = IF x = 0 THEN 65536 ELSE x
  BY DEF Repeats
<1> HIDE DEF x
<1>5. Arch!length = BlockBytes
  BY <1>2, <1>3, <1>4 DEF Arch!length, BlockBytes
<1>6. BlockBytes \in Nat /\ BlockBytes >= 1 /\ BlockBytes <= 65536
  BY <1>3, <1>4, SMTT(60) DEF BlockBytes, ADDRMASK
<1>7. \A k \in 0 .. BlockBytes - 1 : ADDRMASK(k) = k
  BY <1>6, SMTT(60) DEF ADDRMASK
<1> QED  BY <1>2, <1>5, <1>6, <1>7

\* What is left in BC is what the Z80 leaves, P whether it is 0.
LEMMA BlockLeft ==
    ASSUME reg \in [Pairs -> Int], NEW k \in Nat, k >= 1, k <= BlockBytes
    PROVE  /\ Left(k) \in Int
           /\ ADDRMASK(Left(k)) = Arch!Word(Arch!Pair("BC") - k)
           /\ ADDRMASK(Left(k)) # 0 <=> Arch!Pair("BC") # k % 65536
<1> DEFINE w == reg["BC"]
           x == ADDRMASK(w)
<1>1. Arch!Pair("BC") = x
  BY PairWord DEF RegPairs
<1>2. w \in Int
  BY DEF Pairs, RegPairs
<1>3. Repeats = IF x = 0 THEN 65536 ELSE x
  BY DEF Repeats
<1>4. CASE Single
  <2>1. BlockBytes = 1 /\ Left(k) = w - 1
    BY <1>4 DEF BlockBytes, Left
  <2>2. k = 1
    BY <2>1
  <2> HIDE DEF w
  <2>3. /\ ADDRMASK(w - 1) = Arch!Word(ADDRMASK(w) - 1)
        /\ ADDRMASK(w - 1) # 0 <=> ADDRMASK(w) # 1
    BY <1>2, SMTT(60) DEF ADDRMASK, Arch!Word
  <2> QED  BY <1>1, <1>2, <2>1, <2>2, <2>3
<1>5. CASE ~Single
  <2>1. BlockBytes = Repeats /\ Left(k) = Repeats - k
    BY <1>5 DEF BlockBytes, Left
  <2> HIDE DEF w
  <2>2. x \in Int /\ x >= 0 /\ x < 65536
    BY <1>2, SMTT(60) DEF ADDRMASK
  <2> HIDE DEF x
  <2>3. CASE x = 0
    <3>1. Left(k) = 65536 - k /\ k <= 65536
      BY <1>3, <2>1, <2>3
    <3>2. /\ ADDRMASK(65536 - k) = Arch!Word(0 - k)
          /\ ADDRMASK(65536 - k) # 0 <=> 0 # k % 65536
      BY <3>1, SMTT(60) DEF ADDRMASK, Arch!Word
    <3> QED  BY <1>1, <2>3, <3>1, <3>2
  <2>4. CASE x # 0
    <3>1. Left(k) = x - k /\ k <= x
      BY <1>3, <2>1, <2>4
    <3>2. /\ ADDRMASK(x - k) = Arch!Word(x - k)
          /\ ADDRMASK(x - k) # 0 <=> x # k % 65536
      BY <2>2, <2>4, <3>1, SMTT(60) DEF ADDRMASK, Arch!Word
    <3> QED  BY <1>1, <2>2, <3>1, <3>2
  <2> QED  BY <2>3, <2>4
<1> QED  BY <1>4, <1>5

\* The registers g with flags fl, SP kept and PC past the instruction.
LEMMA BlockPlaced ==
    ASSUME reg \in [Pairs -> Int], NEW g \in [Pairs -> Int],
           g["SP"] = reg["SP"], g["PC"] = Fetched["PC"],
           NEW fl, NEW doc, Leaves(fl, doc), reg' = SetFlags(g, fl), NoOthers
    PROVE  /\ [z \in Regs |-> Contents(reg, z)]' = [z \in Regs |-> Contents(g, z)]
           /\ Arch!FlagsBecome(doc)
           /\ UNCHANGED ADDRMASK(reg["SP"]) /\ Arch!Rest
<1> DEFINE h == SetFlags(g, fl)
<1>1. /\ h \in [Pairs -> Int]
      /\ \A z \in Regs : Contents(h, z) = Contents(g, z)
      /\ FlagsIn(LOW_REGISTER(h["AF"])) = fl
      /\ \A z \in {"SP", "PC"} : h[z] = g[z]
  BY FlagsPut DEF Leaves
<1>2. reg' = h
  OBVIOUS
<1> HIDE DEF h
<1>3. [z \in Regs |-> Contents(reg', z)] = [z \in Regs |-> Contents(g, z)]
  BY <1>1, <1>2
<1>4. F' \cap Arch!Documented = doc
  BY <1>1, <1>2 DEF F, Leaves
<1>5. Arch!Advance
  BY <1>1, <1>2, FetchedKeeps, Advances DEF Pairs
<1> QED  BY <1>1, <1>2, <1>3, <1>4, <1>5, DocumentedFlags
         DEF NoOthers, Arch!Rest, Arch!Alternate, Arch!Special

\* The copy of the Z80's documentation is that of the loop, the pairs masked.
LEMMA SameCopy ==
    ASSUME NEW x \in Int, NEW y \in Int, NEW d \in {1, -1}, NEW a \in Int, NEW j \in Nat
    PROVE  /\ Along(d, a, y) = Arch!Word(d * (a - ADDRMASK(y)))
           /\ Along(d, y, x) = Arch!Word(d * (ADDRMASK(y) - ADDRMASK(x)))
           /\ ADDRMASK(x + d * j) = Arch!Word(ADDRMASK(x) + d * j)
<1>1. CASE d = 1
  BY <1>1, SMTT(60) DEF Along, ADDRMASK, Arch!Word
<1>2. CASE d = -1
  BY <1>2, SMTT(60) DEF Along, ADDRMASK, Arch!Word
<1> QED  BY <1>1, <1>2

\* The byte of the source the Z80 documents is that of the loop.
LEMMA SameSource ==
    ASSUME NEW x \in Int, NEW y \in Int, NEW d \in {1, -1}, NEW j \in Nat,
           NEW gap, gap = Arch!Word(d * (ADDRMASK(y) - ADDRMASK(x)))
    PROVE  SourceAt(x, y, d, j) = Arch!Word(ADDRMASK(x) + d * (j % (IF gap = 0 THEN 65536 ELSE gap)))
<1> DEFINE p == IF gap = 0 THEN 65536 ELSE gap
<1>1. gap = Along(d, y, x) /\ gap \in Nat
  <2>1. gap = Along(d, y, x)
    BY SameCopy, ZenonT(30)
  <2> QED  BY <2>1, AlongWord, Zenon
<1>2. p = Period(Along(d, y, x)) /\ p \in Nat /\ p > 0
  BY <1>1 DEF Period
<1> HIDE DEF p
<1>3. j % p \in Nat
  BY <1>2
<1>4. SourceAt(x, y, d, j) = ADDRMASK(x + d * (j % p))
  BY <1>2 DEF SourceAt
<1> DEFINE k == j % p
<1> HIDE DEF k
<1>5. ADDRMASK(x + d * k) = Arch!Word(ADDRMASK(x) + d * k)
  <2>1. k \in Nat
    BY <1>3 DEF k
  <2> QED  BY <2>1, SameCopy, ZenonT(30)
<1> QED  BY <1>4, <1>5 DEF k, p

\* The documented flags of a copy.
LEMMA CopyFlags ==
    ASSUME NEW acu, NEW bc, NEW more, (ADDRMASK(bc) # 0) <=> more
    PROVE  Leaves(BlockFlags(acu) \cup When("P", ADDRMASK(bc) # 0),
                  (F \cap {"S", "Z", "C"}) \cup Arch!Set(more, "P"))
<1>1. F \subseteq FlagNames
  BY FlagsAreNames DEF F
<1> DEFINE p == When("P", ADDRMASK(bc) # 0)
           yx == When("X", Bit(acu, 8)) \cup When("Y", Bit(acu, 2))
           kept == F \cap {"S", "Z", "C"}
<1>2. p = Arch!Set(more, "P")
  BY DEF When, Arch!Set
<1>3. p \subseteq {"P"} /\ yx \subseteq {"X", "Y"}
  BY DEF When
<1>4. BlockFlags(acu) = kept \cup yx
  BY DEF BlockFlags
<1> HIDE DEF p, yx
<1>5. Leaves((kept \cup yx) \cup p, kept \cup p)
  BY <1>1, <1>3 DEF Leaves, FlagNames, Arch!Documented
<1> QED  BY <1>2, <1>4, <1>5 DEF p

\* LDI, LDD, LDIR and LDDR (cpu.h, 0xa0, 0xa8, 0xb0 and 0xb8 behind 0xed): the
\* loop that copies byte by byte, over a block that may overlap its source and
\* run around the end of memory, leaves the memory the Z80 leaves, and the
\* pairs and flags with it.
THEOREM CopyCorrect ==
    ASSUME reg \in [Pairs -> Int], RAM \in [DOMAIN RAM -> Byte], Addresses(DOMAIN RAM),
           CopyBlock
    PROVE  Arch!Copy
<1> DEFINE n == BlockBytes
           x == reg["HL"]
           y == reg["DE"]
           bc == Left(n)
           r == [z \in Regs |-> Contents(reg, z)]
           g == [Fetched EXCEPT !["HL"] = x + Dir * n, !["DE"] = y + Dir * n, !["BC"] = bc]
           acu == RAM'[ADDRMASK(reg["DE"] + Dir * (n - 1))] + Acu
           fl == BlockFlags(acu) \cup When("P", ADDRMASK(bc) # 0)
           more == Arch!Pair("BC") # Arch!length % 65536
           doc == (F \cap {"S", "Z", "C"}) \cup Arch!Set(more, "P")
<1>1. /\ ins.op \in {"LDI", "LDD", "LDIR", "LDDR"}
      /\ InWindow(Run("HL", n) \cup Run("DE", n))
      /\ RAM' = CopyLoop(n)
      /\ reg' = SetFlags([Fetched EXCEPT !["HL"] = @ + Dir * n,
                                         !["DE"] = @ + Dir * n, !["BC"] = bc], fl)
      /\ NoOthers
  <2>1. ins.op \in {"LDI", "LDD", "LDIR", "LDDR"} /\ NoOthers
    BY DEF CopyBlock
  <2>2. ins.op \in {"LDI", "LDD"} <=> Single
    BY <2>1 DEF Single
  <2> DEFINE n1 == IF ins.op \in {"LDI", "LDD"} THEN 1 ELSE Repeats
             bc1 == IF ins.op \in {"LDI", "LDD"} THEN reg["BC"] - 1 ELSE 0
  <2>3. n1 = n
    BY <2>2 DEF BlockBytes
  <2>4. bc1 = bc
    <3>1. BlockBytes \in Int
      BY BlockLength
    <3> QED  BY <2>2, <3>1 DEF Left, BlockBytes
  <2>5. /\ InWindow(Run("HL", n1) \cup Run("DE", n1))
        /\ RAM' = CopyLoop(n1)
        /\ reg' = SetFlags([Fetched EXCEPT !["HL"] = @ + Dir * n1,
                                           !["DE"] = @ + Dir * n1, !["BC"] = bc1],
                    BlockFlags(RAM'[ADDRMASK(reg["DE"] + Dir * (n1 - 1))] + Acu)
                      \cup When("P", ADDRMASK(bc1) # 0))
    BY DEF CopyBlock
  <2> HIDE DEF n1, bc1, n, bc
  <2> QED  BY <2>1, <2>3, <2>4, <2>5 DEF acu
<1>2. /\ n \in Nat /\ n >= 1 /\ \A k \in 0 .. n - 1 : ADDRMASK(k) = k
      /\ Arch!length = n /\ Arch!dir = Dir
  BY BlockLength
<1>3. Dir \in {1, -1} /\ x \in Int /\ y \in Int /\ Dir * n \in Int
  BY <1>2 DEF Dir, Pairs, RegPairs
<1>4. bc \in Int /\ ADDRMASK(bc) = Arch!Word(Arch!Pair("BC") - n) /\ (ADDRMASK(bc) # 0 <=> more)
  <2>1. n \in Nat /\ n >= 1 /\ n <= BlockBytes
    BY <1>2
  <2>2. more <=> Arch!Pair("BC") # n % 65536
    BY <1>2
  <2> HIDE DEF n, more
  <2> QED  BY <2>1, <2>2, BlockLeft
<1>5. Arch!Pair("HL") = ADDRMASK(x) /\ Arch!Pair("DE") = ADDRMASK(y)
  BY PairWord DEF RegPairs
<1>6. RAM' = BlockCopied(RAM, x, y, Dir, n)
  BY <1>1, <1>2, CopyLoopCopies
<1> HIDE DEF n, bc, acu, more
<1>7. Leaves(fl, doc)
  BY <1>4, CopyFlags
<1> HIDE DEF fl, doc
<1>8. /\ g \in [Pairs -> Int] /\ g["SP"] = reg["SP"] /\ g["PC"] = Fetched["PC"]
      /\ g["HL"] = x + Dir * n /\ g["DE"] = y + Dir * n /\ g["BC"] = bc
      /\ \A p \in RegPairs \ {"HL", "DE", "BC"} : g[p] = reg[p]
      /\ reg' = SetFlags(g, fl)
  <2> HIDE DEF x, y
  <2>1. /\ Fetched \in [Pairs -> Int] /\ \A p \in Pairs \ {"PC"} : Fetched[p] = reg[p]
    BY FetchedKeeps
  <2>2. Fetched["HL"] = x /\ Fetched["DE"] = y
    BY <2>1 DEF x, y, Pairs, RegPairs
  <2>3. x + Dir * n \in Int /\ y + Dir * n \in Int
    BY <1>3
  <2> DEFINE e == Dir * n
  <2>4. g \in [Pairs -> Int] /\ g["SP"] = reg["SP"] /\ g["PC"] = Fetched["PC"]
        /\ g["HL"] = x + e /\ g["DE"] = y + e /\ g["BC"] = bc
        /\ \A p \in RegPairs \ {"HL", "DE", "BC"} : g[p] = reg[p]
    <3> HIDE DEF e
    <3> QED  BY <1>4, <2>1, <2>3 DEF Pairs, RegPairs, e
  <2>5. [Fetched EXCEPT !["HL"] = @ + Dir * n, !["DE"] = @ + Dir * n, !["BC"] = bc] = g
    BY <2>2
  <2> HIDE DEF g
  <2> QED  BY <1>1, <2>4, <2>5
<1>9. [z \in Regs |-> Contents(g, z)]
        = Arch!InPair(Arch!InPair(Arch!InPair(r, "HL", Arch!Word(Arch!Pair("HL") + Dir * n)),
                                  "DE", Arch!Word(Arch!Pair("DE") + Dir * n)),
                      "BC", Arch!Word(Arch!Pair("BC") - n))
  <2> DEFINE g1 == [reg EXCEPT !["HL"] = x + Dir * n]
             g2 == [g1 EXCEPT !["DE"] = y + Dir * n]
             e == Dir * n
  <2>1. /\ g1 \in [Pairs -> Int] /\ g1["HL"] = x + Dir * n
        /\ g2 \in [Pairs -> Int] /\ g2["DE"] = y + Dir * n
        /\ \A q \in RegPairs \ {"HL"} : g1[q] = reg[q]
        /\ \A q \in RegPairs \ {"DE"} : g2[q] = g1[q]
    <3>1. x + e \in Int /\ y + e \in Int
      BY <1>3
    <3> HIDE DEF e, x, y
    <3> QED  BY <3>1 DEF Pairs, RegPairs, e
  <2>2. \A q \in RegPairs \ {"BC"} : g[q] = g2[q]
    <3> HIDE DEF x, y, e, g
    <3> QED  BY <1>8 DEF Pairs, RegPairs
  <2> HIDE DEF g, g1, g2, x, y
  <2>3. /\ [z \in Regs |-> Contents(g1, z)] = Arch!InPair(r, "HL", ADDRMASK(g1["HL"]))
        /\ [z \in Regs |-> Contents(g2, z)]
             = Arch!InPair([z \in Regs |-> Contents(g1, z)], "DE", ADDRMASK(g2["DE"]))
        /\ [z \in Regs |-> Contents(g, z)]
             = Arch!InPair([z \in Regs |-> Contents(g2, z)], "BC", ADDRMASK(g["BC"]))
    <3>1. "HL" \in RegPairs \ {"AF"} /\ "DE" \in RegPairs \ {"AF"} /\ "BC" \in RegPairs \ {"AF"}
      BY DEF RegPairs
    <3>2. [z \in Regs |-> Contents(g1, z)] = Arch!InPair(r, "HL", ADDRMASK(g1["HL"]))
      BY <2>1, <3>1, PairPut
    <3>3. [z \in Regs |-> Contents(g2, z)]
             = Arch!InPair([z \in Regs |-> Contents(g1, z)], "DE", ADDRMASK(g2["DE"]))
      BY <2>1, <3>1, PairPut
    <3>4. [z \in Regs |-> Contents(g, z)]
             = Arch!InPair([z \in Regs |-> Contents(g2, z)], "BC", ADDRMASK(g["BC"]))
      BY <1>8, <2>1, <2>2, <3>1, PairPut
    <3> QED  BY <3>2, <3>3, <3>4
  <2>4. ADDRMASK(x + e) = Arch!Word(ADDRMASK(x) + e) /\ ADDRMASK(y + e) = Arch!Word(ADDRMASK(y) + e)
    <3>1. e \in Int
      BY <1>3
    <3> HIDE DEF e
    <3> QED  BY <1>3, <3>1, LateWord
  <2> HIDE DEF r
  <2> QED  BY <1>4, <1>5, <1>8, <2>1, <2>3, <2>4
<1>10. /\ [z \in Regs |-> Contents(reg, z)]' = [z \in Regs |-> Contents(g, z)]
       /\ Arch!FlagsBecome(doc)
       /\ UNCHANGED ADDRMASK(reg["SP"]) /\ Arch!Rest
  <2> HIDE DEF g
  <2> QED  BY <1>1, <1>7, <1>8, BlockPlaced
<1>11. RAM' = [a \in DOMAIN RAM |->
                 IF Arch!Word(Dir * (a - Arch!Pair("DE"))) < n
                 THEN RAM[Arch!Word(Arch!Pair("HL") + Dir *
                        (Arch!Word(Dir * (a - Arch!Pair("DE"))) %
                          (IF Arch!Word(Dir * (Arch!Pair("DE") - Arch!Pair("HL"))) = 0 THEN 65536
                           ELSE Arch!Word(Dir * (Arch!Pair("DE") - Arch!Pair("HL"))))))]
                 ELSE RAM[a]]
  <2> DEFINE gap == Arch!Word(Dir * (Arch!Pair("DE") - Arch!Pair("HL")))
             Src(j) == Arch!Word(Arch!Pair("HL") + Dir * (j % (IF gap = 0 THEN 65536 ELSE gap)))
  <2> HIDE DEF x, y
  <2>1. ASSUME NEW a \in DOMAIN RAM
        PROVE  /\ Along(Dir, a, y) = Arch!Word(Dir * (a - Arch!Pair("DE")))
               /\ SourceAt(x, y, Dir, Along(Dir, a, y)) = Src(Along(Dir, a, y))
    <3>1. a \in Int
      BY DEF Addresses
    <3>2. Along(Dir, a, y) = Arch!Word(Dir * (a - ADDRMASK(y)))
      BY <1>3, <3>1, SameCopy, ZenonT(30)
    <3>3. Along(Dir, a, y) \in Nat
      BY <1>3, <3>1, AlongWord, ZenonT(30)
    <3> DEFINE j == Along(Dir, a, y)
    <3> HIDE DEF j
    <3>4. j \in Nat /\ gap = Arch!Word(Dir * (ADDRMASK(y) - ADDRMASK(x)))
      BY <1>5, <3>3 DEF j
    <3> HIDE DEF gap
    <3>5. SourceAt(x, y, Dir, j)
            = Arch!Word(ADDRMASK(x) + Dir * (j % (IF gap = 0 THEN 65536 ELSE gap)))
      BY <1>3, <3>4, SameSource
    <3>6. SourceAt(x, y, Dir, j) = Src(j)
      BY <1>5, <3>5
    <3> QED  BY <1>5, <3>2, <3>6 DEF j
  <2> HIDE DEF gap, Src
  <2>2. RAM' = [a \in DOMAIN RAM |->
                  IF Arch!Word(Dir * (a - Arch!Pair("DE"))) < n
                  THEN RAM[Src(Arch!Word(Dir * (a - Arch!Pair("DE"))))]
                  ELSE RAM[a]]
    BY <1>6, <2>1 DEF BlockCopied
  <2> QED  BY <2>2 DEF Src, gap
<1>12. RAM' = [a \in DOMAIN RAM |->
                 IF Arch!Word(Arch!dir * (a - Arch!Pair("DE"))) < Arch!length
                 THEN RAM[Arch!Word(Arch!Pair("HL") + Arch!dir *
                        (Arch!Word(Arch!dir * (a - Arch!Pair("DE"))) %
                          (IF Arch!Word(Arch!dir * (Arch!Pair("DE") - Arch!Pair("HL"))) = 0 THEN 65536
                           ELSE Arch!Word(Arch!dir * (Arch!Pair("DE") - Arch!Pair("HL"))))))]
                 ELSE RAM[a]]
  BY <1>2, <1>11
<1> HIDE DEF g, x, y
<1>13. [z \in Regs |-> Contents(reg, z)]'
         = Arch!InPair(Arch!InPair(Arch!InPair(r, "HL", Arch!Word(Arch!Pair("HL") + Arch!dir * Arch!length)),
                                   "DE", Arch!Word(Arch!Pair("DE") + Arch!dir * Arch!length)),
                       "BC", Arch!Word(Arch!Pair("BC") - Arch!length))
  BY <1>2, <1>9, <1>10
<1>14. Arch!FlagsBecome((F \cap {"S", "Z", "C"})
                          \cup (IF Arch!Pair("BC") # Arch!length % 65536 THEN {"P"} ELSE {}))
  BY <1>10 DEF doc, more, Arch!Set
<1>15. Arch!ins.op \in {"LDI", "LDD", "LDIR", "LDDR"}
  BY <1>1, SameInstruction
<1> QED
  BY <1>10, <1>12, <1>13, <1>14, <1>15 DEF Arch!Copy, Arch!Set, r

-----------------------------------------------------------------------------
(* Searches of blocks.                                                     *)

\* Place k of n is the first in found, or the last there is.
First(k, n, found) == (k = n \/ k \in found) /\ \A j \in 1 .. k - 1 : j \notin found

\* There is one first place, and one only.
LEMMA OneFirst ==
    ASSUME NEW n \in Nat, n >= 1, NEW found
    PROVE  /\ \E k \in 1 .. n : First(k, n, found)
           /\ \A k, m \in 1 .. n : First(k, n, found) /\ First(m, n, found) => k = m
<1> DEFINE T == {k \in 1 .. n : k = n \/ k \in found}
<1>1. PICK k \in T : \A m \in T : k <= m
  <2>1. T \subseteq Nat /\ n \in T
    OBVIOUS
  <2> HIDE DEF T
  <2> QED  BY <2>1, LeastNumber
<1>2. k \in 1 .. n /\ First(k, n, found)
  <2>1. ASSUME NEW j \in 1 .. k - 1
        PROVE  j \notin found
    <3>1. j \in 1 .. n /\ j < k
      OBVIOUS
    <3>2. j \notin T
      BY <1>1, <3>1
    <3> QED  BY <3>1, <3>2
  <2> QED  BY <2>1 DEF First
<1>3. ASSUME NEW p \in 1 .. n, NEW q \in 1 .. n,
             First(p, n, found), First(q, n, found)
      PROVE  ~ (p < q)
  <2>1. p < q => p \in 1 .. q - 1 /\ p # n
    OBVIOUS
  <2> QED  BY <1>3, <2>1 DEF First
<1>4. ASSUME NEW p \in 1 .. n, NEW q \in 1 .. n,
             First(p, n, found), First(q, n, found)
      PROVE  p = q
  <2>1. ~ (p < q) /\ ~ (q < p)
    BY <1>3, <1>4
  <2> QED  BY <2>1
<1> QED  BY <1>2, <1>4

\* The places of the block at HL that hold the byte A.
Matches(n) == {k \in 1 .. n : RAM[ADDRMASK(reg["HL"] + Dir * (k - 1))] = Acu}

\* The loop stops at the first byte equal to A, or behind the last one.
LEMMA ComparedFirst ==
    ASSUME NEW n \in Nat, n >= 1
    PROVE  Compared(n) \in 1 .. n /\ First(Compared(n), n, Matches(n))
<1> DEFINE byte(k) == RAM[ADDRMASK(reg["HL"] + Dir * (k - 1))]
           Stops(k) == /\ k = n \/ byte(k) = Acu
                       /\ \A j \in 1 .. k - 1 : ~ (j = n \/ byte(j) = Acu)
<1>1. \A k \in 1 .. n : k \in Matches(n) <=> byte(k) = Acu
  BY DEF Matches
<1>2. Compared(n) = CHOOSE k \in 1 .. n : Stops(k)
  BY DEF Compared
<1> HIDE DEF byte
<1>3. ASSUME NEW k \in 1 .. n
      PROVE  Stops(k) <=> First(k, n, Matches(n))
  <2>1. \A j \in 1 .. k - 1 : j \in 1 .. n /\ j # n
    OBVIOUS
  <2> QED  BY <1>1, <2>1 DEF First
<1>4. \E k \in 1 .. n : Stops(k)
  <2> HIDE DEF Stops
  <2> QED  BY <1>3, OneFirst
<1> HIDE DEF Stops
<1>5. Compared(n) \in 1 .. n /\ Stops(Compared(n))
  BY <1>2, <1>4
<1> QED  BY <1>3, <1>5

\* The place the Z80 stops at is that of the loop.
LEMMA SearchedFirst ==
    ASSUME reg \in [Pairs -> Int]
    PROVE  Compared(Arch!length)
             = CHOOSE k \in 1 .. Arch!length :
                 /\ \/ k = Arch!length
                    \/ RAM[Arch!Word(Arch!Pair("HL") + Arch!dir * (k - 1))]
                         = [z \in Regs |-> Contents(reg, z)]["A"]
                 /\ \A j \in 1 .. k - 1 :
                      ~ (RAM[Arch!Word(Arch!Pair("HL") + Arch!dir * (j - 1))]
                           = [z \in Regs |-> Contents(reg, z)]["A"])
<1> DEFINE n == Arch!length
           a == [z \in Regs |-> Contents(reg, z)]["A"]
           found(k) == RAM[Arch!Word(Arch!Pair("HL") + Arch!dir * (k - 1))] = a
           Stops(k) == /\ k = n \/ found(k)
                       /\ \A j \in 1 .. k - 1 : ~ found(j)
           chosen == CHOOSE k \in 1 .. n : Stops(k)
           x == reg["HL"]
<1>1. n \in Nat /\ n >= 1 /\ Arch!dir = Dir /\ Dir \in {1, -1}
  BY BlockLength DEF Dir
<1>2. a = Acu
  BY AccumulatorByte
<1>3. Arch!Pair("HL") = ADDRMASK(x) /\ x \in Int
  BY PairWord DEF Pairs, RegPairs
<1> HIDE DEF a, n, x
<1>4. ASSUME NEW k \in 1 .. n
      PROVE  found(k) <=> k \in Matches(n)
  <2> DEFINE j == k - 1
  <2>1. j \in Nat
    BY <1>1
  <2> HIDE DEF j
  <2>2. ADDRMASK(x + Dir * j) = Arch!Word(ADDRMASK(x) + Dir * j)
    BY <1>1, <1>3, <2>1, SameCopy, ZenonT(30)
  <2>3. found(k) <=> RAM[ADDRMASK(reg["HL"] + Dir * (k - 1))] = Acu
    BY <1>1, <1>2, <1>3, <2>2 DEF j, x
  <2> QED  BY <2>3 DEF Matches
<1> HIDE DEF found
<1>5. ASSUME NEW k \in 1 .. n
      PROVE  Stops(k) <=> First(k, n, Matches(n))
  <2>1. \A j \in 1 .. k - 1 : j \in 1 .. n
    BY <1>1
  <2> QED  BY <1>4, <2>1 DEF First
<1>6. \E k \in 1 .. n : Stops(k)
  <2> HIDE DEF Stops
  <2> QED  BY <1>1, <1>5, OneFirst
<1>7. chosen \in 1 .. n /\ Stops(chosen)
  <2> HIDE DEF Stops
  <2> QED  BY <1>6
<1> HIDE DEF Stops, chosen
<1>8. First(chosen, n, Matches(n)) /\ First(Compared(n), n, Matches(n)) /\ Compared(n) \in 1 .. n
  BY <1>1, <1>5, <1>7, ComparedFirst
<1>9. Compared(n) = chosen
  BY <1>1, <1>7, <1>8, OneFirst
<1> QED  BY <1>9 DEF n, chosen, Stops, found, a

\* The documented flags of a search: those of the difference, C kept.
SearchBits(sum, half) ==
    {"N"} \cup When("H", half) \cup When("S", Bit(sum, 128)) \cup When("Z", sum % 256 = 0)

\* S, Z, H and N of a search are those of the Z80's difference.
LEMMA SearchedFlags ==
    ASSUME NEW a \in Byte, NEW b \in Byte
    PROVE  SearchBits(a - b, Bit(Cbits(a, b, a - b), 16))
             = Arch!Difference(a, b, 0).fl \cap {"S", "Z", "H", "N"}
<1> DEFINE s == a - b
           cb == Cbits(a, b, s)
           kept == {"S", "Z", "H", "N"}
           half == Bit(cb, 16)
<1>1. Cp8(a, b).f = cpTable(s % 256) \cup YX(b) \cup SET_PV(cb) \cup cbits2Table(cb)
  BY DEF Cp8, Result
<1>2. Cp8(a, b).f \cap Arch!Documented = Arch!Difference(a, b, 0).fl
  BY CompareComputes DEF Computes, Arch!Of
<1>3. Bit(s % 256, 128) <=> Bit(s, 128)
  <2>1. s \in Int
    BY DEF Byte
  <2> HIDE DEF s
  <2> QED  BY <2>1, SMTT(60) DEF Bit
<1> HIDE DEF cb, s
<1>4. YX(b) \cap kept = {} /\ SET_PV(cb) \cap kept = {}
  BY DEF YX, SET_PV, When
<1>5. cbits2Table(cb) \cap kept = When("H", Bit(cb, 16)) \cup {"N"}
  BY DEF cbits2Table, cbitsTable, When
<1>6. cpTable(s % 256) \cap kept = When("S", Bit(s, 128)) \cup When("Z", s % 256 = 0)
  BY <1>3 DEF cpTable, When
<1>7. kept \subseteq Arch!Documented
  BY DEF Arch!Documented
<1> DEFINE d == Arch!Difference(a, b, 0).fl
           c == Cp8(a, b).f
<1> HIDE DEF d, c, kept
<1>8. d \cap kept = c \cap kept
  BY <1>2, <1>7 DEF d, c
<1>9. c \cap kept = (When("S", Bit(s, 128)) \cup When("Z", s % 256 = 0))
                      \cup (When("H", Bit(cb, 16)) \cup {"N"})
  BY <1>1, <1>4, <1>5, <1>6 DEF c
<1>10. SearchBits(s, Bit(cb, 16)) = c \cap kept
  <2>1. SearchBits(s, Bit(cb, 16))
          = {"N"} \cup When("H", Bit(cb, 16)) \cup When("S", Bit(s, 128)) \cup When("Z", s % 256 = 0)
    BY DEF SearchBits
  <2> QED  BY <1>9, <2>1 DEF When
<1> QED  BY <1>8, <1>10 DEF s, cb, d, kept

\* With them P, which says that BC has not run out.
LEMMA SearchFlags ==
    ASSUME NEW a \in Byte, NEW b \in Byte, NEW less, NEW bc, NEW more,
           (ADDRMASK(bc) # 0) <=> more
    PROVE  Leaves((F \cap {"C"}) \cup {"N"} \cup When("H", Bit(Cbits(a, b, a - b), 16))
                    \cup When("S", Bit(a - b, 128)) \cup When("Z", (a - b) % 256 = 0)
                    \cup When("Y", Bit(less, 2)) \cup When("X", Bit(less, 8))
                    \cup When("P", ADDRMASK(bc) # 0),
                  (Arch!Difference(a, b, 0).fl \cap {"S", "Z", "H", "N"})
                    \cup (F \cap {"C"}) \cup Arch!Set(more, "P"))
<1> DEFINE s == a - b
           half == Bit(Cbits(a, b, s), 16)
           h == When("H", half)
           sign == When("S", Bit(s, 128))
           z == When("Z", s % 256 = 0)
           y == When("Y", Bit(less, 2))
           x == When("X", Bit(less, 8))
           p == When("P", ADDRMASK(bc) # 0)
           c == F \cap {"C"}
           d == Arch!Difference(a, b, 0).fl \cap {"S", "Z", "H", "N"}
<1>1. p = Arch!Set(more, "P")
  BY DEF When, Arch!Set
<1>2. {"N"} \cup h \cup sign \cup z = d
  BY SearchedFlags DEF SearchBits
<1>3. /\ h \subseteq {"H"} /\ sign \subseteq {"S"} /\ z \subseteq {"Z"}
      /\ y \subseteq {"Y"} /\ x \subseteq {"X"} /\ p \subseteq {"P"} /\ c \subseteq {"C"}
  BY DEF When
<1> HIDE DEF h, sign, z, y, x, p, c, d
<1>4. Leaves(c \cup {"N"} \cup h \cup sign \cup z \cup y \cup x \cup p, d \cup c \cup p)
  <2>1. c \cup {"N"} \cup h \cup sign \cup z \cup y \cup x \cup p \in SUBSET FlagNames
    BY <1>3 DEF FlagNames
  <2>2. c \cup {"N"} \cup h \cup sign \cup z \cup y \cup x \cup p = (d \cup c \cup p) \cup (y \cup x)
    BY <1>2
  <2>3. /\ (y \cup x) \cap Arch!Documented = {}
        /\ (d \cup c \cup p) \cap Arch!Documented = d \cup c \cup p
    BY <1>2, <1>3 DEF Arch!Documented
  <2> QED  BY <2>1, <2>2, <2>3 DEF Leaves
<1> QED  BY <1>1, <1>4 DEF s, half, h, sign, z, y, x, p, c, d

\* CPI, CPD, CPIR and CPDR (cpu.h, 0xa1, 0xa9, 0xb1 and 0xb9 behind 0xed): the
\* loop stops at the byte the Z80 stops at, with HL past it, BC less by the
\* bytes read, the flags of the last difference, and P while BC has not run out.
THEOREM SearchCorrect ==
    ASSUME reg \in [Pairs -> Int], RAM \in [DOMAIN RAM -> Byte], CompareBlock
    PROVE  Arch!Search
<1> DEFINE n == BlockBytes
           k == Compared(n)
           x == reg["HL"]
           bc == Left(k)
           temp == RAM[ADDRMASK(x + Dir * (k - 1))]
           r == [z \in Regs |-> Contents(reg, z)]
           g == [Fetched EXCEPT !["HL"] = x + Dir * k, !["BC"] = bc]
           sum == Acu - temp
           half == Bit(Cbits(Acu, temp, sum), 16)
           less == IF half THEN sum - 1 ELSE sum
           fl == (F \cap {"C"}) \cup {"N"} \cup When("H", half)
                   \cup When("S", Bit(sum, 128)) \cup When("Z", sum % 256 = 0)
                   \cup When("Y", Bit(less, 2)) \cup When("X", Bit(less, 8))
                   \cup When("P", ADDRMASK(bc) # 0)
           more == Arch!Pair("BC") # k % 65536
           doc == (Arch!Difference(Acu, temp, 0).fl \cap {"S", "Z", "H", "N"})
                    \cup (F \cap {"C"}) \cup Arch!Set(more, "P")
<1>1. ins.op \in {"CPI", "CPD", "CPIR", "CPDR"} /\ NoOthers
  BY DEF CompareBlock
<1>2. /\ n \in Nat /\ n >= 1 /\ Arch!length = n /\ Arch!dir = Dir
  BY BlockLength
<1>3. k \in 1 .. n
  BY <1>2, ComparedFirst
<1>4. /\ InWindow(Run("HL", n)) /\ UNCHANGED RAM
      /\ reg' = SetFlags([Fetched EXCEPT !["HL"] = @ + Dir * k, !["BC"] = bc], fl)
  <2>1. ins.op \in {"CPI", "CPD"} <=> Single
    BY <1>1 DEF Single
  <2> DEFINE n1 == IF ins.op \in {"CPI", "CPD"} THEN 1 ELSE Repeats
             k1 == Compared(n1)
             bc1 == IF ins.op \in {"CPI", "CPD"} THEN reg["BC"] - 1 ELSE Repeats - k1
             temp1 == RAM[ADDRMASK(reg["HL"] + Dir * (k1 - 1))]
             sum1 == Acu - temp1
             half1 == Bit(Cbits(Acu, temp1, sum1), 16)
             less1 == IF half1 THEN sum1 - 1 ELSE sum1
  <2>2. n1 = n
    BY <2>1 DEF BlockBytes
  <2>3. k1 = k
    <3> HIDE DEF n1, n
    <3> QED  BY <2>2
  <2>4. bc1 = bc
    <3> HIDE DEF k1, k
    <3> QED  BY <2>1, <2>3 DEF Left
  <2>5. /\ InWindow(Run("HL", n1))
        /\ Registers(SetFlags([Fetched EXCEPT !["HL"] = @ + Dir * k1, !["BC"] = bc1],
                (F \cap {"C"}) \cup {"N"} \cup When("H", half1)
                  \cup When("S", Bit(sum1, 128)) \cup When("Z", sum1 % 256 = 0)
                  \cup When("Y", Bit(less1, 2)) \cup When("X", Bit(less1, 8))
                  \cup When("P", ADDRMASK(bc1) # 0)))
    BY DEF CompareBlock
  <2> HIDE DEF n1, k1, bc1, n, k, bc
  <2>6. temp1 = temp
    BY <2>3
  <2> HIDE DEF temp1, temp
  <2>7. sum1 = sum
    BY <2>6
  <2> HIDE DEF sum1, sum
  <2>8. Cbits(Acu, temp1, sum1) = Cbits(Acu, temp, sum)
    BY <2>6, <2>7
  <2>9. half1 <=> half
    BY <2>8
  <2> HIDE DEF half1, half
  <2>10. less1 = less
    BY <2>7, <2>9
  <2> HIDE DEF less1, less
  <2>11. When("H", half1) = When("H", half)
    BY <2>9 DEF When
  <2> DEFINE h1 == When("H", half1)
             h == When("H", half)
  <2> HIDE DEF h1, h
  <2>12. h1 = h
    BY <2>11 DEF h1, h
  <2>13. /\ InWindow(Run("HL", n1))
         /\ Registers(SetFlags([Fetched EXCEPT !["HL"] = @ + Dir * k1, !["BC"] = bc1],
                (F \cap {"C"}) \cup {"N"} \cup h1
                  \cup When("S", Bit(sum1, 128)) \cup When("Z", sum1 % 256 = 0)
                  \cup When("Y", Bit(less1, 2)) \cup When("X", Bit(less1, 8))
                  \cup When("P", ADDRMASK(bc1) # 0)))
    BY <2>5 DEF h1
  <2>14. fl = (F \cap {"C"}) \cup {"N"} \cup h
                  \cup When("S", Bit(sum, 128)) \cup When("Z", sum % 256 = 0)
                  \cup When("Y", Bit(less, 2)) \cup When("X", Bit(less, 8))
                  \cup When("P", ADDRMASK(bc) # 0)
    BY DEF h
  <2> HIDE DEF fl
  <2> QED  BY <2>2, <2>3, <2>4, <2>7, <2>10, <2>12, <2>13, <2>14 DEF Registers
<1>5. Dir \in {1, -1} /\ x \in Int
  BY DEF Dir, Pairs, RegPairs
<1>6. Acu \in Byte /\ temp \in Byte /\ Acu = r["A"]
  <2> DEFINE j == k - 1
  <2>1. j \in 0 .. n - 1
    BY <1>2, <1>3
  <2> HIDE DEF j, n
  <2>2. ADDRMASK(reg["HL"] + Dir * j) \in DOMAIN RAM
    BY <1>4, <2>1 DEF InWindow, Run
  <2> QED  BY <2>2, AccumulatorByte DEF j
<1> HIDE DEF n, k
<1>7. bc \in Int /\ ADDRMASK(bc) = Arch!Word(Arch!Pair("BC") - k) /\ (ADDRMASK(bc) # 0 <=> more)
  <2>1. k \in Nat /\ k >= 1 /\ k <= BlockBytes
    BY <1>2, <1>3 DEF n
  <2> HIDE DEF more
  <2>2. more <=> Arch!Pair("BC") # k % 65536
    BY DEF more
  <2> QED  BY <2>1, <2>2, BlockLeft
<1>8. Arch!Pair("HL") = ADDRMASK(x)
  BY PairWord DEF RegPairs
<1> HIDE DEF bc, more, temp
<1>9. Leaves(fl, doc)
  BY <1>6, <1>7, SearchFlags
<1> HIDE DEF fl, doc
<1>10. k \in Int /\ x + Dir * k \in Int
  <2> HIDE DEF x
  <2> QED  BY <1>2, <1>3, <1>5
<1>11. /\ g \in [Pairs -> Int] /\ g["SP"] = reg["SP"] /\ g["PC"] = Fetched["PC"]
       /\ g["HL"] = x + Dir * k /\ g["BC"] = bc
       /\ \A p \in RegPairs \ {"HL", "BC"} : g[p] = reg[p]
       /\ reg' = SetFlags(g, fl)
  <2> HIDE DEF x
  <2>1. /\ Fetched \in [Pairs -> Int] /\ \A p \in Pairs \ {"PC"} : Fetched[p] = reg[p]
    BY FetchedKeeps
  <2>2. Fetched["HL"] = x
    BY <2>1 DEF x, Pairs, RegPairs
  <2> DEFINE e == Dir * k
  <2>3. g \in [Pairs -> Int] /\ g["SP"] = reg["SP"] /\ g["PC"] = Fetched["PC"]
        /\ g["HL"] = x + e /\ g["BC"] = bc
        /\ \A p \in RegPairs \ {"HL", "BC"} : g[p] = reg[p]
    <3> HIDE DEF e
    <3> QED  BY <1>7, <1>10, <2>1 DEF Pairs, RegPairs, e
  <2>4. [Fetched EXCEPT !["HL"] = @ + Dir * k, !["BC"] = bc] = g
    BY <2>2
  <2> HIDE DEF g
  <2> QED  BY <1>4, <2>3, <2>4
<1>12. [z \in Regs |-> Contents(g, z)]
         = Arch!InPair(Arch!InPair(r, "HL", Arch!Word(Arch!Pair("HL") + Dir * k)),
                       "BC", Arch!Word(Arch!Pair("BC") - k))
  <2> DEFINE g1 == [reg EXCEPT !["HL"] = x + Dir * k]
             e == Dir * k
  <2>1. /\ g1 \in [Pairs -> Int] /\ g1["HL"] = x + Dir * k
        /\ \A q \in RegPairs \ {"HL"} : g1[q] = reg[q]
    <3> HIDE DEF e, x
    <3> QED  BY <1>10 DEF Pairs, RegPairs, e
  <2>2. \A q \in RegPairs \ {"BC"} : g[q] = g1[q]
    <3> HIDE DEF x, e, g
    <3> QED  BY <1>11 DEF Pairs, RegPairs
  <2> HIDE DEF g, g1, x
  <2>3. "HL" \in RegPairs \ {"AF"} /\ "BC" \in RegPairs \ {"AF"}
    BY DEF RegPairs
  <2>4. [z \in Regs |-> Contents(g1, z)] = Arch!InPair(r, "HL", ADDRMASK(g1["HL"]))
    BY <2>1, <2>3, PairPut
  <2>5. [z \in Regs |-> Contents(g, z)]
          = Arch!InPair([z \in Regs |-> Contents(g1, z)], "BC", ADDRMASK(g["BC"]))
    BY <1>11, <2>1, <2>2, <2>3, PairPut
  <2>6. ADDRMASK(x + e) = Arch!Word(ADDRMASK(x) + e)
    <3>1. e \in Int
      BY <1>5, <1>10
    <3> HIDE DEF e
    <3> QED  BY <1>5, <3>1, LateWord
  <2> HIDE DEF r
  <2> QED  BY <1>7, <1>8, <1>11, <2>1, <2>4, <2>5, <2>6
<1>13. /\ [z \in Regs |-> Contents(reg, z)]' = [z \in Regs |-> Contents(g, z)]
       /\ Arch!FlagsBecome(doc)
       /\ UNCHANGED ADDRMASK(reg["SP"]) /\ Arch!Rest
  <2> HIDE DEF g
  <2> QED  BY <1>1, <1>9, <1>11, BlockPlaced
<1> HIDE DEF g, x
<1> DEFINE c == CHOOSE m \in 1 .. Arch!length :
                  /\ \/ m = Arch!length
                     \/ RAM[Arch!Word(Arch!Pair("HL") + Arch!dir * (m - 1))] = r["A"]
                  /\ \A j \in 1 .. m - 1 :
                       ~ (RAM[Arch!Word(Arch!Pair("HL") + Arch!dir * (j - 1))] = r["A"])
<1>14. k = c
  <2>1. k = Compared(Arch!length)
    BY <1>2 DEF k
  <2> QED  BY <2>1, SearchedFirst
<1>15. temp = RAM[Arch!Word(Arch!Pair("HL") + Arch!dir * (c - 1))]
  <2> DEFINE j == k - 1
  <2>1. j \in Nat
    BY <1>2, <1>3
  <2> HIDE DEF j, c
  <2>2. ADDRMASK(x + Dir * j) = Arch!Word(ADDRMASK(x) + Dir * j)
    BY <1>5, <2>1, SameCopy, ZenonT(30)
  <2>3. temp = RAM[ADDRMASK(x + Dir * j)]
    BY DEF temp, j
  <2>4. Dir * j = Arch!dir * (c - 1)
    BY <1>2, <1>14 DEF j
  <2> QED  BY <1>8, <2>2, <2>3, <2>4
<1>16. [z \in Regs |-> Contents(reg, z)]'
         = Arch!InPair(Arch!InPair(r, "HL", Arch!Word(Arch!Pair("HL") + Arch!dir * c)),
                       "BC", Arch!Word(Arch!Pair("BC") - c))
  <2> HIDE DEF c, r
  <2> QED  BY <1>2, <1>12, <1>13, <1>14
<1>17. Arch!FlagsBecome(
         (Arch!Difference(r["A"], RAM[Arch!Word(Arch!Pair("HL") + Arch!dir * (c - 1))], 0).fl
             \cap {"S", "Z", "H", "N"})
           \cup (F \cap {"C"})
           \cup (IF Arch!Pair("BC") # c % 65536 THEN {"P"} ELSE {}))
  <2> HIDE DEF c, r
  <2> DEFINE last == RAM[Arch!Word(Arch!Pair("HL") + Arch!dir * (c - 1))]
  <2> HIDE DEF last
  <2>1. temp = last
    BY <1>15 DEF last
  <2>2. Arch!Difference(Acu, temp, 0) = Arch!Difference(r["A"], last, 0)
    BY <1>6, <2>1
  <2> DEFINE p == Arch!Set(more, "P")
  <2>3. p = IF Arch!Pair("BC") # c % 65536 THEN {"P"} ELSE {}
    BY <1>14 DEF more, Arch!Set
  <2>4. doc = (Arch!Difference(Acu, temp, 0).fl \cap {"S", "Z", "H", "N"})
                \cup (F \cap {"C"}) \cup p
    BY DEF doc
  <2> HIDE DEF p
  <2>5. Arch!FlagsBecome((Arch!Difference(r["A"], last, 0).fl \cap {"S", "Z", "H", "N"})
          \cup (F \cap {"C"}) \cup p)
    BY <1>13, <2>2, <2>4
  <2>6. Arch!FlagsBecome((Arch!Difference(r["A"], last, 0).fl \cap {"S", "Z", "H", "N"})
          \cup (F \cap {"C"}) \cup (IF Arch!Pair("BC") # c % 65536 THEN {"P"} ELSE {}))
    BY <2>3, <2>5
  <2> QED  BY <2>6 DEF last
<1>18. Arch!ins.op \in {"CPI", "CPD", "CPIR", "CPDR"}
  BY <1>1, SameInstruction
<1> QED
  BY <1>4, <1>13, <1>16, <1>17, <1>18 DEF Arch!Search, Arch!Set, r, c
=============================================================================
