------------------------- MODULE Z80RefinementProofs -------------------------
(***************************************************************************)
(* The processor of the code implements the Z80: every instruction, the    *)
(* calls behind IN and OUT, the types of the state, and the decoding of    *)
(* every four bytes, which the thousand case labels of Z80run and the      *)
(* three octal fields of an opcode agree on.                               *)
(***************************************************************************)
EXTENDS Z80Proofs

-----------------------------------------------------------------------------
(* Every instruction but the transfers through ports.                      *)

\* The instruction at hand is none of the two that RunCPM carries out
\* otherwise than the manual says: a word stored at the last address, whose
\* second byte PUT_WORD writes behind RAM (cpu.h:1122), and LD A,I once LD
\* I,A has left more than sixteen bits in IR, all of which its zero flag
\* tests (cpu.h:3602).
Undisputed ==
    /\ ins.op \in {"LDW", "LDW ED"} /\ ins.x = "(nn)" => ADDRMASK(ins.n + 1) = ins.n + 1
    /\ ins.op = "LD A,I" => ADDRMASK(IR) = IR

\* A number of sixteen bits is its own address: ADDRMASK leaves it alone.
LEMMA SmallWord ==
    ASSUME NEW n \in Word16
    PROVE  n \in Int /\ ADDRMASK(n) = n
BY SMT DEF Word16, ADDRMASK

\* What every decoded instruction holds: a displacement of one byte, a number
\* of sixteen bits, of one byte where the operand is n, and operands that fit
\* its operation.
LEMMA Operands ==
    ASSUME NEW i \in Instructions
    PROVE  /\ i.d \in Byte /\ i.n \in Int /\ ADDRMASK(i.n) = i.n
           /\ "n" \in {i.x, i.y} => i.n \in Byte
           /\ OneOperand(i) /\ TwoOperands(i)
<1>1. i \in [op : AllOps, x : AnyOperand, y : AnyOperand, d : Displacements, n : Word16]
  BY Zenon DEF Instructions
<1>2. /\ "n" \in {i.x, i.y} => i.n \in Displacements
      /\ OneOperand(i) /\ TwoOperands(i)
  BY Zenon DEF Instructions
<1>3. i.d \in Displacements /\ i.n \in Word16
  BY <1>1, Zenon
<1>4. i.n \in Int /\ ADDRMASK(i.n) = i.n
  BY <1>3, SmallWord
<1>5. Displacements = Byte
  BY Zenon DEF Byte, Displacements
<1> QED
  BY <1>2, <1>3, <1>4, <1>5

\* The operands of LD: a register or a place in memory on the left, and never
\* memory on both sides.
LEMMA LoadOperands ==
    ASSUME NEW i, TwoOperands(i), i.op = "LD"
    PROVE  /\ i.x \in Regs \cup Memory
           /\ i.y \in Operands8
           /\ i.x \in Memory => i.y \notin Memory
<1>1. i.x \in Regs \cup Memory /\ i.y \in IF i.x \in Memory THEN Regs \cup {"n"} ELSE Operands8
  BY DEF TwoOperands
<1> QED
  BY <1>1, OperandNames DEF Operands8

\* The operands of a load of sixteen bits: a pair stored at (nn), or a pair
\* loaded from nn, (nn) or a pair.
LEMMA WordOperands ==
    ASSUME NEW i, TwoOperands(i), i.op \in {"LDW", "LDW ED"}
    PROVE  \/ i.x = "(nn)" /\ i.y \in WordRegs
           \/ i.x \in WordRegs /\ i.y \in {"nn", "(nn)"} \cup WordRegs
<1>1. <<i.x, i.y>> \in WordLoads
  BY DEF TwoOperands
<1>2. Indexable \subseteq WordRegs /\ "SP" \in WordRegs
  BY DEF Indexable, WordRegs, RegPairs
<1>3. CASE \E p \in WordRegs : <<i.x, i.y>> = <<"(nn)", p>>
  BY <1>3, Zenon
<1>4. CASE \E p \in WordRegs : <<i.x, i.y>> = <<p, "nn">>
  BY <1>4, Zenon
<1>5. CASE \E p \in WordRegs : <<i.x, i.y>> = <<p, "(nn)">>
  BY <1>5, Zenon
<1>6. CASE \E p \in Indexable : <<i.x, i.y>> = <<"SP", p>>
  BY <1>2, <1>6, Zenon
<1> QED
  BY <1>1, <1>3, <1>4, <1>5, <1>6, Zenon DEF WordLoads

\* The operands of the remaining operations, as the cases of Z80run that read
\* them expect them.
LEMMA OtherOperands ==
    ASSUME NEW i, OneOperand(i), TwoOperands(i)
    PROVE  /\ i.op \in {"PUSH", "POP"} => i.x \in RegPairs
           /\ i.op = "EX" /\ i.x = "(SP)" => i.y \in {"HL", "IX", "IY"}
           /\ i.op \in ArithOps => i.y \in Operands8
           /\ i.op \in {"INC", "DEC"} \cup ShiftOps \cup BitOps => i.x \in Regs \cup Memory
           /\ i.op \in BitOps => i.n \in 0 .. 7
           /\ i.op \in {"INCW", "DECW"} => i.x \in WordRegs
           /\ i.op \in {"ADDW", "ADCW", "SBCW"} => i.y \in WordRegs /\ i.x \in {"HL", "IX", "IY"}
           /\ i.op \in {"ADCW", "SBCW"} => i.x = "HL"
           /\ i.op = "JP(rr)" => i.x \in RegPairs \ {"AF"}
<1>1. /\ i.op \in {"PUSH", "POP"} => i.x \in RegPairs
      /\ i.op \in {"INC", "DEC"} \cup ShiftOps \cup BitOps => i.x \in Regs \cup Memory
      /\ i.op \in BitOps => i.n \in 0 .. 7
      /\ i.op \in {"INCW", "DECW"} => i.x \in WordRegs
      /\ i.op = "JP(rr)" => i.x \in Indexable
  BY DEF OneOperand
<1>2. /\ i.op = "EX" => <<i.x, i.y>> \in Exchanges
      /\ i.op \in ArithOps => i.y \in Operands8
      /\ i.op \in {"ADDW", "ADCW", "SBCW"} => i.y \in WordRegs
      /\ i.op = "ADDW" => i.x \in Indexable
      /\ i.op \in {"ADCW", "SBCW"} => i.x = "HL"
  BY DEF TwoOperands
<1>3. i.op = "EX" /\ i.x = "(SP)" => i.y \in {"HL", "IX", "IY"}
  BY <1>2, SMT DEF Exchanges, Indexable
<1>4. i.op \in {"ADDW", "ADCW", "SBCW"} => i.x \in {"HL", "IX", "IY"}
  BY <1>2 DEF Indexable
<1>5. i.op = "JP(rr)" => i.x \in RegPairs \ {"AF"}
  BY <1>1 DEF Indexable, RegPairs
<1> QED
  BY <1>1, <1>2, <1>3, <1>4, <1>5

\* What TypeOK says of each variable, in the form the lemmas about the
\* instructions take it.
LEMMA TypedState ==
    ASSUME TypeOK
    PROVE  /\ reg \in [Pairs -> Int] /\ alt \in [Alternates -> Int]
           /\ IR \in Int /\ IFF \in {0, 3}
           /\ \A a \in DOMAIN RAM : RAM[a] \in Byte
           /\ RAM = [a \in DOMAIN RAM |-> RAM[a]]
           /\ Addresses(DOMAIN RAM)
<1>1. DOMAIN RAM \subseteq Word16
  BY DEF TypeOK
<1>3. \A a \in Word16 : a \in Int /\ ADDRMASK(a) = a
  BY SmallWord
<1>2. Addresses(DOMAIN RAM)
  BY <1>1, <1>3 DEF Addresses
<1> QED
  BY <1>2 DEF TypeOK

\* Every instruction that Z80run carries out, other than a transfer through a
\* port, does what the manual says of it, on every memory and from every
\* value the registers can hold, above their sixteen bits included.
THEOREM ExecuteCorrect ==
    ASSUME TypeOK, ins \in Instructions, Undisputed, Execute
    PROVE  Arch!Execute
<1>1. /\ reg \in [Pairs -> Int] /\ alt \in [Alternates -> Int]
      /\ IR \in Int /\ IFF \in {0, 3}
      /\ \A a \in DOMAIN RAM : RAM[a] \in Byte
      /\ RAM = [a \in DOMAIN RAM |-> RAM[a]]
      /\ Addresses(DOMAIN RAM)
  BY TypedState
<1>2. RAM \in [DOMAIN RAM -> Byte]
  BY DEF TypeOK
<1>3. /\ ins.d \in Byte /\ ins.n \in Int /\ ADDRMASK(ins.n) = ins.n
      /\ "n" \in {ins.x, ins.y} => ins.n \in Byte
      /\ OneOperand(ins) /\ TwoOperands(ins)
  BY Operands
<1>4. CASE LoadReg \/ Load8
  <2>1. ins.op = "LD"
    BY <1>4 DEF LoadReg, Load8
  <2>2. ins.x \in Regs \cup Memory /\ ins.y \in Operands8 /\ (ins.x \in Memory => ins.y \notin Memory)
    BY <2>1, <1>3, LoadOperands
  <2>3. Arch!Load
    BY <1>1, <1>3, <1>4, <2>2, LoadCorrect
  <2> QED
    BY <2>3 DEF Arch!Execute
<1>5. CASE LoadIR \/ LoadFromIR
  <2>1. Arch!LoadSpecial
    BY <1>1, <1>5, SpecialCorrect DEF Undisputed
  <2> QED
    BY <2>1 DEF Arch!Execute
<1>6. CASE LoadPair \/ LoadPairDirect \/ StorePair \/ LoadSP
  <2>1. ins.op \in {"LDW", "LDW ED"}
    BY <1>6 DEF LoadPair, LoadPairDirect, StorePair, LoadSP
  <2>2. \/ ins.x = "(nn)" /\ ins.y \in WordRegs /\ ADDRMASK(ins.n + 1) = ins.n + 1
        \/ ins.x \in WordRegs /\ ins.y \in {"nn", "(nn)"} \cup WordRegs
    BY <2>1, <1>3, WordOperands DEF Undisputed
  <2>3. Arch!LoadWord
    BY <1>1, <1>3, <1>6, <2>2, LoadWordCorrect
  <2> QED
    BY <2>3 DEF Arch!Execute
<1>7. CASE Push
  <2>1. ins.op = "PUSH" /\ ins.x \in RegPairs
    BY <1>7, <1>3, OtherOperands DEF Push
  <2>2. Arch!Push
    BY <1>1, <1>7, <2>1, PushCorrect
  <2> QED
    BY <2>2 DEF Arch!Execute
<1>8. CASE Pop
  <2>1. ins.x \in RegPairs
    BY <1>8, <1>3, OtherOperands DEF Pop
  <2>2. Arch!Pop
    BY <1>1, <1>8, <2>1, PopCorrect
  <2> QED
    BY <2>2 DEF Arch!Execute
<1>9. CASE Exchange \/ ExchangeTop
  <2>1. ins.op = "EX" /\ ins.x = "(SP)" => ins.y \in {"HL", "IX", "IY"}
    BY <1>3, OtherOperands
  <2>2. Arch!Exchange
    BY <1>1, <1>9, <2>1, ExchangeCorrect
  <2> QED
    BY <2>2 DEF Arch!Execute
<1>10. CASE Arithmetic
  <2>1. ins.y \in Operands8
    BY <1>10, <1>3, OtherOperands DEF Arithmetic
  <2>2. Arch!Arithmetic
    BY <1>1, <1>3, <1>10, <2>1, ArithmeticCorrect
  <2> QED
    BY <2>2 DEF Arch!Execute
<1>11. CASE Inc8 \/ Dec8
  <2>1. ins.x \in Regs \cup Memory
    BY <1>11, <1>3, OtherOperands DEF Inc8, Dec8
  <2>2. Arch!Count
    BY <1>1, <1>3, <1>11, <2>1, CountCorrect
  <2> QED
    BY <2>2 DEF Arch!Execute
<1>12. CASE DecimalAdjust \/ Negate \/ Accumulator \/ RotateA
  <2>1. Arch!Arithmetic
    BY <1>1, <1>12, AccumulatorCorrect
  <2> QED
    BY <2>1 DEF Arch!Execute
<1>13. CASE RotateDigit
  <2>1. Arch!RotateDigits
    BY <1>1, <1>3, <1>13, RotateDigitCorrect
  <2> QED
    BY <2>1 DEF Arch!Execute
<1>14. CASE Count16
  <2>1. ins.op \in {"INCW", "DECW"} /\ ins.x \in (RegPairs \ {"AF"}) \cup {"SP"}
    BY <1>14, <1>3, OtherOperands DEF Count16, WordRegs
  <2>2. Arch!CountWord
    BY <1>1, <1>14, <2>1, Count16Correct
  <2> QED
    BY <2>2 DEF Arch!Execute
<1>15. CASE Add16 \/ AdcSbc16
  <2>1. ins.op \in {"ADDW", "ADCW", "SBCW"}
    BY <1>15 DEF Add16, AdcSbc16, Carry16
  <2>2. /\ ins.y \in WordRegs /\ ins.x \in {"HL", "IX", "IY"}
        /\ ins.op \in {"ADCW", "SBCW"} => ins.x = "HL"
    BY <2>1, <1>3, OtherOperands
  <2>3. Arch!SumWord
    BY <1>1, <1>15, <2>2, SumWordCorrect
  <2> QED
    BY <2>3, SMTT(30) DEF Arch!Execute
<1>16. CASE Jump \/ JumpTo \/ JumpRelative \/ Call \/ Return \/ ReturnInterrupt
  <2>1. ins.op = "JP(rr)" => ins.x \in RegPairs \ {"AF"}
    BY <1>3, OtherOperands
  <2>2. Arch!Jump
    BY <1>1, <1>3, <1>16, <2>1, JumpCorrect
  <2> QED
    BY <2>2 DEF Arch!Execute
<1>17. CASE DecrementJump
  <2>1. Arch!Loop
    BY <1>1, <1>3, <1>17, DjnzCorrect DEF DecrementJump
  <2> QED
    BY <2>1 DEF Arch!Execute
<1>18. CASE ShiftBits \/ TestBit \/ ChangeBit
  <2>1. ins.op \in ShiftOps \cup BitOps
    BY <1>18 DEF ShiftBits, TestBit, ChangeBit, BitOps
  <2>2. ins.x \in Regs \cup Memory /\ (ins.op \in BitOps => ins.n \in 0 .. 7)
    BY <2>1, <1>3, OtherOperands
  <2>3. Arch!Bits
    BY <1>1, <1>3, <1>18, <2>2, BitsCorrect
  <2> QED
    BY <2>3 DEF Arch!Execute
<1>19. CASE CopyBlock
  <2>1. Arch!Copy
    BY <1>1, <1>2, <1>19, CopyCorrect
  <2> QED
    BY <2>1 DEF Arch!Execute
<1>20. CASE CompareBlock
  <2>1. Arch!Search
    BY <1>1, <1>2, <1>20, SearchCorrect
  <2> QED
    BY <2>1 DEF Arch!Execute
<1>21. CASE NoOperation \/ InterruptFlags
  <2>1. Arch!Control
    BY <1>1, <1>21, ControlCorrect
  <2> QED
    BY <2>1 DEF Arch!Execute
<1> QED
  BY <1>4, <1>5, <1>6, <1>7, <1>8, <1>9, <1>10, <1>11, <1>12, <1>13, <1>14, <1>15,
     <1>16, <1>17, <1>18, <1>19, <1>20, <1>21 DEF Execute

-----------------------------------------------------------------------------
(* The state keeps its types: the instructions.                            *)

\* A step leaves registers and memory of their types.
StepTyped ==
    /\ reg' \in [Pairs -> Int] /\ alt' \in [Alternates -> Int]
    /\ IR' \in Int /\ IFF' \in {0, 3}
    /\ RAM' \in [DOMAIN RAM -> Byte]

\* A step that assigns the registers and nothing else keeps the types.
LEMMA RegistersTyped ==
    ASSUME TypeOK, NEW g \in [Pairs -> Int], Registers(g), NoOthers
    PROVE  StepTyped
BY DEF TypeOK, Registers, NoOthers, StepTyped

\* The F byte put together from a set of flags is a number.
LEMMA FlagByteInt ==
    ASSUME NEW f
    PROVE  FlagByte(f) \in Int
<1> DEFINE w(flag, k) == IF flag \in f THEN k ELSE 0
<1>1. FlagByte(f) = w("S", 128) + w("Z", 64) + w("Y", 32) + w("H", 16)
                      + w("X", 8) + w("P", 4) + w("N", 2) + w("C", 1)
  BY DEF FlagByte
<1>2. /\ w("S", 128) \in Int /\ w("Z", 64) \in Int /\ w("Y", 32) \in Int /\ w("H", 16) \in Int
      /\ w("X", 8) \in Int /\ w("P", 4) \in Int /\ w("N", 2) \in Int /\ w("C", 1) \in Int
  OBVIOUS
<1> HIDE DEF w
<1> QED
  BY <1>1, <1>2

\* Setting the flags leaves the registers integers.
LEMMA FlagsTyped ==
    ASSUME NEW g \in [Pairs -> Int], NEW f
    PROVE  SetFlags(g, f) \in [Pairs -> Int]
<1>1. FlagByte(f) \in Int
  BY FlagByteInt
<1> HIDE DEF FlagByte
<1>2. g["AF"] \in Int
  BY DEF Pairs, RegPairs
<1> DEFINE b == FlagByte(f)
           v == 256 * (g["AF"] \div 256) + b
<1> HIDE DEF b
<1>3. v \in Int
  BY <1>1, <1>2 DEF b
<1> HIDE DEF v
<1>4. SetFlags(g, f) = [g EXCEPT !["AF"] = v]
  BY DEF SetFlags, v, b, Pairs, RegPairs
<1> QED
  BY <1>3, <1>4

\* So does masking some of them.
LEMMA MaskTyped ==
    ASSUME NEW g \in [Pairs -> Int], NEW ps
    PROVE  Masked(g, ps) \in [Pairs -> Int]
<1>1. \A p \in Pairs : ADDRMASK(g[p]) \in Int /\ g[p] \in Int
  BY DEF ADDRMASK
<1> QED
  BY <1>1 DEF Masked

\* So does putting the result of an operation and its flags into AF.
LEMMA ResultTyped ==
    ASSUME NEW g \in [Pairs -> Int], NEW result, result.acu \in Int
    PROVE  SetAF(g, result) \in [Pairs -> Int]
<1> DEFINE b == FlagByte(result.f)
           v == 256 * result.acu + b
<1>1. b \in Int
  BY FlagByteInt
<1> HIDE DEF b
<1>2. v \in Int
  BY <1>1
<1> HIDE DEF v
<1>3. SetAF(g, result) = [g EXCEPT !["AF"] = v]
  BY DEF SetAF, v, b
<1> QED
  BY <1>2, <1>3

\* Storing a number into a register or a place of memory keeps the types:
\* PUT_BYTE keeps the low eight bits of it.
LEMMA StoreTyped ==
    ASSUME TypeOK, NEW g \in [Pairs -> Int], NEW x \in Regs \cup Memory, NEW v \in Int,
           Store(g, x, v), NoOthers
    PROVE  StepTyped
<1>1. CASE x \in Regs
  <2>1. SetReg(g, x, v) \in [Pairs -> Int]
    BY <1>1, RegisterPut
  <2>2. Registers(SetReg(g, x, v))
    BY <1>1, OperandNames DEF Store, Registers
  <2> QED
    BY <2>1, <2>2, RegistersTyped
<1>2. CASE x \in Memory
  <2>1. v % 256 \in Byte
    BY SMT DEF Byte
  <2>2. RAM' = [RAM EXCEPT ![Adr(x)] = v % 256] /\ reg' = g
    BY <1>2 DEF Store
  <2> QED
    BY <2>1, <2>2 DEF TypeOK, NoOthers, StepTyped
<1> QED
  BY <1>1, <1>2

\* A word read from RAM is a number.
LEMMA GotWord ==
    ASSUME TypeOK, NEW a \in Int, ADDRMASK(a) \in DOMAIN RAM, ADDRMASK(a + 1) \in DOMAIN RAM
    PROVE  GET_WORD(a) \in Int
<1>1. RAM[ADDRMASK(a)] \in Byte /\ RAM[ADDRMASK(a + 1)] \in Byte
  BY DEF TypeOK
<1> DEFINE low == RAM[ADDRMASK(a)]
           high == RAM[ADDRMASK(a + 1)]
<1>2. GET_WORD(a) = low + 256 * high
  BY DEF GET_WORD, GET_BYTE
<1> HIDE DEF low, high
<1>3. low \in Int /\ high \in Int
  BY <1>1 DEF low, high, Byte
<1> QED
  BY <1>2, <1>3

\* The loads of eight bits keep the types.
LEMMA LoadsTyped ==
    ASSUME TypeOK, ins \in Instructions, LoadReg \/ Load8 \/ LoadIR \/ LoadFromIR
    PROVE  StepTyped
<1>1. /\ reg \in [Pairs -> Int] /\ Fetched \in [Pairs -> Int] /\ IR \in Int
      /\ \A a \in DOMAIN RAM : RAM[a] \in Byte
  BY TypedState, FetchedKeeps
<1>2. /\ ins.d \in Byte /\ ins.n \in Int
      /\ "n" \in {ins.x, ins.y} => ins.n \in Byte
      /\ TwoOperands(ins)
  BY Operands
<1>3. ASSUME ins.op = "LD"
      PROVE  /\ ins.x \in Regs \cup Memory /\ ins.y \in Operands8
             /\ ins.x \in Memory => ins.y \notin Memory
  BY <1>2, <1>3, LoadOperands
<1>4. CASE LoadReg
  <2> DEFINE source == reg[PairOf(ins.y)]
             high == IF ins.y \in HighRegs THEN source \div 256 ELSE LOW_REGISTER(source)
             old == Fetched[PairOf(ins.x)]
             v == Value8(ins.y)
             new == IF ins.x \in HighRegs THEN 256 * high + LOW_REGISTER(old)
                                          ELSE 256 * (old \div 256) + v
  <2>1. ins.op = "LD" /\ InPairs
    BY <1>4 DEF LoadReg
  <2>2. ins.y \in Regs => v \in Byte
    <3>1. ins.y \in Regs => Reachable(ins.y)
      BY OperandNames DEF Reachable
    <3> QED
      BY <1>1, <1>2, <1>3, <2>1, <3>1, OperandByte
  <2>3. Registers([Fetched EXCEPT ![PairOf(ins.x)] = new]) /\ NoOthers
    BY <1>4, <1>1 DEF LoadReg
  <2>4. CASE ins.y \in Regs /\ ins.x \in Regs
    <3>1. source \in Int /\ old \in Int
      BY <1>1, <2>4, OperandNames DEF Pairs
    <3>2. v \in Int
      BY <2>2, <2>4 DEF Byte
    <3> HIDE DEF source, old, v
    <3>3. high \in Int /\ LOW_REGISTER(old) \in Int /\ old \div 256 \in Int
      BY <3>1, HalvesAreBytes
    <3> HIDE DEF high
    <3>4. new \in Int
      BY <3>2, <3>3
    <3> HIDE DEF new
    <3> QED
      BY <1>1, <2>3, <3>4, RegistersTyped
  <2>5. ins.y \in Regs /\ ins.x \in Regs
    <3>1. CASE {ins.x, ins.y} \subseteq MainRegs
      BY <3>1 DEF Regs
    <3>2. CASE ins.x = ins.y
      BY <1>3, <2>1, <3>2
    <3> QED
      BY <2>1, <3>1, <3>2 DEF InPairs
  <2> QED
    BY <2>4, <2>5
<1>5. CASE Load8
  <2>1. ins.op = "LD" /\ Reachable(ins.y) /\ Store(Fetched, ins.x, Value8(ins.y)) /\ NoOthers
    BY <1>5 DEF Load8
  <2>2. Value8(ins.y) \in Byte
    BY <1>1, <1>2, <1>3, <2>1, OperandByte
  <2>3. Value8(ins.y) \in Int
    BY <2>2 DEF Byte
  <2> QED
    BY <1>1, <1>3, <2>1, <2>3, StoreTyped
<1>6. CASE LoadIR
  <2>1. reg["AF"] \in Int
    BY <1>1, FetchedKeeps
  <2>2. /\ reg["AF"] \div 256 \in Int /\ LOW_REGISTER(IR) \in Int
        /\ IR \div 256 \in Int /\ Acu \in Int
    BY <1>1, <2>1, HalvesAreBytes, ZenonT(60) DEF Acu
  <2> DEFINE high == reg["AF"] \div 256
             low == LOW_REGISTER(IR)
             rest == IR \div 256
  <2>4. IR' \in {256 * high + low, 256 * rest + Acu}
    BY <1>6 DEF LoadIR
  <2>3. IR' \in Int
    <3> HIDE DEF high, low, rest
    <3>1. high \in Int /\ low \in Int /\ rest \in Int
      BY <2>2 DEF high, low, rest
    <3> QED
      BY <2>2, <2>4, <3>1
  <2> QED
    BY <1>1, <1>6, <2>3 DEF LoadIR, Registers, TypeOK, StepTyped
<1>7. CASE LoadFromIR
  <2>1. IR \div 256 \in Int /\ LOW_REGISTER(IR) \in Int
    BY <1>1, HalvesAreBytes
  <2>2. \A acu \in Int : \A f : SetAF(Fetched, Result(acu, f)) \in [Pairs -> Int]
    BY <1>1, ResultTyped DEF Result
  <2>3. \E g \in [Pairs -> Int] : Registers(g) /\ NoOthers
    BY <1>7, <2>1, <2>2 DEF LoadFromIR
  <2> QED
    BY <2>3, RegistersTyped
<1> QED
  BY <1>4, <1>5, <1>6, <1>7

\* The loads of sixteen bits keep the types.
LEMMA WordsTyped ==
    ASSUME TypeOK, ins \in Instructions,
           LoadPair \/ LoadPairDirect \/ StorePair \/ LoadSP
    PROVE  StepTyped
<1>1. /\ reg \in [Pairs -> Int] /\ Fetched \in [Pairs -> Int]
      /\ ins.n \in Int /\ ADDRMASK(ins.n) = ins.n /\ TwoOperands(ins)
  BY TypedState, FetchedKeeps, Operands
<1>2. ASSUME NEW v \in Int, NEW p, Registers([Fetched EXCEPT ![p] = v]), NoOthers
      PROVE  StepTyped
  BY <1>1, <1>2, RegistersTyped
<1>3. CASE LoadPair
  BY <1>1, <1>2, <1>3 DEF LoadPair
<1>4. CASE LoadPairDirect
  <2>1. GET_WORD(ins.n) \in Int
    BY <1>1, <1>4, GotWord DEF LoadPairDirect, InWindow
  <2> QED
    BY <1>2, <1>4, <2>1 DEF LoadPairDirect
<1>5. CASE StorePair
  <2> DEFINE v == reg[ins.y]
  <2>1. v \in Int
    <3>1. ins.op \in {"LDW", "LDW ED"} /\ ins.x = "(nn)"
      BY <1>5 DEF StorePair
    <3>2. ins.y \in WordRegs
      BY <1>1, <3>1, WordOperands DEF WordRegs, RegPairs
    <3> QED
      BY <1>1, <3>2, WordRead
  <2>2. PUT_WORD(ins.n, v) /\ reg' = Fetched /\ NoOthers
    BY <1>5 DEF StorePair
  <2> HIDE DEF v
  <2>3. v % 256 \in Byte /\ HIGH_REGISTER(v) \in Byte
    BY <2>1, WordOfHalves DEF Byte, LOW_REGISTER
  <2>4. RAM' \in [DOMAIN RAM -> Byte]
    BY <2>2, <2>3 DEF PUT_WORD, TypeOK
  <2> QED
    BY <1>1, <2>2, <2>4 DEF TypeOK, NoOthers, StepTyped
<1>6. CASE LoadSP
  <2>1. reg[ins.y] \in Int
    BY <1>1, <1>6 DEF LoadSP, Pairs, RegPairs
  <2> QED
    BY <1>2, <1>6, <2>1 DEF LoadSP
<1> QED
  BY <1>3, <1>4, <1>5, <1>6

\* POP leaves the registers integers.
LEMMA PopTyped ==
    ASSUME NEW g \in [Pairs -> Int], GET_WORD(reg["SP"]) \in Int, NEW p
    PROVE  POP(g, p) \in [Pairs -> Int]
<1> DEFINE w == GET_WORD(reg["SP"])
           h == [g EXCEPT !["SP"] = g["SP"] + 2]
<1>1. w \in Int /\ g["SP"] \in Int /\ g["SP"] + 2 \in Int
  BY DEF Pairs, RegPairs
<1>2. h \in [Pairs -> Int]
  BY <1>1
<1>3. POP(g, p) = [h EXCEPT ![p] = w]
  <2> HIDE DEF w
  <2> QED
    BY DEF POP, w, Pairs, RegPairs
<1> HIDE DEF w, h
<1> QED
  BY <1>1, <1>2, <1>3

\* PUSH, POP and the exchanges keep the types.
LEMMA StackTyped ==
    ASSUME TypeOK, ins \in Instructions, Push \/ Pop \/ ExchangeTop \/ Exchange
    PROVE  StepTyped
<1>1. /\ reg \in [Pairs -> Int] /\ Fetched \in [Pairs -> Int] /\ alt \in [Alternates -> Int]
      /\ reg["SP"] \in Int /\ \A a \in DOMAIN RAM : RAM[a] \in Byte
      /\ OneOperand(ins) /\ TwoOperands(ins)
  BY TypedState, FetchedKeeps, Operands
<1>2. /\ \A v \in Int : HIGH_REGISTER(v) \in Byte /\ LOW_REGISTER(v) \in Byte
      /\ RegPairs \subseteq Pairs /\ "SP" \in Pairs /\ {"HL", "IX", "IY", "DE"} \subseteq Pairs
  BY WordOfHalves DEF Byte, Pairs, RegPairs
<1>3. RAM \in [DOMAIN RAM -> Byte] /\ (NoOthers => alt' \in [Alternates -> Int] /\ IR' \in Int /\ IFF' \in {0, 3})
  BY DEF TypeOK, NoOthers
<1>4. CASE Push
  <2>1. ins.x \in RegPairs
    BY <1>1, <1>4, OtherOperands DEF Push
  <2> DEFINE v == reg[ins.x]
  <2>2. v \in Int
    BY <1>1, <1>2, <2>1
  <2>3. RAM' = Pushed(v) /\ reg' = [Fetched EXCEPT !["SP"] = @ - 2] /\ NoOthers
    BY <1>4 DEF Push
  <2> HIDE DEF v
  <2> DEFINE high == HIGH_REGISTER(v)
             low == LOW_REGISTER(v)
             first == ADDRMASK(reg["SP"] - 1)
             second == ADDRMASK(reg["SP"] - 2)
  <2>6. high \in Byte /\ low \in Byte
    BY <1>2, <2>2
  <2>7. RAM' = [RAM EXCEPT ![first] = high, ![second] = low]
    BY <2>3 DEF Pushed
  <2> HIDE DEF high, low, first, second
  <2>4. RAM' \in [DOMAIN RAM -> Byte]
    BY <1>3, <2>6, <2>7
  <2>5. reg' \in [Pairs -> Int]
    <3>1. Fetched["SP"] \in Int
      BY <1>1, <1>2
    <3>2. Fetched["SP"] - 2 \in Int
      BY <3>1
    <3> HIDE DEF Fetched
    <3> QED
      BY <1>1, <2>3, <3>2
  <2> QED
    BY <1>3, <2>3, <2>4, <2>5 DEF StepTyped
<1>5. CASE Pop
  <2>1. GET_WORD(reg["SP"]) \in Int
    BY <1>1, <1>5, PoppedWord DEF Pop
  <2>2. POP(Fetched, ins.x) \in [Pairs -> Int]
    BY <1>1, <2>1, PopTyped
  <2> QED
    BY <1>5, <2>2, RegistersTyped DEF Pop
<1>6. CASE ExchangeTop
  <2>1. GET_WORD(reg["SP"]) \in Int
    BY <1>1, <1>6, PoppedWord DEF ExchangeTop
  <2>2. ins.y \in {"HL", "IX", "IY"}
    BY <1>1, <1>6, OtherOperands DEF ExchangeTop
  <2> DEFINE v == reg[ins.y]
             w == GET_WORD(reg["SP"])
             high == HIGH_REGISTER(v)
             low == LOW_REGISTER(v)
  <2>3. high \in Byte /\ low \in Byte
    BY <1>1, <1>2, <2>2
  <2>4. /\ RAM' = [RAM EXCEPT ![ADDRMASK(reg["SP"] + 1)] = high, ![ADDRMASK(reg["SP"])] = low]
        /\ reg' = [Fetched EXCEPT ![ins.y] = w] /\ NoOthers
    BY <1>6 DEF ExchangeTop
  <2> HIDE DEF high, low, w
  <2>5. RAM' \in [DOMAIN RAM -> Byte]
    BY <1>3, <2>3, <2>4
  <2>6. reg' \in [Pairs -> Int]
    BY <1>1, <2>1, <2>4 DEF w
  <2> QED
    BY <1>3, <2>4, <2>5, <2>6 DEF StepTyped
<1>7. ASSUME NEW ps \in SUBSET Alternates, Swap(ps)
      PROVE  StepTyped
  <2>1. Alternates \subseteq Pairs
    BY DEF Alternates, Pairs, RegPairs
  <2>2. reg' \in [Pairs -> Int] /\ alt' \in [Alternates -> Int]
    BY <1>1, <1>7, <2>1 DEF Swap
  <2> QED
    BY <1>7, <2>2 DEF Swap, TypeOK, StepTyped
<1>8. CASE Exchange
  <2>1. {"AF"} \subseteq Alternates /\ {"BC", "DE", "HL"} \subseteq Alternates
    BY DEF Alternates
  <2>2. CASE Swap({"AF"}) \/ Swap({"BC", "DE", "HL"})
    BY <1>7, <2>1, <2>2
  <2>3. CASE /\ Registers([Fetched EXCEPT !["DE"] = reg["HL"], !["HL"] = reg["DE"]])
             /\ NoOthers
    <3>1. reg["HL"] \in Int /\ reg["DE"] \in Int
      BY <1>1, <1>2
    <3>2. [Fetched EXCEPT !["DE"] = reg["HL"], !["HL"] = reg["DE"]] \in [Pairs -> Int]
      BY <1>1, <3>1
    <3> QED
      BY <2>3, <3>2, RegistersTyped
  <2> QED
    BY <1>8, <2>2, <2>3 DEF Exchange
<1> QED
  BY <1>4, <1>5, <1>6, <1>8

\* The operations on the accumulator keep the types.
LEMMA ArithmeticTyped ==
    ASSUME TypeOK, ins \in Instructions,
           Arithmetic \/ DecimalAdjust \/ Negate \/ Accumulator \/ RotateA
    PROVE  StepTyped
<1>1. /\ reg \in [Pairs -> Int] /\ Fetched \in [Pairs -> Int]
      /\ \A a \in DOMAIN RAM : RAM[a] \in Byte
      /\ ins.d \in Byte /\ ins.n \in Int
      /\ "n" \in {ins.x, ins.y} => ins.n \in Byte
      /\ OneOperand(ins) /\ TwoOperands(ins)
  BY TypedState, FetchedKeeps, Operands
<1>2. Acu \in Byte /\ reg["AF"] \div 256 \in Int /\ Carry \in {0, 1}
  BY <1>1, AccumulatorByte
<1>3. ASSUME NEW result, result.acu \in Int, Registers(SetAF(Fetched, result)), NoOthers
      PROVE  StepTyped
  BY <1>1, <1>3, ResultTyped, RegistersTyped
<1>4. ASSUME NEW f, Registers(SetFlags(Fetched, f)), NoOthers
      PROVE  StepTyped
  BY <1>1, <1>4, FlagsTyped, RegistersTyped
<1>5. CASE Arithmetic
  <2> DEFINE result == IF ins.y = "A" THEN Arith8Self(ins.op, Acu, Carry)
                                      ELSE Arith8(ins.op, Acu, Value8(ins.y), Carry)
  <2>1. ins.op \in ArithOps /\ ins.y \in Operands8 /\ Reachable(ins.y)
    BY <1>1, <1>5, OtherOperands DEF Arithmetic
  <2>2. Value8(ins.y) \in Byte
    BY <1>1, <2>1, OperandByte
  <2>3. result.acu \in Int
    <3>1. Computes(Arith8Self(ins.op, Acu, Carry), Arch!Computed(ins.op, Acu, Acu, Carry))
      BY <1>2, <2>1, SelfComputes
    <3>2. Computes(Arith8(ins.op, Acu, Value8(ins.y), Carry),
                   Arch!Computed(ins.op, Acu, Value8(ins.y), Carry))
      BY <1>2, <2>1, <2>2, OperationComputes
    <3> QED
      BY <3>1, <3>2 DEF Computes
  <2>4. /\ Registers(IF ins.op = "CP" THEN SetFlags(Fetched, result.f) ELSE SetAF(Fetched, result))
        /\ NoOthers
    BY <1>5 DEF Arithmetic
  <2> HIDE DEF result
  <2>5. CASE ins.op = "CP"
    BY <1>4, <2>4, <2>5
  <2>6. CASE ins.op # "CP"
    BY <1>3, <2>3, <2>4, <2>6
  <2> QED
    BY <2>5, <2>6
<1>6. CASE DecimalAdjust
  <2>1. Daa(Acu, F).acu \in Int
    <3>1. Computes(Daa(Acu, F), Arch!Adjusted(Acu))
      BY <1>2, DaaSubtractComputes, DaaAddComputes DEF Daa
    <3> QED
      BY <3>1 DEF Computes
  <2> QED
    BY <1>3, <1>6, <2>1 DEF DecimalAdjust
<1>7. CASE Negate
  <2> DEFINE result == Result((-Acu) % 256, SZYX((-Acu) % 256) \cup negTable(Acu))
  <2>1. result.acu \in Int
    <3>1. Computes(result, Arch!Difference(0, Acu, 0))
      BY <1>2, NegateComputes
    <3> QED
      BY <3>1 DEF Computes
  <2>2. Registers(SetAF(Fetched, result)) /\ NoOthers
    BY <1>7 DEF Negate
  <2> HIDE DEF result
  <2> QED
    BY <1>3, <2>1, <2>2
<1>8. CASE Accumulator
  <2>1. NoOthers
    BY <1>8 DEF Accumulator
  <2>2. CASE \E f : Registers(SetFlags(Fetched, f))
    BY <1>4, <2>1, <2>2
  <2>3. CASE \E f : Registers(SetAF(Fetched, Result(-1 - reg["AF"] \div 256, f)))
    <3> DEFINE m == reg["AF"] \div 256
    <3>1. PICK f : Registers(SetAF(Fetched, Result(-1 - m, f)))
      BY <2>3
    <3> HIDE DEF m
    <3>2. -1 - m \in Int
      BY <1>2 DEF m
    <3>3. Result(-1 - m, f).acu \in Int
      BY <3>2 DEF Result
    <3> QED
      BY <1>3, <2>1, <3>1, <3>3
  <2> QED
    BY <1>8, <2>2, <2>3 DEF Accumulator
<1>9. CASE RotateA
  <2> DEFINE m == reg["AF"] \div 256
  <2>1. NoOthers
    BY <1>9 DEF RotateA
  <2> DEFINE kept == F \cap {"S", "Z", "P"}
             Leftward(low) == Result(2 * m + low, kept \cup YX(2 * m + low)
                                                \cup When("C", Bit(Acu, 128)))
             Rightward(table, high) == Result(table.acu + high, table.f \cup kept)
  <2>6. \/ Registers(SetAF(Fetched, Leftward(Acu \div 128)))
        \/ Registers(SetAF(Fetched, Leftward(Carry)))
        \/ Registers(SetAF(Fetched, Rightward(rrcaTable(Acu), 0)))
        \/ Registers(SetAF(Fetched, Rightward(rraTable(Acu), 128 * Carry)))
    BY <1>9 DEF RotateA
  <2>7. rrcaTable(Acu).acu = 128 * (Acu % 2) + Acu \div 2 /\ rraTable(Acu).acu = Acu \div 2
    BY DEF rrcaTable, rraTable, Result
  <2>8. /\ Leftward(Acu \div 128).acu = 2 * m + Acu \div 128 /\ Leftward(Carry).acu = 2 * m + Carry
        /\ Rightward(rrcaTable(Acu), 0).acu = 128 * (Acu % 2) + Acu \div 2 + 0
        /\ Rightward(rraTable(Acu), 128 * Carry).acu = Acu \div 2 + 128 * Carry
    BY <2>7 DEF Result
  <2>2. /\ Leftward(Acu \div 128).acu \in Int /\ Leftward(Carry).acu \in Int
        /\ Rightward(rrcaTable(Acu), 0).acu \in Int
        /\ Rightward(rraTable(Acu), 128 * Carry).acu \in Int
    <3> HIDE DEF m, Acu, Carry, Leftward, Rightward
    <3>1. m \in Int /\ Acu \in Int /\ Carry \in Int
      BY <1>2 DEF m, Byte
    <3>2. /\ 2 * m + Acu \div 128 \in Int /\ 2 * m + Carry \in Int
          /\ 128 * (Acu % 2) + Acu \div 2 + 0 \in Int /\ Acu \div 2 + 128 * Carry \in Int
      BY <3>1
    <3> QED
      BY <2>8, <3>2, Zenon
  <2> HIDE DEF Leftward, Rightward, kept
  <2> QED
    BY <1>3, <2>1, <2>2, <2>6, Zenon
<1> QED
  BY <1>5, <1>6, <1>7, <1>8, <1>9

\* Assigning one register pair leaves the registers integers.
LEMMA PutTyped ==
    ASSUME NEW g \in [Pairs -> Int], NEW p, NEW v \in Int
    PROVE  [g EXCEPT ![p] = v] \in [Pairs -> Int]
OBVIOUS

\* INC and DEC of eight bits keep the types.
LEMMA CountsTyped ==
    ASSUME TypeOK, ins \in Instructions, Inc8 \/ Dec8
    PROVE  StepTyped
<1>1. /\ reg \in [Pairs -> Int] /\ Fetched \in [Pairs -> Int]
      /\ \A a \in DOMAIN RAM : RAM[a] \in Byte
      /\ ins.d \in Byte /\ ins.n \in Int
      /\ OneOperand(ins) /\ TwoOperands(ins)
  BY TypedState, FetchedKeeps, Operands
<1>2. ins.x \in Regs \cup Memory /\ NoOthers
  BY <1>1, OtherOperands DEF Inc8, Dec8
<1>3. ASSUME NEW step \in {1, -1}, ins.x \in HighRegs,
             NEW f, Registers(SetFlags([Fetched EXCEPT ![PairOf(ins.x)] = @ + 256 * step], f))
      PROVE  StepTyped
  <2> DEFINE p == PairOf(ins.x)
             v == Fetched[p] + 256 * step
             g == [Fetched EXCEPT ![p] = @ + 256 * step]
  <2>1. p \in Pairs
    BY <1>3, OperandNames DEF Pairs
  <2>2. v \in Int
    BY <1>1, <1>3, <2>1
  <2>3. g = [Fetched EXCEPT ![p] = v]
    OBVIOUS
  <2> HIDE DEF v, p
  <2>4. g \in [Pairs -> Int]
    BY <1>1, <2>2, <2>3, PutTyped
  <2>5. Registers(SetFlags(g, f))
    BY <1>3 DEF p
  <2> HIDE DEF g
  <2> QED
    BY <1>2, <2>4, <2>5, FlagsTyped, RegistersTyped
<1>4. ASSUME NEW step \in {1, -1}, ins.x \notin HighRegs, Reachable(ins.x),
             NEW f, Store(SetFlags(Fetched, f), ins.x, Value8(ins.x) + step)
      PROVE  StepTyped
  <2>1. ins.x \in Operands8 /\ ins.x # "n"
    BY <1>2, OperandNames DEF Operands8
  <2>2. Value8(ins.x) \in Byte
    BY <1>1, <1>4, <2>1, OperandByte
  <2> DEFINE v == Value8(ins.x) + step
  <2>3. v \in Int
    BY <1>4, <2>2 DEF Byte
  <2>4. Store(SetFlags(Fetched, f), ins.x, v)
    BY <1>4
  <2> HIDE DEF v
  <2>5. SetFlags(Fetched, f) \in [Pairs -> Int]
    BY <1>1, FlagsTyped
  <2> QED
    BY <1>2, <2>3, <2>4, <2>5, StoreTyped
<1>5. ASSUME NEW step \in {1, -1}, NEW Flags(_), CountHigh(step, Flags) \/ CountLow(step, Flags)
      PROVE  StepTyped
  BY <1>3, <1>4, <1>5, ZenonT(60) DEF CountHigh, CountLow
<1> QED
  BY <1>5 DEF Inc8, Dec8

\* RLD and RRD keep the types.
LEMMA DigitsTyped ==
    ASSUME TypeOK, ins \in Instructions, RotateDigit
    PROVE  StepTyped
<1>1. /\ reg \in [Pairs -> Int] /\ Fetched \in [Pairs -> Int]
      /\ \A a \in DOMAIN RAM : RAM[a] \in Byte
      /\ ins.d \in Byte /\ ins.n \in Int
  BY TypedState, FetchedKeeps, Operands
<1>2. "(HL)" \in Operands8 /\ "(HL)" # "n" /\ Reachable("(HL)") /\ NoOthers
  BY DEF RotateDigit, Operands8, Memory
<1> DEFINE t == Value8("(HL)")
           right == ins.op = "RRD"
           a == 16 * (Acu \div 16) + (IF right THEN t % 16 ELSE t \div 16)
           put == IF right THEN t \div 16 + 16 * (Acu % 16) ELSE 16 * (t % 16) + (Acu % 16)
           result == With(rrdrldTable(a), F \cap {"C"})
<1>3. t \in Byte /\ Acu \in Byte
  BY <1>1, <1>2, OperandByte, AccumulatorByte
<1>4. /\ RAM' = [RAM EXCEPT ![Adr("(HL)")] = put]
      /\ reg' = SetAF(Fetched, result)
  BY DEF RotateDigit
<1>5. result.acu = a
  BY DEF With, rrdrldTable, Result
<1> HIDE DEF result
<1>6. a \in Int /\ put \in Byte
  <2> DEFINE u == Acu
  <2>1. u \in Byte /\ t \in Byte
    BY <1>3
  <2> HIDE DEF t, u
  <2>2. /\ 16 * (u \div 16) + (t % 16) \in Int /\ 16 * (u \div 16) + (t \div 16) \in Int
        /\ t \div 16 + 16 * (u % 16) \in Byte /\ 16 * (t % 16) + (u % 16) \in Byte
    BY <2>1, SMTT(60) DEF Byte
  <2>3. /\ a \in {16 * (u \div 16) + (t % 16), 16 * (u \div 16) + (t \div 16)}
        /\ put \in {t \div 16 + 16 * (u % 16), 16 * (t % 16) + (u % 16)}
    BY DEF u
  <2> HIDE DEF a, put
  <2> QED
    BY <2>2, <2>3
<1> HIDE DEF a, put
<1>7. reg' \in [Pairs -> Int]
  BY <1>1, <1>4, <1>5, <1>6, ResultTyped
<1>8. RAM' \in [DOMAIN RAM -> Byte]
  BY <1>4, <1>6 DEF TypeOK
<1> QED
  BY <1>2, <1>7, <1>8 DEF NoOthers, TypeOK, StepTyped

\* The arithmetic of sixteen bits keeps the types.
LEMMA SumsTyped ==
    ASSUME TypeOK, ins \in Instructions, Count16 \/ Add16 \/ AdcSbc16
    PROVE  StepTyped
<1>1. /\ reg \in [Pairs -> Int] /\ Fetched \in [Pairs -> Int]
      /\ OneOperand(ins) /\ TwoOperands(ins)
  BY TypedState, FetchedKeeps, Operands
<1>2. CASE Count16
  <2>1. ins.x \in Pairs /\ NoOthers
    BY <1>1, <1>2, OtherOperands DEF Count16, WordRegs, Pairs
  <2>2. Fetched[ins.x] \in Int
    BY <1>1, <2>1
  <2> DEFINE v == Fetched[ins.x]
  <2>3. v + 1 \in Int /\ v - 1 \in Int
    BY <2>2
  <2>4. \/ Registers([Fetched EXCEPT ![ins.x] = v + 1])
        \/ Registers([Fetched EXCEPT ![ins.x] = v - 1])
    BY <1>2 DEF Count16
  <2> HIDE DEF v
  <2>5. /\ [Fetched EXCEPT ![ins.x] = v + 1] \in [Pairs -> Int]
        /\ [Fetched EXCEPT ![ins.x] = v - 1] \in [Pairs -> Int]
    BY <1>1, <2>3, PutTyped
  <2> QED
    BY <2>1, <2>4, <2>5, RegistersTyped
<1>3. \A ps : Masked(Fetched, ps) \in [Pairs -> Int]
  <2> TAKE ps
  <2>1. \A p \in Pairs : Fetched[p] \in Int /\ ADDRMASK(Fetched[p]) \in Int
    BY <1>1, SMT DEF ADDRMASK
  <2> QED
    BY <2>1 DEF Masked
<1>4. ASSUME NEW s \in Int, NEW p, NEW ps, NEW f,
             Registers([SetFlags(Masked(Fetched, ps), f) EXCEPT ![p] = s]), NoOthers
      PROVE  StepTyped
  <2> DEFINE g == SetFlags(Masked(Fetched, ps), f)
  <2>1. g \in [Pairs -> Int]
    BY <1>3, FlagsTyped
  <2>2. Registers([g EXCEPT ![p] = s])
    BY <1>4
  <2> HIDE DEF g
  <2>3. [g EXCEPT ![p] = s] \in [Pairs -> Int]
    BY <1>4, <2>1, PutTyped
  <2> QED
    BY <1>4, <2>2, <2>3, RegistersTyped
<1>5. ASSUME NEW p \in WordRegs
      PROVE  ADDRMASK(reg[p]) \in Int
  <2>1. reg[p] \in Int
    BY <1>1, WordRead
  <2> QED
    BY <2>1, SMT DEF ADDRMASK
<1>6. {"HL", "IX", "IY"} \subseteq WordRegs /\ Carry \in Int
  BY <1>1, AccumulatorByte DEF WordRegs, RegPairs
<1>7. CASE Add16
  <2> DEFINE a == ADDRMASK(reg[ins.x])
             b == ADDRMASK(reg[ins.y])
             s == a + b
  <2>1. ins.x \in WordRegs /\ ins.y \in WordRegs /\ NoOthers
    BY <1>1, <1>6, <1>7, OtherOperands DEF Add16
  <2>2. a \in Int /\ b \in Int
    BY <1>5, <2>1
  <2>3. \E f : Registers([SetFlags(Masked(Fetched, {ins.x, ins.y}), f) EXCEPT ![ins.x] = s])
    BY <1>7 DEF Add16
  <2> HIDE DEF a, b
  <2>4. s \in Int
    BY <2>2
  <2> HIDE DEF s
  <2> QED
    BY <1>4, <2>1, <2>3, <2>4
<1>8. CASE AdcSbc16
  <2> DEFINE a == ADDRMASK(reg["HL"])
             b == ADDRMASK(reg[ins.y])
             k == Carry
  <2>1. ins.y \in WordRegs /\ NoOthers /\ ins.op \in {"ADCW", "SBCW"}
    BY <1>1, <1>8, OtherOperands DEF AdcSbc16, Carry16
  <2>2. a \in Int /\ b \in Int /\ k \in Int
    BY <1>5, <1>6, <2>1
  <2>3. CASE ins.op = "ADCW"
    <3> DEFINE f == Carried("HL", ins.y, a, b, k)
               s == a + b + k
    <3>1. Registers([SetFlags(Masked(Fetched, {"HL", ins.y}), f) EXCEPT !["HL"] = s])
      BY <1>8, <2>3 DEF AdcSbc16, Carry16, Carried
    <3> HIDE DEF a, b, k, f
    <3>2. s \in Int
      BY <2>2
    <3> HIDE DEF s
    <3> QED
      BY <1>4, <2>1, <3>1, <3>2
  <2>4. CASE ins.op = "SBCW"
    <3> DEFINE f == Borrowed("HL", ins.y, a, b, k)
               s == a - b - k
    <3>1. Registers([SetFlags(Masked(Fetched, {"HL", ins.y}), f) EXCEPT !["HL"] = s])
      BY <1>8, <2>4 DEF AdcSbc16, Carry16, Borrowed
    <3> HIDE DEF a, b, k, f
    <3>2. s \in Int
      BY <2>2
    <3> HIDE DEF s
    <3> QED
      BY <1>4, <2>1, <3>1, <3>2
  <2> QED
    BY <2>1, <2>3, <2>4
<1> QED
  BY <1>2, <1>7, <1>8

\* A byte read as a signed displacement is a number.
LEMMA Int8Int ==
    ASSUME NEW b \in Byte
    PROVE  Int8(b) \in Int
BY Int8Signed

\* Jumps, calls and returns keep the types: PC takes any number, and a return
\* address is stored as two bytes.
LEMMA JumpsTyped ==
    ASSUME TypeOK, ins \in Instructions,
           Jump \/ JumpTo \/ JumpRelative \/ DecrementJump \/ Call \/ Return \/ ReturnInterrupt
    PROVE  StepTyped
<1>1. /\ reg \in [Pairs -> Int] /\ Fetched \in [Pairs -> Int] /\ reg["SP"] \in Int
      /\ \A a \in DOMAIN RAM : RAM[a] \in Byte
      /\ ins.d \in Byte /\ ins.n \in Int
      /\ OneOperand(ins) /\ TwoOperands(ins) /\ IFF \in {0, 3}
  BY TypedState, FetchedKeeps, Operands
<1>2. /\ {"PC", "SP", "BC"} \subseteq Pairs /\ Int8(ins.d) \in Int
      /\ Fetched["PC"] \in Int /\ Fetched["SP"] \in Int
  BY <1>1, Int8Int DEF Pairs, RegPairs
<1>3. ASSUME NEW pc \in Int, Registers([Fetched EXCEPT !["PC"] = pc]), NoOthers
      PROVE  StepTyped
  BY <1>1, <1>3, PutTyped, RegistersTyped
<1>4. CASE Jump
  <2> DEFINE pc == IF Holds(ins.x, F) THEN ins.n ELSE Fetched["PC"]
  <2>1. Registers([Fetched EXCEPT !["PC"] = pc]) /\ NoOthers
    BY <1>1, <1>2, <1>4 DEF Jump
  <2>2. pc \in Int
    BY <1>1, <1>2
  <2> HIDE DEF pc
  <2> QED
    BY <1>3, <2>1, <2>2
<1>5. CASE JumpTo
  <2> DEFINE pc == reg[ins.x]
  <2>1. Registers([Fetched EXCEPT !["PC"] = pc]) /\ NoOthers
    BY <1>5 DEF JumpTo
  <2>2. ins.x \in Pairs
    BY <1>1, <1>5, OtherOperands DEF JumpTo, Pairs
  <2>3. pc \in Int
    BY <1>1, <2>2
  <2> HIDE DEF pc
  <2> QED
    BY <1>3, <2>1, <2>3
<1>6. CASE JumpRelative
  <2> DEFINE by == IF Holds(ins.x, F) THEN Int8(ins.d) ELSE 0
             pc == Fetched["PC"] + by
  <2>1. Registers([Fetched EXCEPT !["PC"] = pc]) /\ NoOthers
    BY <1>1, <1>2, <1>6 DEF JumpRelative
  <2>2. by \in Int
    BY <1>2
  <2> HIDE DEF by
  <2>3. pc \in Int
    BY <1>2, <2>2
  <2> HIDE DEF pc
  <2> QED
    BY <1>3, <2>1, <2>3
<1>7. CASE DecrementJump
  <2> DEFINE bc == reg["BC"] - 256
             by == IF HIGH_REGISTER(bc) # 0 THEN Int8(ins.d) ELSE 0
             g == [Fetched EXCEPT !["BC"] = bc]
             pc == Fetched["PC"] + by
  <2>1. Registers([Fetched EXCEPT !["BC"] = bc, !["PC"] = @ + by]) /\ NoOthers
    BY <1>7 DEF DecrementJump
  <2>2. bc \in Int /\ by \in Int
    BY <1>1, <1>2
  <2> HIDE DEF bc, by
  <2>3. pc \in Int
    BY <1>2, <2>2
  <2>4. g \in [Pairs -> Int]
    BY <1>1, <2>2, PutTyped
  <2>5. [Fetched EXCEPT !["BC"] = bc, !["PC"] = @ + by] = [g EXCEPT !["PC"] = pc]
    BY <1>1, <1>2
  <2> HIDE DEF g, pc
  <2>6. [g EXCEPT !["PC"] = pc] \in [Pairs -> Int]
    BY <2>3, <2>4, PutTyped
  <2> QED
    BY <2>1, <2>5, <2>6, RegistersTyped
<1>8. CASE Call
  <2> DEFINE v == Fetched["PC"]
             high == HIGH_REGISTER(v)
             low == LOW_REGISTER(v)
             first == ADDRMASK(reg["SP"] - 1)
             second == ADDRMASK(reg["SP"] - 2)
  <2>1. CASE Holds(ins.x, F)
    <3>1. /\ RAM' = [RAM EXCEPT ![first] = high, ![second] = low]
          /\ reg' = [Fetched EXCEPT !["SP"] = @ - 2, !["PC"] = ins.n] /\ NoOthers
      BY <1>8, <2>1 DEF Call, Pushed
    <3>2. high \in Byte /\ low \in Byte
      BY <1>2, WordOfHalves DEF Byte
    <3> HIDE DEF high, low, first, second
    <3>3. RAM' \in [DOMAIN RAM -> Byte]
      BY <3>1, <3>2 DEF TypeOK
    <3> DEFINE sp == Fetched["SP"] - 2
               g == [Fetched EXCEPT !["SP"] = sp]
    <3>4. g \in [Pairs -> Int]
      BY <1>1, <1>2, PutTyped
    <3>5. reg' = [g EXCEPT !["PC"] = ins.n]
      BY <1>1, <1>2, <3>1
    <3> HIDE DEF g
    <3>6. reg' \in [Pairs -> Int]
      BY <1>1, <3>4, <3>5
    <3> QED
      BY <3>1, <3>3, <3>6 DEF NoOthers, TypeOK, StepTyped
  <2>2. CASE ~ Holds(ins.x, F)
    BY <1>1, <1>8, <2>2, RegistersTyped DEF Call
  <2> QED
    BY <2>1, <2>2
<1>9. ASSUME StackInWindow(0, 1)
      PROVE  POP(Fetched, "PC") \in [Pairs -> Int]
  <2>1. GET_WORD(reg["SP"]) \in Int
    BY <1>1, <1>9, PoppedWord
  <2> QED
    BY <1>1, <2>1, PopTyped
<1>10. CASE Return
  BY <1>1, <1>9, <1>10, RegistersTyped DEF Return
<1>11. CASE ReturnInterrupt
  BY <1>1, <1>9, <1>11 DEF ReturnInterrupt, Registers, TypeOK, StepTyped
<1> QED
  BY <1>4, <1>5, <1>6, <1>7, <1>8, <1>10, <1>11

\* The instructions behind the CB prefix keep the types.
LEMMA BitsTyped ==
    ASSUME TypeOK, ins \in Instructions, ShiftBits \/ TestBit \/ ChangeBit
    PROVE  StepTyped
<1>1. /\ reg \in [Pairs -> Int] /\ Fetched \in [Pairs -> Int]
      /\ \A a \in DOMAIN RAM : RAM[a] \in Byte
      /\ ins.d \in Byte /\ ins.n \in Int
      /\ OneOperand(ins) /\ TwoOperands(ins)
  BY TypedState, FetchedKeeps, Operands
<1>2. ins.op \in ShiftOps \cup BitOps /\ NoOthers /\ Reachable(ins.x)
  BY DEF ShiftBits, TestBit, ChangeBit, BitOps
<1>3. ins.x \in Regs \cup Memory /\ (ins.op \in BitOps => ins.n \in 0 .. 7)
  BY <1>1, <1>2, OtherOperands
<1> DEFINE v == Value8(ins.x)
<1>4. v \in Byte
  <2>1. ins.x \in Operands8 /\ ins.x # "n"
    BY <1>3, OperandNames DEF Operands8
  <2> QED
    BY <1>1, <1>2, <2>1, OperandByte
<1>5. ASSUME NEW t \in Int, NEW f, Store(SetFlags(Fetched, f), ins.x, t)
      PROVE  StepTyped
  <2>1. SetFlags(Fetched, f) \in [Pairs -> Int]
    BY <1>1, FlagsTyped
  <2> QED
    BY <1>2, <1>3, <1>5, <2>1, StoreTyped
<1>6. CASE ShiftBits
  <2> DEFINE s == Shift(ins.op, v, Carry)
  <2>1. ins.op \in ShiftOps
    BY <1>6 DEF ShiftBits
  <2>2. \E f : Store(SetFlags(Fetched, f), ins.x, s.temp)
    BY <1>6 DEF ShiftBits
  <2>3. s.temp \in Byte
    <3>1. Carry \in {0, 1}
      BY <1>1, AccumulatorByte
    <3> HIDE DEF v, Carry
    <3> QED
      BY <1>4, <2>1, <3>1, ShiftComputes
  <2> HIDE DEF s
  <2>4. s.temp \in Int
    BY <2>3 DEF Byte
  <2> QED
    BY <1>5, <2>2, <2>4
<1>7. CASE TestBit
  <2>1. \E f : Store(SetFlags(Fetched, f), ins.x, v)
    BY <1>7 DEF TestBit
  <2> HIDE DEF v
  <2>2. v \in Int
    BY <1>4 DEF Byte
  <2> QED
    BY <1>5, <2>1, <2>2
<1>8. CASE ChangeBit
  <2> DEFINE w == 2 ^ ins.n
             off == IF Bit(v, w) THEN v - w ELSE v
             on == IF Bit(v, w) THEN v ELSE v + w
  <2>1. ins.op \in BitOps
    BY <1>8 DEF ChangeBit, BitOps
  <2>2. Store(Fetched, ins.x, off) \/ Store(Fetched, ins.x, on)
    BY <1>8 DEF ChangeBit
  <2>3. off \in Byte /\ on \in Byte
    <3> HIDE DEF v
    <3>1. ins.n \in 0 .. 7
      BY <1>3, <2>1
    <3> QED
      BY <1>4, <3>1, OneBit
  <2> HIDE DEF off, on
  <2>4. off \in Int /\ on \in Int
    BY <2>3 DEF Byte
  <2> QED
    BY <1>1, <1>2, <1>3, <2>2, <2>4, StoreTyped
<1> QED
  BY <1>6, <1>7, <1>8

\* A copied block leaves bytes in memory, however often it wrote over what it
\* still had to read.
LEMMA CopiedTyped ==
    ASSUME NEW m, m \in [DOMAIN m -> Byte], Addresses(DOMAIN m),
           NEW dir \in {1, -1}, NEW from \in Int, NEW to \in Int, NEW n \in Nat,
           \A k \in 0 .. n - 1 : ADDRMASK(from + dir * k) \in DOMAIN m
    PROVE  BlockCopied(m, from, to, dir, n) \in [DOMAIN m -> Byte]
<1> DEFINE gap == Along(dir, to, from)
<1>1. gap \in Nat
  BY AlongWord, Zenon
<1>2. ASSUME NEW a \in DOMAIN m, Along(dir, a, to) < n
      PROVE  m[SourceAt(from, to, dir, Along(dir, a, to))] \in Byte
  <2> DEFINE j == Along(dir, a, to)
             p == Period(gap)
             k == j % p
  <2>1. j \in Nat
    <3>1. a \in Int
      BY DEF Addresses
    <3> QED
      BY <3>1, AlongWord, Zenon
  <2>2. j < n
    BY <1>2
  <2>3. p \in Nat /\ p > 0
    <3> HIDE DEF gap
    <3> QED
      BY <1>1 DEF Period
  <2>4. SourceAt(from, to, dir, j) = ADDRMASK(from + dir * k)
    BY DEF SourceAt
  <2> HIDE DEF j, p
  <2>5. k \in 0 .. n - 1
    <3>1. CASE j < p
      BY <2>1, <2>2, <2>3, <3>1, RemainderOfRest
    <3>2. CASE j >= p
      <4>1. k \in Nat /\ k < p
        BY <2>1, <2>3, SMTT(60)
      <4> HIDE DEF k
      <4> QED
        BY <2>1, <2>2, <2>3, <3>2, <4>1
    <3> QED
      BY <2>1, <2>3, <3>1, <3>2
  <2> HIDE DEF k
  <2>6. ADDRMASK(from + dir * k) \in DOMAIN m
    BY <2>5
  <2> QED
    BY <2>4, <2>6 DEF j
<1> QED
  BY <1>2 DEF BlockCopied

\* The block copies and searches keep the types.
LEMMA BlocksTyped ==
    ASSUME TypeOK, CopyBlock \/ CompareBlock
    PROVE  StepTyped
<1>1. /\ reg \in [Pairs -> Int] /\ Fetched \in [Pairs -> Int]
      /\ RAM \in [DOMAIN RAM -> Byte] /\ Addresses(DOMAIN RAM)
  BY TypedState, FetchedKeeps DEF TypeOK
<1>2. /\ BlockBytes \in Nat /\ BlockBytes >= 1
      /\ \A k \in 0 .. BlockBytes - 1 : ADDRMASK(k) = k
  BY <1>1, BlockLength
<1>3. \A k \in 1 .. BlockBytes : Left(k) \in Int
  BY <1>1, BlockLeft
<1>4. /\ reg["BC"] \in Int /\ Fetched["HL"] \in Int /\ Fetched["DE"] \in Int
      /\ reg["HL"] \in Int /\ reg["DE"] \in Int /\ Dir \in {1, -1}
  BY <1>1 DEF Pairs, RegPairs, Dir
<1>5. CASE CopyBlock
  <2> DEFINE n == IF ins.op \in {"LDI", "LDD"} THEN 1 ELSE Repeats
             bc == IF ins.op \in {"LDI", "LDD"} THEN reg["BC"] - 1 ELSE 0
             hl == Fetched["HL"] + Dir * n
             de == Fetched["DE"] + Dir * n
             g == [[[Fetched EXCEPT !["HL"] = hl] EXCEPT !["DE"] = de] EXCEPT !["BC"] = bc]
  <2>1. n = BlockBytes
    BY <1>5 DEF CopyBlock, BlockBytes, Single
  <2>2. /\ InWindow(Run("HL", n) \cup Run("DE", n)) /\ RAM' = CopyLoop(n) /\ NoOthers
        /\ \E f : reg' = SetFlags([Fetched EXCEPT !["HL"] = @ + Dir * n,
                                      !["DE"] = @ + Dir * n, !["BC"] = bc], f)
    BY <1>5 DEF CopyBlock
  <2>3. bc \in Int
    BY <1>4
  <2> HIDE DEF n, bc
  <2>4. hl \in Int /\ de \in Int
    BY <1>2, <1>4, <2>1
  <2>5. [Fetched EXCEPT !["HL"] = @ + Dir * n, !["DE"] = @ + Dir * n, !["BC"] = bc] = g
    <3>1. {"HL", "DE", "BC"} \subseteq DOMAIN Fetched
      BY <1>1 DEF Pairs, RegPairs
    <3> DEFINE e == Dir * n
    <3> HIDE DEF e
    <3> QED
      BY <1>1, <3>1 DEF e
  <2> HIDE DEF hl, de
  <2>6. g \in [Pairs -> Int]
    BY <1>1, <2>3, <2>4
  <2> HIDE DEF g
  <2>7. reg' \in [Pairs -> Int]
    BY <2>2, <2>5, <2>6, FlagsTyped
  <2>8. RAM' \in [DOMAIN RAM -> Byte]
    <3>1. RAM' = BlockCopied(RAM, reg["HL"], reg["DE"], Dir, n)
      BY <1>1, <1>2, <2>1, <2>2, CopyLoopCopies
    <3>2. \A k \in 0 .. n - 1 : ADDRMASK(reg["HL"] + Dir * k) \in DOMAIN RAM
      BY <2>2 DEF InWindow, Run
    <3> QED
      BY <1>1, <1>2, <1>4, <2>1, <3>1, <3>2, CopiedTyped
  <2> QED
    BY <2>2, <2>7, <2>8 DEF NoOthers, TypeOK, StepTyped
<1>6. CASE CompareBlock
  <2> DEFINE n == IF ins.op \in {"CPI", "CPD"} THEN 1 ELSE Repeats
             k == Compared(n)
             bc == IF ins.op \in {"CPI", "CPD"} THEN reg["BC"] - 1 ELSE Repeats - k
             hl == Fetched["HL"] + Dir * k
             g == [[Fetched EXCEPT !["HL"] = hl] EXCEPT !["BC"] = bc]
  <2>1. n = BlockBytes
    BY <1>6 DEF CompareBlock, BlockBytes, Single
  <2>2. /\ NoOthers
        /\ \E f : Registers(SetFlags([Fetched EXCEPT !["HL"] = @ + Dir * k, !["BC"] = bc], f))
    BY <1>6 DEF CompareBlock
  <2>3. k \in 1 .. n
    BY <1>2, <2>1, ComparedFirst
  <2>4. bc \in Int
    <3>1. bc = Left(k)
      <4>1. ins.op \in {"CPI", "CPD"} <=> Single
        BY <1>6 DEF CompareBlock, Single
      <4> HIDE DEF k
      <4> QED
        BY <4>1 DEF Left
    <3> HIDE DEF bc, k
    <3> QED
      BY <1>3, <2>1, <2>3, <3>1
  <2> HIDE DEF n, bc
  <2>5. k \in Int
    BY <1>2, <2>1, <2>3
  <2> HIDE DEF k
  <2>6. hl \in Int
    BY <1>4, <2>5
  <2>7. [Fetched EXCEPT !["HL"] = @ + Dir * k, !["BC"] = bc] = g
    <3>1. {"HL", "BC"} \subseteq DOMAIN Fetched
      BY <1>1 DEF Pairs, RegPairs
    <3> DEFINE e == Dir * k
    <3> HIDE DEF e
    <3> QED
      BY <1>1, <3>1 DEF e
  <2> HIDE DEF hl
  <2>8. g \in [Pairs -> Int]
    BY <1>1, <2>4, <2>6
  <2> HIDE DEF g
  <2> QED
    BY <2>2, <2>7, <2>8, FlagsTyped, RegistersTyped
<1> QED
  BY <1>5, <1>6

\* So do NOP, the interrupt modes, DI and EI.
LEMMA ControlTyped ==
    ASSUME TypeOK, NoOperation \/ InterruptFlags
    PROVE  StepTyped
<1>1. Fetched \in [Pairs -> Int]
  BY TypedState, FetchedKeeps
<1>2. CASE NoOperation
  BY <1>1, <1>2, RegistersTyped DEF NoOperation
<1>3. CASE InterruptFlags
  BY <1>1, <1>3 DEF InterruptFlags, Registers, TypeOK, StepTyped
<1> QED
  BY <1>2, <1>3

\* Every instruction but the transfers through ports keeps the types.
LEMMA ExecuteTyped ==
    ASSUME TypeOK, ins \in Instructions, Execute
    PROVE  StepTyped
<1>1. CASE LoadReg \/ Load8 \/ LoadIR \/ LoadFromIR
  BY <1>1, LoadsTyped
<1>2. CASE LoadPair \/ LoadPairDirect \/ StorePair \/ LoadSP
  BY <1>2, WordsTyped
<1>3. CASE Push \/ Pop \/ ExchangeTop \/ Exchange
  BY <1>3, StackTyped
<1>4. CASE Arithmetic \/ DecimalAdjust \/ Negate \/ Accumulator \/ RotateA
  BY <1>4, ArithmeticTyped
<1>5. CASE Inc8 \/ Dec8
  BY <1>5, CountsTyped
<1>6. CASE RotateDigit
  BY <1>6, DigitsTyped
<1>7. CASE Count16 \/ Add16 \/ AdcSbc16
  BY <1>7, SumsTyped
<1>8. CASE \/ Jump \/ JumpTo \/ JumpRelative \/ DecrementJump
           \/ Call \/ Return \/ ReturnInterrupt
  BY <1>8, JumpsTyped
<1>9. CASE ShiftBits \/ TestBit \/ ChangeBit
  BY <1>9, BitsTyped
<1>10. CASE CopyBlock \/ CompareBlock
  BY <1>10, BlocksTyped
<1>11. CASE NoOperation \/ InterruptFlags
  BY <1>11, ControlTyped
<1> QED
  BY <1>1, <1>2, <1>3, <1>4, <1>5, <1>6, <1>7, <1>8, <1>9, <1>10, <1>11, Zenon DEF Execute

-----------------------------------------------------------------------------
(* The transfers through ports, which call the BDOS and the BIOS, answer   *)
(* with states of the right types.  A block transfer calls them once for   *)
(* each byte.                                                              *)

\* What a system call may find and leave: it does not move the stack, PC and
\* the index registers, and leaves the flags, which are the low byte of AF.
Unmoved(g) ==
    /\ g["IX"] = Fetched["IX"] /\ g["IY"] = Fetched["IY"]
    /\ g["SP"] = Fetched["SP"] /\ g["PC"] = Fetched["PC"]
    /\ LOW_REGISTER(g["AF"]) = LOW_REGISTER(reg["AF"])
AnswerRegisters == {g \in [Pairs -> Int] : Unmoved(g)}
Answers == [g : AnswerRegisters, st : 0 .. 3, m : [DOMAIN RAM -> Byte], acu : Int]

\* What the parts of an answer of the system are.
LEMMA AnswerFields ==
    ASSUME NEW from \in Answers
    PROVE  /\ from.g \in [Pairs -> Int] /\ from.g \in AnswerRegisters /\ from.st \in 0 .. 3
           /\ from.m \in [DOMAIN RAM -> Byte] /\ from.acu \in Int
           /\ from.g["AF"] \in Int /\ from.g["BC"] \in Int /\ from.g["DE"] \in Int
           /\ from.g["HL"] \in Int /\ from.g["PC"] \in Int
<1>1. /\ from.g \in AnswerRegisters /\ from.st \in 0 .. 3
      /\ from.m \in [DOMAIN RAM -> Byte] /\ from.acu \in Int
  BY DEF Answers
<1>2. from.g \in [Pairs -> Int]
  BY <1>1 DEF AnswerRegisters
<1> QED
  BY <1>1, <1>2 DEF Pairs, RegPairs

\* Putting a number into BC, DE or HL leaves registers an answer can have.
LEMMA RegisterAnswered ==
    ASSUME NEW g \in AnswerRegisters, NEW p \in {"BC", "DE", "HL"}, NEW v \in Int
    PROVE  [g EXCEPT ![p] = v] \in AnswerRegisters
<1>1. g \in [Pairs -> Int] /\ Unmoved(g)
  BY DEF AnswerRegisters
<1>2. [g EXCEPT ![p] = v] \in [Pairs -> Int]
  BY <1>1, PutTyped
<1>3. Unmoved([g EXCEPT ![p] = v])
  BY <1>1 DEF Unmoved
<1> QED
  BY <1>2, <1>3 DEF AnswerRegisters

\* So does putting a number into the accumulator, which leaves the flags
\* alone.
LEMMA AccumulatorAnswered ==
    ASSUME NEW g \in AnswerRegisters, NEW w \in Int
    PROVE  [g EXCEPT !["AF"] = 256 * w + LOW_REGISTER(g["AF"])] \in AnswerRegisters
<1> DEFINE low == LOW_REGISTER(g["AF"])
           v == 256 * w + low
           h == [g EXCEPT !["AF"] = v]
<1>1. g \in [Pairs -> Int] /\ Unmoved(g)
  BY DEF AnswerRegisters
<1>2. g["AF"] \in Int
  BY <1>1 DEF Pairs, RegPairs
<1>3. v \in Int /\ LOW_REGISTER(v) = low
  BY <1>2 DEF LOW_REGISTER
<1> HIDE DEF v
<1>4. h \in [Pairs -> Int]
  BY <1>1, <1>3, PutTyped
<1>5. h["AF"] = v /\ \A p \in {"IX", "IY", "SP", "PC"} : h[p] = g[p]
  BY <1>1 DEF Pairs, RegPairs
<1> HIDE DEF h
<1>6. Unmoved(h)
  BY <1>1, <1>3, <1>5 DEF Unmoved
<1>7. h \in AnswerRegisters
  BY <1>4, <1>6 DEF AnswerRegisters
<1> QED
  BY <1>7 DEF h, v

\* An answer with other registers, and one with other BC, DE, memory and
\* status.
PutRegisters(from, g) == [from EXCEPT !.g = g]
Answered(from, bc, de, m, st) ==
    [from EXCEPT !.g["BC"] = bc, !.g["DE"] = de, !.m = m, !.st = st]

\* An answer with the registers replaced by others an answer can have is an
\* answer.
LEMMA RegistersPut ==
    ASSUME NEW from \in Answers, NEW g \in AnswerRegisters
    PROVE  PutRegisters(from, g) \in Answers
BY DEF Answers, PutRegisters

\* An answer with new BC, DE, memory and status is an answer.
LEMMA AnsweredTyped ==
    ASSUME NEW from \in Answers, NEW bc \in Int, NEW de \in Int,
           NEW m \in [DOMAIN RAM -> Byte], NEW st \in 0 .. 3
    PROVE  Answered(from, bc, de, m, st) \in Answers
<1> DEFINE x1 == [from EXCEPT !.g["BC"] = bc]
           x2 == [x1 EXCEPT !.g["DE"] = de]
           x3 == [x2 EXCEPT !.m = m]
           x4 == [x3 EXCEPT !.st = st]
<1>1. Answered(from, bc, de, m, st) = x4
  BY DEF Answered
<1>2. x1 \in Answers
  <2>1. x1 = PutRegisters(from, [from.g EXCEPT !["BC"] = bc])
    BY DEF PutRegisters
  <2>2. [from.g EXCEPT !["BC"] = bc] \in AnswerRegisters
    BY AnswerFields, RegisterAnswered
  <2> QED
    BY <2>1, <2>2, RegistersPut
<1>3. x2 \in Answers
  <2> HIDE DEF x1
  <2>1. x2 = PutRegisters(x1, [x1.g EXCEPT !["DE"] = de])
    BY DEF PutRegisters
  <2>2. [x1.g EXCEPT !["DE"] = de] \in AnswerRegisters
    BY <1>2, AnswerFields, RegisterAnswered
  <2> QED
    BY <1>2, <2>1, <2>2, RegistersPut
<1>4. x3 \in Answers
  <2> HIDE DEF x2
  <2> QED
    BY <1>3 DEF Answers
<1>5. x4 \in Answers
  <2> HIDE DEF x3
  <2> QED
    BY <1>4 DEF Answers
<1> QED
  BY <1>1, <1>5, Zenon

\* Returning a number in HL, or a byte in A, makes an answer of an answer.
LEMMA WithTyped ==
    ASSUME NEW from \in Answers, NEW w \in Int
    PROVE  WithHL(from, w) \in Answers /\ WithA(from, w) \in Answers
<1>1. from.g \in AnswerRegisters /\ from.g["AF"] \in Int
  BY AnswerFields
<1> DEFINE low == LOW_REGISTER(from.g["AF"])
           v == 256 * w + low
           g1 == [from.g EXCEPT !["HL"] = w]
           g2 == [from.g EXCEPT !["AF"] = v]
<1>4. g1 \in AnswerRegisters /\ g2 \in AnswerRegisters
  BY <1>1, RegisterAnswered, AccumulatorAnswered
<1>5. WithHL(from, w) = [from EXCEPT !.g = g1]
  BY DEF WithHL
<1>6. WithA(from, w) = [from EXCEPT !.g = g2]
  BY DEF WithA
<1> HIDE DEF g1, g2
<1>7. [from EXCEPT !.g = g1] \in Answers /\ [from EXCEPT !.g = g2] \in Answers
  BY <1>4 DEF Answers
<1> QED
  BY <1>5, <1>6, <1>7

\* The results of the system calls are numbers, and so are their low bytes.
LEMMA ResultsInt == Results \subseteq Int /\ {LOW_REGISTER(w) : w \in Results} \subseteq Int
<1>1. Results \subseteq Int
  BY ResultsAssumption, SmallWord
<1>2. \A w \in Int : LOW_REGISTER(w) \in Int
  BY HalvesAreBytes
<1> QED
  BY <1>1, <1>2

\* What a BDOS call returns in HL is a number.
LEMMA ReturnedTyped ==
    ASSUME NEW from \in Answers, NEW ch,
           ch \in {7, 8} => InWindow({IOBYTE})
    PROVE  Returned(ch, from) \subseteq Int
<1> DEFINE known == [c \in {3, 12, 27, 31, 250, 251, 252, 253} |->
                     CASE c = 3 -> 26              [] c = 12 -> 34
                       [] c = 27 -> BDOSpage + 16  [] c = 31 -> BIOSpage + 64
                       [] c = 250 -> 2             [] c = 251 -> 68
                       [] c = 252 -> 21            [] c = 253 -> BDOSjmppage - 2048]
           low == {LOW_REGISTER(w) : w \in Results}
           asking == LOW_REGISTER(from.g["DE"]) = 255
<1>1. \A c \in DOMAIN known : known[c] \in Int
  <2>1. BDOSpage + 16 \in Int /\ BIOSpage + 64 \in Int /\ BDOSjmppage - 2048 \in Int
    BY DEF BDOSpage, BIOSpage, BDOSjmppage
  <2> DEFINE u == BDOSpage + 16
             v == BIOSpage + 64
             w == BDOSjmppage - 2048
  <2> HIDE DEF u, v, w
  <2> QED
    BY <2>1 DEF u, v, w
<1>2. Results \subseteq Int /\ low \subseteq Int
  BY ResultsInt
<1>3. ch = 7 => from.m[IOBYTE] \in Int
  <2>1. from.m \in [DOMAIN RAM -> Byte]
    BY AnswerFields
  <2> QED
    BY <2>1 DEF InWindow, Byte
<1>4. Returned(ch, from)
        = CASE ch \in DOMAIN known -> {known[ch]}
            [] ch = 7 -> {from.m[IOBYTE]}
            [] ch \in {1, 11, 13, 25, 249} \cup DiskCalls -> low
            [] ch \in {6, 32} -> IF asking THEN low ELSE {0}
            [] ch \in {24, 29, 231} -> Results
            [] OTHER -> {0}
  BY DEF Returned
<1> HIDE DEF known, low, asking
<1>5. \/ ch \in DOMAIN known /\ Returned(ch, from) = {known[ch]}
      \/ ch = 7 /\ Returned(ch, from) = {from.m[IOBYTE]}
      \/ Returned(ch, from) = low \/ Returned(ch, from) = {0} \/ Returned(ch, from) = Results
  BY <1>4
<1>6. ch \in DOMAIN known => {known[ch]} \subseteq Int
  BY <1>1
<1>7. ch = 7 => {from.m[IOBYTE]} \subseteq Int
  BY <1>3
<1>8. {0} \subseteq Int
  OBVIOUS
<1>9. CASE ch \in DOMAIN known /\ Returned(ch, from) = {known[ch]}
  BY <1>6, <1>9, Zenon
<1>10. CASE ch = 7 /\ Returned(ch, from) = {from.m[IOBYTE]}
  BY <1>7, <1>10, Zenon
<1>11. CASE Returned(ch, from) = low \/ Returned(ch, from) = {0} \/ Returned(ch, from) = Results
  BY <1>2, <1>8, <1>11, Zenon
<1> QED
  BY <1>5, <1>9, <1>10, <1>11, Zenon

\* A BDOS call answers with registers, memory and status of the right types,
\* and leaves IX, IY, SP, PC and the flags alone.
LEMMA BdosTyped ==
    ASSUME NEW from \in Answers
    PROVE  BdosAnswers(from) \subseteq Answers
<1> DEFINE ch == LOW_REGISTER(from.g["BC"])
           E == LOW_REGISTER(from.g["DE"])
           Ends == CASE ch = 0 -> {2}
                     [] ch \in DiskCalls \cup {10} -> {from.st, 2}
                     [] OTHER -> {from.st}
           Answer(hl, st) == [WithA(WithHL(from, hl), LOW_REGISTER(hl)) EXCEPT
                   !.g["BC"] = 256 * HIGH_REGISTER(hl) + E,
                   !.g["DE"] = IF ch = 9 THEN @ + 1 ELSE @,
                   !.m = IF ch = 8 THEN [@ EXCEPT ![IOBYTE] = E] ELSE @,
                   !.st = st]
<1>1. /\ from.g["DE"] \in Int /\ from.st \in 0 .. 3
  BY AnswerFields
<1>2. E \in Byte
  BY <1>1, WordOfHalves DEF Byte
<1>3. Ends \subseteq 0 .. 3
  <2>1. Ends \in {{2}, {from.st, 2}, {from.st}}
    <3> HIDE DEF ch
    <3> QED
      OBVIOUS
  <2> HIDE DEF Ends
  <2> QED
    BY <1>1, <2>1
<1>4. BdosAnswers(from) = IF ch \in {7, 8} /\ ~InWindow({IOBYTE}) THEN {}
                          ELSE {Answer(hl, st) : hl \in Returned(ch, from), st \in Ends}
  BY DEF BdosAnswers
<1> HIDE DEF Ends, ch, E
<1>5. ASSUME ch \in {7, 8} => InWindow({IOBYTE}), NEW hl \in Returned(ch, from), NEW st \in Ends
      PROVE  Answer(hl, st) \in Answers
  <2>1. hl \in Int
    BY <1>5, ReturnedTyped
  <2>2. LOW_REGISTER(hl) \in Int /\ HIGH_REGISTER(hl) \in Int
    BY <2>1, HalvesAreBytes
  <2> DEFINE a == WithA(WithHL(from, hl), LOW_REGISTER(hl))
  <2>3. a \in Answers
    BY <2>1, <2>2, WithTyped
  <2> DEFINE bc == 256 * HIGH_REGISTER(hl) + E
             de == IF ch = 9 THEN a.g["DE"] + 1 ELSE a.g["DE"]
             m == IF ch = 8 THEN [a.m EXCEPT ![IOBYTE] = E] ELSE a.m
  <2>4. Answer(hl, st) = Answered(a, bc, de, m, st)
    BY DEF Answered
  <2> HIDE DEF a, Answer
  <2>5. bc \in Int
    <3>1. E \in Int
      BY <1>2 DEF Byte
    <3> QED
      BY <2>2, <3>1
  <2>6. de \in Int
    BY <2>3, AnswerFields
  <2>7. m \in [DOMAIN RAM -> Byte]
    BY <1>2, <2>3, AnswerFields
  <2>8. st \in 0 .. 3
    BY <1>3
  <2> HIDE DEF bc, de, m
  <2> QED
    BY <2>3, <2>4, <2>5, <2>6, <2>7, <2>8, AnsweredTyped
<1> HIDE DEF Answer
<1> QED
  BY <1>4, <1>5

\* So does a BIOS call.
LEMMA BiosTyped ==
    ASSUME NEW from \in Answers, NEW ch
    PROVE  BiosFunction(ch, from) \subseteq Answers
<1> DEFINE keys == {WithA(from, LOW_REGISTER(key)) : key \in Results}
           bells == {WithA(from, a) : a \in {0, 255}}
           copied == WithHL(from, from.g["BC"])
<1>1. from.g["BC"] \in Int
  BY AnswerFields
<1>2. keys \subseteq Answers
  <2>1. \A key \in Results : LOW_REGISTER(key) \in Int
    BY ResultsInt
  <2> QED
    BY <2>1, WithTyped
<1>3. bells \subseteq Answers
  BY WithTyped
<1>4. copied \in Answers
  BY <1>1, WithTyped
<1>5. /\ WithA(from, 26) \in Answers /\ WithHL(from, 0) \in Answers
      /\ WithA(from, 0) \in Answers /\ WithA(from, 255) \in Answers
  BY WithTyped
<1>6. /\ [from EXCEPT !.st = 1] \in Answers /\ [from EXCEPT !.st = 2] \in Answers
      /\ [from EXCEPT !.st = 3] \in Answers
  BY DEF Answers
<1> DEFINE one == [from EXCEPT !.st = 1]
           two == [from EXCEPT !.st = 2]
           three == [from EXCEPT !.st = 3]
           w == BiosFunction(ch, from)
<1>7. \/ w = {one} \/ w = {two} \/ w = {three} \/ w = bells \/ w = keys
      \/ w = {WithA(from, 26)} \/ w = {WithHL(from, 0)} \/ w = {copied}
      \/ w = {WithA(from, 0)} \/ w = {WithA(from, 255)} \/ w = {from}
  <2> HIDE DEF one, two, three, keys, bells, copied
  <2> QED
    BY DEF BiosFunction, one, two, three, keys, bells, copied
<1> HIDE DEF one, two, three, keys, bells, copied, w
<1>8. one \in Answers /\ two \in Answers /\ three \in Answers
  BY <1>6 DEF one, two, three
<1>9. w \subseteq Answers
  BY <1>2, <1>3, <1>4, <1>5, <1>7, <1>8, ZenonT(60)
<1> QED
  BY <1>9 DEF w

\* A call of a port leaves the state of its types.
PortTypedStep ==
    /\ reg' \in [Pairs -> Int] /\ alt' \in [Alternates -> Int]
    /\ IR' \in Int /\ IFF' \in {0, 3}
    /\ RAM' \in [DOMAIN RAM -> Byte] /\ Status' \in 0 .. 3

\* The state an instruction on a port starts from has the shape of an answer.
LEMMA NowTyped ==
    ASSUME TypeOK
    PROVE  Now \in Answers
<1>1. Fetched \in [Pairs -> Int] /\ Fetched["AF"] = reg["AF"]
  <2>1. "AF" \in Pairs \ {"PC"}
    BY DEF Pairs, RegPairs
  <2> QED
    BY <2>1, TypedState, FetchedKeeps
<1>2. Fetched \in AnswerRegisters
  BY <1>1 DEF AnswerRegisters, Unmoved
<1> QED
  BY <1>2 DEF TypeOK, Now, Answers

\* cpu_in and cpu_out answer with answers: the system calls and the ports
\* that do nothing.
LEMMA CallTyped ==
    ASSUME NEW from \in Answers
    PROVE  cpu_in(from) \subseteq Answers /\ cpu_out(from) \subseteq Answers
BY BdosTyped, BiosTyped DEF cpu_in, cpu_out, BiosAnswers

\* A step that takes its registers from g and its memory and status from an
\* answer keeps the types.
LEMMA AnswerTyped ==
    ASSUME TypeOK, NEW answer \in Answers, NEW g \in [Pairs -> Int],
           reg' = g, RAM' = answer.m, Status' = answer.st, NoOthers
    PROVE  PortTypedStep
<1>1. answer.m \in [DOMAIN RAM -> Byte] /\ answer.st \in 0 .. 3
  BY AnswerFields
<1> QED
  BY <1>1 DEF NoOthers, TypeOK, PortTypedStep

\* IN keeps the types.
LEMMA InPortTyped ==
    ASSUME TypeOK, ins \in Instructions, InPort
    PROVE  PortTypedStep
<1>1. PICK answer \in cpu_in(Now) :
         LET temp == HIGH_REGISTER(answer.g["AF"])
             g == IF ins.x = "F" THEN answer.g ELSE SetReg(answer.g, ins.x, temp)
         IN  /\ \/ ins.op = "IN" /\ reg' = g
                \/ ins.op = "IN(C)" /\ reg' = SetFlags(g, rotateShiftTable(temp) \cup (F \cap {"C"}))
             /\ RAM' = answer.m
             /\ Status' = answer.st
  BY DEF InPort
<1> DEFINE temp == HIGH_REGISTER(answer.g["AF"])
           g == IF ins.x = "F" THEN answer.g ELSE SetReg(answer.g, ins.x, temp)
           f == rotateShiftTable(temp) \cup (F \cap {"C"})
<1>2. answer \in Answers
  BY NowTyped, CallTyped
<1>3. answer.g \in [Pairs -> Int] /\ temp \in Int
  BY <1>2, AnswerFields, HalvesAreBytes
<1>4. /\ \/ ins.op = "IN" /\ reg' = g
         \/ ins.op = "IN(C)" /\ reg' = SetFlags(g, f)
      /\ RAM' = answer.m /\ Status' = answer.st
  BY <1>1
<1>5. ins.x \in Regs \cup {"F"}
  <2>1. OneOperand(ins)
    BY Operands
  <2> QED
    BY <1>4, <2>1 DEF OneOperand, Regs, MainRegs
<1> HIDE DEF temp, f
<1>6. g \in [Pairs -> Int]
  <2>1. "F" \notin Regs
    BY DEF Regs, MainRegs, IndexRegs
  <2>2. ASSUME ins.x # "F"
        PROVE  SetReg(answer.g, ins.x, temp) \in [Pairs -> Int]
    BY <1>3, <1>5, <2>2, RegisterPut
  <2> QED
    BY <1>3, <2>2
<1> HIDE DEF g
<1>7. reg' \in [Pairs -> Int]
  BY <1>4, <1>6, FlagsTyped
<1>8. NoOthers
  BY DEF InPort
<1> QED
  BY <1>2, <1>4, <1>7, <1>8, AnswerTyped

\* OUT keeps the types.
LEMMA OutPortTyped ==
    ASSUME TypeOK, OutPort
    PROVE  PortTypedStep
<1>1. PICK answer \in cpu_out(Now) :
         reg' = answer.g /\ RAM' = answer.m /\ Status' = answer.st
  BY DEF OutPort
<1>2. answer \in Answers
  BY NowTyped, CallTyped
<1>3. answer.g \in [Pairs -> Int] /\ NoOthers
  BY <1>2, AnswerFields DEF OutPort
<1> QED
  BY <1>1, <1>2, <1>3, AnswerTyped

\* Counting HL and B to the next byte of a block transfer makes an answer of
\* an answer.
LEMMA OnwardTyped ==
    ASSUME NEW from \in Answers
    PROVE  Onward(from) \in Answers
<1> DEFINE hl == from.g["HL"] + Step
<1>1. Onward(from) = PutRegisters(from, [from.g EXCEPT !["HL"] = hl])
  BY DEF Onward, PutRegisters
<1>2. hl \in Int
  BY AnswerFields DEF Step
<1> HIDE DEF hl
<1>3. [from.g EXCEPT !["HL"] = hl] \in AnswerRegisters
  BY <1>2, AnswerFields, RegisterAnswered
<1> QED
  BY <1>1, <1>3, RegistersPut

\* An answer with the byte of one transfer noted, and with the byte stored at
\* an address as well.
PutByte(from, acu) == [from EXCEPT !.acu = acu]
PutAt(from, a, acu) == [from EXCEPT !.m[a] = acu, !.acu = acu]

\* Both are answers when the byte is one.
LEMMA ByteTyped ==
    ASSUME NEW from \in Answers, NEW acu \in Byte
    PROVE  /\ PutByte(from, acu) \in Answers
           /\ \A a : PutAt(from, a, acu) \in Answers
<1>1. acu \in Int
  BY DEF Byte
<1>2. \A b \in Answers : PutByte(b, acu) \in Answers
  BY <1>1 DEF Answers, PutByte
<1>3. ASSUME NEW a
      PROVE  PutAt(from, a, acu) \in Answers
  <2> DEFINE m == [from.m EXCEPT ![a] = acu]
             b == [from EXCEPT !.m = m]
  <2>1. m \in [DOMAIN RAM -> Byte]
    BY AnswerFields
  <2>2. [from EXCEPT !.m[a] = acu, !.acu = acu] = [b EXCEPT !.acu = acu]
    OBVIOUS
  <2> HIDE DEF m
  <2>3. b \in Answers
    BY <2>1 DEF Answers
  <2> HIDE DEF b
  <2> QED
    BY <1>2, <2>2, <2>3 DEF PutAt, PutByte
<1> QED
  BY <1>2, <1>3

\* One byte of a block transfer, whatever the system call on the way answers,
\* leads from an answer to answers.
LEMMA TransferTyped ==
    ASSUME NEW from \in Answers
    PROVE  Transfer(from) \subseteq Answers
<1>1. ASSUME NEW answer \in cpu_in(from)
      PROVE  LET acu == HIGH_REGISTER(answer.g["AF"])
             IN  Onward([answer EXCEPT !.m[ADDRMASK(answer.g["HL"])] = acu, !.acu = acu]) \in Answers
  <2> DEFINE acu == HIGH_REGISTER(answer.g["AF"])
  <2>1. answer \in Answers
    BY CallTyped
  <2>2. acu \in Byte
    BY <2>1, AnswerFields, WordOfHalves DEF Byte
  <2> HIDE DEF acu
  <2>3. PutAt(answer, ADDRMASK(answer.g["HL"]), acu) \in Answers
    BY <2>1, <2>2, ByteTyped
  <2>4. Onward(PutAt(answer, ADDRMASK(answer.g["HL"]), acu)) \in Answers
    BY <2>3, OnwardTyped
  <2> QED
    BY <2>4 DEF PutAt, acu
<1>2. ASSUME InWindow({ADDRMASK(from.g["HL"])}), NEW answer \in cpu_out(from)
      PROVE  Onward([answer EXCEPT !.acu = from.m[ADDRMASK(from.g["HL"])]]) \in Answers
  <2> DEFINE acu == from.m[ADDRMASK(from.g["HL"])]
  <2>1. answer \in Answers
    BY CallTyped
  <2>2. acu \in Byte
    BY <1>2, AnswerFields DEF InWindow
  <2> HIDE DEF acu
  <2>3. PutByte(answer, acu) \in Answers
    BY <2>1, <2>2, ByteTyped
  <2>4. Onward(PutByte(answer, acu)) \in Answers
    BY <2>3, OnwardTyped
  <2> QED
    BY <2>4 DEF PutByte, acu
<1> QED
  BY <1>1, <1>2 DEF Transfer

\* The states a block leaves, transfer by transfer.
Traced(f, n) ==
    f = [k \in 0 .. n |-> IF k = 0 THEN {Now} ELSE UNION {Transfer(from) : from \in f[k - 1]}]
Traceable(n) == \E f : Traced(f, n)

\* The answers after each number of transfers exist as a function, for any
\* number of transfers: the induction is that of the least number without
\* one.
LEMMA TraceExists ==
    ASSUME NEW n \in Nat
    PROVE  Traceable(n)
<1> DEFINE T == {k \in Nat : ~ Traceable(k)}
<1>1. CASE T = {}
  BY <1>1
<1>2. CASE T # {}
  <2>1. PICK m \in T : \A k \in T : m <= k
    <3>1. T \subseteq Nat
      OBVIOUS
    <3> HIDE DEF T
    <3> QED
      BY <1>2, <3>1, LeastNumber, Zenon
  <2>2. m \in Nat /\ ~ Traceable(m)
    OBVIOUS
  <2>3. CASE m = 0
    <3> DEFINE f == [k \in 0 .. 0 |-> {Now}]
    <3>1. f = [k \in 0 .. 0 |-> IF k = 0 THEN {Now}
                                ELSE UNION {Transfer(from) : from \in f[k - 1]}]
      OBVIOUS
    <3>2. Traced(f, 0)
      BY <3>1 DEF Traced
    <3> QED
      BY <2>2, <2>3, <3>2 DEF Traceable
  <2>4. CASE m # 0
    <3> DEFINE j == m - 1
    <3>1. j \in Nat /\ ~ (m <= j) /\ j + 1 = m
      BY <2>2, <2>4
    <3>2. Traceable(j)
      <4>1. j \notin T
        <5> HIDE DEF T
        <5> QED
          BY <2>1, <3>1
      <4> HIDE DEF j
      <4> QED
        BY <3>1, <4>1
    <3> HIDE DEF j
    <3>3. PICK f : Traced(f, j)
      BY <3>2 DEF Traceable
    <3> DEFINE Following(s) == UNION {Transfer(from) : from \in s}
               h == [k \in 0 .. m |-> IF k = m THEN Following(f[j]) ELSE f[k]]
    <3>4. ASSUME NEW k \in 0 .. j
          PROVE  f[k] = IF k = 0 THEN {Now} ELSE Following(f[k - 1])
      BY <3>3 DEF Traced
    <3> HIDE DEF Following
    <3>5. ASSUME NEW k \in 0 .. m
          PROVE  h[k] = IF k = 0 THEN {Now} ELSE Following(h[k - 1])
      <4>1. CASE k = m
        BY <2>2, <2>4, <3>1, <4>1
      <4>2. CASE k # m
        <5>1. k \in 0 .. j /\ (k # 0 => k - 1 \in 0 .. m /\ k - 1 # m)
          BY <2>2, <3>1, <4>2
        <5> QED
          BY <3>4, <4>2, <5>1
      <4> QED
        BY <4>1, <4>2
    <3>6. h = [k \in 0 .. m |-> h[k]]
      OBVIOUS
    <3> HIDE DEF h
    <3>7. h = [k \in 0 .. m |-> IF k = 0 THEN {Now} ELSE Following(h[k - 1])]
      BY <3>5, <3>6
    <3>8. Traced(h, m)
      BY <3>7 DEF Traced, Following
    <3> QED
      BY <2>2, <3>8 DEF Traceable
  <2> QED
    BY <2>3, <2>4
<1> QED
  BY <1>1, <1>2

\* All of them are answers: again by the least number at which one is not.
LEMMA TraceTyped ==
    ASSUME TypeOK, NEW n \in Nat, NEW f, Traced(f, n)
    PROVE  f[n] \subseteq Answers
<1> DEFINE T == {k \in 0 .. n : ~ (f[k] \subseteq Answers)}
<1>1. CASE T = {}
  BY <1>1
<1>2. CASE T # {}
  <2>1. PICK m \in T : \A k \in T : m <= k
    <3>1. T \subseteq Nat
      OBVIOUS
    <3> HIDE DEF T
    <3> QED
      BY <1>2, <3>1, LeastNumber, Zenon
  <2>2. m \in 0 .. n /\ ~ (f[m] \subseteq Answers)
    OBVIOUS
  <2>3. f[m] = IF m = 0 THEN {Now} ELSE UNION {Transfer(from) : from \in f[m - 1]}
    BY <2>2 DEF Traced
  <2>4. CASE m = 0
    BY <2>2, <2>3, <2>4, NowTyped
  <2>5. CASE m # 0
    <3> DEFINE j == m - 1
    <3>1. j \in 0 .. n /\ ~ (m <= j)
      BY <2>2, <2>5
    <3>2. f[j] \subseteq Answers
      <4>1. j \notin T
        <5> HIDE DEF T
        <5> QED
          BY <2>1, <3>1
      <4> HIDE DEF j
      <4> QED
        BY <3>1, <4>1
    <3>3. f[m] = UNION {Transfer(from) : from \in f[j]}
      BY <2>3, <2>5
    <3>4. \A from \in f[j] : Transfer(from) \subseteq Answers
      BY <3>2, TransferTyped
    <3> HIDE DEF j
    <3> QED
      BY <2>2, <3>3, <3>4
  <2> QED
    BY <2>4, <2>5
<1> QED
  BY <1>1, <1>2

\* So n transfers, whose answers CHOOSE picks a trace for, lead to answers.
LEMMA TransfersTyped ==
    ASSUME TypeOK, NEW n \in Nat
    PROVE  Transfers(n) \subseteq Answers
<1> DEFINE Again(c) == [k \in 0 .. n |-> IF k = 0 THEN {Now}
                                         ELSE UNION {Transfer(from) : from \in c[k - 1]}]
           after == CHOOSE c : c = Again(c)
<1>1. Transfers(n) = after[n]
  BY DEF Transfers
<1>2. \E c : c = Again(c)
  <2>1. PICK f : Traced(f, n)
    BY TraceExists DEF Traceable
  <2>2. f = Again(f)
    BY <2>1 DEF Traced
  <2> HIDE DEF Again
  <2> QED
    BY <2>2
<1>3. after = Again(after)
  <2> HIDE DEF Again
  <2> QED
    BY <1>2
<1>4. Traced(after, n)
  <2> HIDE DEF after
  <2> QED
    BY <1>3 DEF Traced
<1> HIDE DEF after
<1> QED
  BY <1>1, <1>4, TraceTyped

\* The block transfers through ports keep the types.
LEMMA BlockPortTyped ==
    ASSUME TypeOK, BlockPort
    PROVE  PortTypedStep
<1> DEFINE single == ins.op \in {"INI", "IND", "OUTI", "OUTD"}
           B == HIGH_REGISTER(reg["BC"])
           n == IF single THEN 1 ELSE IF B = 0 THEN 256 ELSE B
           Counted(last) == IF single THEN [last.g EXCEPT !["BC"] = @ - 256]
                                      ELSE SetReg(last.g, "B", 0)
           After(last) == Masked(Counted(last), {"AF"})
<1>1. /\ NoOthers
      /\ \E last \in Transfers(n) : \E f : /\ reg' = SetFlags(After(last), f)
                                           /\ RAM' = last.m /\ Status' = last.st
  BY ZenonT(60) DEF BlockPort
<1>2. n \in Nat
  <2>1. reg["BC"] \in Int
    BY DEF TypeOK, Pairs, RegPairs
  <2>2. B \in Nat
    BY <2>1, WordOfHalves, SMTT(30)
  <2> QED
    BY <2>2
<1> HIDE DEF n
<1>2a. PICK last \in Transfers(n) :
          \E f : reg' = SetFlags(After(last), f) /\ RAM' = last.m /\ Status' = last.st
  BY <1>1
<1>3. PICK f : reg' = SetFlags(After(last), f) /\ RAM' = last.m /\ Status' = last.st
  BY <1>2a
<1>4. last \in Answers
  BY <1>2, TransfersTyped
<1>5. Counted(last) \in [Pairs -> Int]
  <2>1. last.g \in [Pairs -> Int] /\ last.g["BC"] \in Int
    BY <1>4, AnswerFields
  <2> DEFINE bc == last.g["BC"] - 256
  <2>2. bc \in Int
    BY <2>1
  <2>3. Counted(last) = IF single THEN [last.g EXCEPT !["BC"] = bc] ELSE SetReg(last.g, "B", 0)
    OBVIOUS
  <2> HIDE DEF bc, Counted
  <2>4. [last.g EXCEPT !["BC"] = bc] \in [Pairs -> Int]
    BY <2>1, <2>2, PutTyped
  <2>5. SetReg(last.g, "B", 0) \in [Pairs -> Int]
    BY <2>1, RegisterPut DEF Regs, MainRegs
  <2> QED
    BY <2>3, <2>4, <2>5
<1> HIDE DEF Counted
<1>5a. After(last) \in [Pairs -> Int]
  BY <1>5, MaskTyped
<1> HIDE DEF After
<1>6. reg' \in [Pairs -> Int]
  BY <1>3, <1>5a, FlagsTyped
<1> QED
  BY <1>1, <1>3, <1>4, <1>6, AnswerTyped

\* Every transfer through a port keeps the types.
LEMMA PortTyped ==
    ASSUME TypeOK, ins \in Instructions, Port
    PROVE  PortTypedStep
BY InPortTyped, OutPortTyped, BlockPortTyped DEF Port

-----------------------------------------------------------------------------
(* The transfers through ports against the manual.                         *)

\* What a call of a port leaves of what the Z80 has.
LEMMA PortKeeps ==
    ASSUME reg \in [Pairs -> Int], NoOthers,
           \A p \in {"IX", "IY", "SP", "PC"} : reg'[p] = Fetched[p]
    PROVE  Arch!IndexRegisters /\ UNCHANGED ADDRMASK(reg["SP"]) /\ Arch!Rest
<1>1. \A p \in {"IX", "IY", "SP"} : reg'[p] = reg[p]
  BY FetchedKeeps DEF Pairs, RegPairs
<1>2. \A z \in IndexRegs : PairOf(z) \in {"IX", "IY"} /\ z \in Regs
  BY DEF IndexRegs, PairOf, Regs
<1>3. \A z \in IndexRegs : Contents(reg', z) = Contents(reg, z)
  BY <1>1, <1>2 DEF Contents
<1>4. Arch!IndexRegisters
  BY <1>2, <1>3, SameRegisters DEF Arch!IndexRegisters
<1>5. Arch!Advance
  <2>1. "PC" \in DOMAIN reg /\ reg["PC"] \in Int
    BY DEF Pairs
  <2> QED
    BY <2>1, Advances
<1> QED
  BY <1>1, <1>4, <1>5 DEF Arch!Rest, Arch!Alternate, Arch!Special, NoOthers

\* Setting the flags is seen in AF alone.
LEMMA FlagsElsewhere ==
    ASSUME NEW g, NEW f, NEW p \in {"IX", "IY", "SP", "PC"}
    PROVE  SetFlags(g, f)[p] = g[p]
BY DEF SetFlags

\* So is setting a register of the main set in a main pair.
LEMMA RegisterElsewhere ==
    ASSUME NEW g \in [Pairs -> Int], NEW z \in MainRegs, NEW v,
           NEW p \in {"IX", "IY", "SP", "PC"}
    PROVE  SetReg(g, z, v)[p] = g[p]
<1>1. PairOf(z) # p
  BY DEF MainRegs, PairOf
<1>2. p \in Pairs
  BY DEF Pairs, RegPairs
<1> QED
  BY <1>1, <1>2 DEF SetReg

\* No answer of the system moves IX, IY, SP, PC or the flags.
LEMMA AnswerUnmoved ==
    ASSUME NEW answer \in Answers
    PROVE  /\ \A p \in {"IX", "IY", "SP", "PC"} : answer.g[p] = Fetched[p]
           /\ LOW_REGISTER(answer.g["AF"]) = LOW_REGISTER(reg["AF"])
<1>1. answer.g \in AnswerRegisters
  BY AnswerFields
<1> QED
  BY <1>1 DEF AnswerRegisters, Unmoved

\* OUT does what the manual says, whatever the system call behind the port
\* answers.
LEMMA OutPortCorrect ==
    ASSUME TypeOK, OutPort
    PROVE  Arch!Port
<1>1. PICK answer \in cpu_out(Now) :
         reg' = answer.g /\ RAM' = answer.m /\ Status' = answer.st
  BY DEF OutPort
<1>2. answer \in Answers
  BY NowTyped, CallTyped
<1>3. NoOthers /\ ins.op \in {"OUT", "OUT(C)"}
  BY DEF OutPort
<1>4. Arch!IndexRegisters /\ UNCHANGED ADDRMASK(reg["SP"]) /\ Arch!Rest
  <2>1. reg \in [Pairs -> Int]
    BY TypedState
  <2> QED
    BY <1>1, <1>2, <1>3, <2>1, AnswerUnmoved, PortKeeps
<1>5. Arch!KeepFlags
  BY <1>1, <1>2, AnswerUnmoved DEF Arch!KeepFlags, F
<1>6. Arch!ins = ins
  BY SameInstruction
<1> QED
  BY <1>3, <1>4, <1>5, <1>6 DEF Arch!Port

\* So do the block transfers.
LEMMA BlockPortCorrect ==
    ASSUME TypeOK, BlockPort
    PROVE  Arch!Port
<1> DEFINE single == ins.op \in {"INI", "IND", "OUTI", "OUTD"}
           B == HIGH_REGISTER(reg["BC"])
           n == IF single THEN 1 ELSE IF B = 0 THEN 256 ELSE B
           Counted(last) == IF single THEN [last.g EXCEPT !["BC"] = @ - 256]
                                      ELSE SetReg(last.g, "B", 0)
           After(last) == Masked(Counted(last), {"AF"})
<1>1. /\ NoOthers /\ ins.op \in InBlockOps \cup OutBlockOps
      /\ \E last \in Transfers(n) : \E f : /\ reg' = SetFlags(After(last), f)
                                           /\ RAM' = last.m /\ Status' = last.st
  BY ZenonT(60) DEF BlockPort
<1>2. n \in Nat
  <2>1. reg["BC"] \in Int
    BY DEF TypeOK, Pairs, RegPairs
  <2>2. B \in Nat
    BY <2>1, WordOfHalves
  <2> QED
    BY <2>2
<1> HIDE DEF n
<1>2a. PICK last \in Transfers(n) : \E f : reg' = SetFlags(After(last), f)
  BY <1>1
<1>3. PICK f : reg' = SetFlags(After(last), f)
  BY <1>2a
<1>4. last \in Answers
  BY <1>2, TransfersTyped
<1>5. \A p \in {"IX", "IY", "SP", "PC"} : Counted(last)[p] = Fetched[p]
  <2>1. last.g \in [Pairs -> Int] /\ "B" \in MainRegs
    BY <1>4, AnswerFields DEF MainRegs
  <2>2. \A p \in {"IX", "IY", "SP", "PC"} : [last.g EXCEPT !["BC"] = @ - 256][p] = last.g[p]
    BY <2>1 DEF Pairs, RegPairs
  <2>3. \A p \in {"IX", "IY", "SP", "PC"} : SetReg(last.g, "B", 0)[p] = last.g[p]
    BY <2>1, RegisterElsewhere
  <2>4. \A p \in {"IX", "IY", "SP", "PC"} : last.g[p] = Fetched[p]
    BY <1>4, AnswerUnmoved
  <2> HIDE DEF single
  <2> QED
    BY <2>2, <2>3, <2>4
<1> HIDE DEF Counted
<1>5a. \A p \in {"IX", "IY", "SP", "PC"} : After(last)[p] = Fetched[p]
  BY <1>5 DEF Masked, Pairs, RegPairs
<1> HIDE DEF After
<1>6. \A p \in {"IX", "IY", "SP", "PC"} : reg'[p] = Fetched[p]
  BY <1>3, <1>5a, FlagsElsewhere
<1>7. Arch!IndexRegisters /\ UNCHANGED ADDRMASK(reg["SP"]) /\ Arch!Rest
  <2>1. reg \in [Pairs -> Int]
    BY TypedState
  <2> QED
    BY <1>1, <1>6, <2>1, PortKeeps
<1>8. ins.op \in Arch!InBlockOps \cup Arch!OutBlockOps /\ ins.op \notin {"IN", "OUT", "OUT(C)"}
  BY <1>1 DEF InBlockOps, OutBlockOps, Arch!InBlockOps, Arch!OutBlockOps
<1>9. Arch!ins = ins
  BY SameInstruction
<1> QED
  BY <1>7, <1>8, <1>9 DEF Arch!Port

\* And IN, which sets the flags by the byte it reads when the port is in C.
LEMMA InPortCorrect ==
    ASSUME TypeOK, ins \in Instructions, InPort
    PROVE  Arch!Port
<1>1. PICK answer \in cpu_in(Now) :
         LET temp == HIGH_REGISTER(answer.g["AF"])
             g == IF ins.x = "F" THEN answer.g ELSE SetReg(answer.g, ins.x, temp)
         IN  /\ \/ ins.op = "IN" /\ reg' = g
                \/ ins.op = "IN(C)" /\ reg' = SetFlags(g, rotateShiftTable(temp) \cup (F \cap {"C"}))
             /\ RAM' = answer.m
             /\ Status' = answer.st
  BY DEF InPort
<1> DEFINE temp == HIGH_REGISTER(answer.g["AF"])
           g == IF ins.x = "F" THEN answer.g ELSE SetReg(answer.g, ins.x, temp)
           f == rotateShiftTable(temp) \cup (F \cap {"C"})
<1>2. /\ answer \in Answers /\ NoOthers /\ Arch!ins = ins
      /\ reg \in [Pairs -> Int]
  BY NowTyped, CallTyped, SameInstruction, TypedState DEF InPort
<1>3. /\ answer.g \in [Pairs -> Int] /\ temp \in Int /\ temp % 256 = temp /\ temp \in Byte
      /\ \A p \in {"IX", "IY", "SP", "PC"} : answer.g[p] = Fetched[p]
      /\ LOW_REGISTER(answer.g["AF"]) = LOW_REGISTER(reg["AF"])
  <2>1. answer.g \in [Pairs -> Int] /\ answer.g["AF"] \in Int
    BY <1>2, AnswerFields
  <2>2. temp \in Int /\ temp % 256 = temp
    BY <2>1, HalvesAreBytes
  <2>3. temp \in Byte
    BY <2>1, WordOfHalves DEF Byte
  <2> HIDE DEF temp
  <2> QED
    BY <1>2, <2>1, <2>2, <2>3, AnswerUnmoved, Zenon
<1>4. \/ ins.op = "IN" /\ reg' = g
      \/ ins.op = "IN(C)" /\ reg' = SetFlags(g, f)
  BY <1>1
<1>5. /\ ins.x \in MainRegs \cup {"F"}
      /\ ins.op = "IN" => ins.x = "A"
  <2>1. OneOperand(ins)
    BY Operands
  <2> QED
    BY <1>4, <2>1 DEF OneOperand, MainRegs
<1>6. f \in SUBSET FlagNames
                /\ f \cap Arch!Documented = Arch!SZ(temp) \cup Arch!Parity(temp) \cup (F \cap {"C"})
  <2>1. f = SZYX(temp) \cup parityTable(temp) \cup (F \cap {"C"})
    BY DEF rotateShiftTable
  <2> HIDE DEF temp, f
  <2>2. SZYX(temp) \in SUBSET FlagNames /\ parityTable(temp) \in SUBSET FlagNames
    BY <1>3, FlagSets
  <2>3. SZYX(temp) \cap Arch!Documented = Arch!SZ(temp)
    <3>1. SZYX(temp) = YX(temp) \cup Arch!SZ(temp)
      BY <1>3, SignAndZero
    <3>2. YX(temp) \cap Arch!Documented = {}
      BY <1>3, UndocumentedApart
    <3>3. Arch!SZ(temp) \subseteq Arch!Documented
      BY DEF Arch!SZ, Arch!Set, Arch!Documented
    <3> QED
      BY <3>1, <3>2, <3>3
  <2>4. parityTable(temp) = Arch!Parity(temp)
    BY <1>3, SameParity
  <2>5. parityTable(temp) \subseteq {"P"}
    BY DEF parityTable, When
  <2>6. {"P", "C"} \subseteq Arch!Documented /\ "C" \in FlagNames
    BY DEF Arch!Documented, FlagNames
  <2> HIDE DEF F
  <2> QED
    BY <2>1, <2>2, <2>3, <2>4, <2>5, <2>6
<1> HIDE DEF temp, f
<1>7. /\ g \in [Pairs -> Int]
      /\ ins.x # "F" => Contents(g, ins.x) = temp
      /\ \A p \in {"IX", "IY", "SP", "PC"} : g[p] = Fetched[p]
      /\ LOW_REGISTER(g["AF"]) = LOW_REGISTER(reg["AF"])
  <2>1. CASE ins.x = "F"
    BY <1>3, <2>1
  <2>2. CASE ins.x # "F"
    <3>1. ins.x \in MainRegs /\ ins.x \in Regs
      BY <1>5, <2>2 DEF Regs
    <3>2. g = SetReg(answer.g, ins.x, temp)
      BY <2>2
    <3> HIDE DEF g
    <3>3. /\ g \in [Pairs -> Int] /\ Contents(g, ins.x) = temp
          /\ LOW_REGISTER(g["AF"]) = LOW_REGISTER(reg["AF"])
      <4> DEFINE g0 == answer.g
                 h == SetReg(g0, ins.x, temp)
      <4>1. g0 \in [Pairs -> Int] /\ ins.x \in Regs /\ temp \in Int
        BY <1>3, <3>1
      <4> HIDE DEF g0
      <4>2. /\ h \in [Pairs -> Int] /\ Contents(h, ins.x) = temp % 256
            /\ LOW_REGISTER(h["AF"]) = LOW_REGISTER(g0["AF"])
        BY <4>1, RegisterPut
      <4>3. g = h
        BY <3>2 DEF g0
      <4> HIDE DEF h
      <4>4. LOW_REGISTER(g0["AF"]) = LOW_REGISTER(reg["AF"])
        BY <1>3 DEF g0
      <4> QED
        BY <1>3, <4>2, <4>3, <4>4
    <3>4. \A p \in {"IX", "IY", "SP", "PC"} : g[p] = answer.g[p]
      BY <1>3, <3>1, <3>2, RegisterElsewhere
    <3> QED
      BY <1>3, <3>3, <3>4
  <2> QED
    BY <2>1, <2>2
<1> HIDE DEF g
<1>8. \A p \in {"IX", "IY", "SP", "PC"} : reg'[p] = Fetched[p]
  BY <1>4, <1>7, FlagsElsewhere
<1>9. Arch!IndexRegisters /\ UNCHANGED ADDRMASK(reg["SP"]) /\ Arch!Rest
  BY <1>2, <1>8, PortKeeps
<1>10. CASE ins.op = "IN"
  <2>1. reg' = g
    BY <1>4, <1>10
  <2>2. Arch!KeepFlags
    BY <1>7, <2>1, SMTT(30) DEF Arch!KeepFlags, F
  <2> QED
    BY <1>2, <1>9, <1>10, <2>2 DEF Arch!Port
<1>11. CASE ins.op = "IN(C)"
  <2>1. reg' = SetFlags(g, f)
    BY <1>4, <1>11
  <2>2. F' = f
    BY <1>6, <1>7, <2>1, FlagsPut DEF F
  <2>3. Arch!FlagsBecome(Arch!SZ(temp) \cup Arch!Parity(temp) \cup (F \cap {"C"}))
    BY <1>6, <2>2, DocumentedFlags
  <2>4. ASSUME ins.x \in MainRegs
        PROVE  [z \in Regs |-> Contents(reg', z)][ins.x] = temp
    <3>1. ins.x \in Regs /\ ins.x # "F"
      BY <2>4 DEF Regs, MainRegs
    <3> QED
      BY <1>6, <1>7, <2>1, <3>1, FlagsPut
  <2>5. temp \in 0 .. 255
    BY <1>3 DEF Byte
  <2> HIDE DEF F
  <2> QED
    BY <1>2, <1>9, <1>11, <2>3, <2>4, <2>5, SameRegisters DEF Arch!Port
<1> QED
  BY <1>4, <1>10, <1>11

\* IN, OUT and their blocks (cpu.h, 0xd3, 0xdb and those behind ED), whatever
\* the system call behind the port answers.
THEOREM PortCorrect ==
    ASSUME TypeOK, ins \in Instructions, Port
    PROVE  Arch!Port
BY InPortCorrect, OutPortCorrect, BlockPortCorrect DEF Port

-----------------------------------------------------------------------------
(* Every four bytes decode to an instruction of the set.                   *)

\* An entry of the tables of Z80run: its operands are allowed ones, and it
\* takes no more than two bytes of displacement and immediate operand.
Entry(i) ==
    /\ i \in [op : AllOps, x : AnyOperand, y : AnyOperand, d : Displacements, n : Word16]
    /\ i.op \notin BitOps /\ OneOperand(i) /\ TwoOperands(i)
    /\ "n" \in {i.x, i.y} => {i.x, i.y} \cap {"nn", "(nn)"} = {}
    /\ {i.x, i.y} \cap {"(IX)", "(IY)", "e"} # {} => {i.x, i.y} \cap {"nn", "(nn)"} = {}

\* Two operands of which at most one takes bytes from behind the opcode.
Fit(x, y) ==
    /\ x \in AnyOperand /\ y \in AnyOperand
    /\ "n" \in {x, y} => {x, y} \cap {"nn", "(nn)"} = {}
    /\ {x, y} \cap {"(IX)", "(IY)", "e"} # {} => {x, y} \cap {"nn", "(nn)"} = {}

\* The numbers the tables hold (the restarts among them) fit their fields.
LEMMA SmallNumbers ==
    /\ 0 \in Displacements /\ 0 \in Word16
    /\ \A a \in {0, 8, 16, 24, 32, 40, 48, 56} : a \in Word16
BY SMT DEF Displacements, Word16

\* An entry with no displacement, put together from its parts.
LEMMA EntryOf ==
    ASSUME NEW op \in AllOps, NEW x, NEW y, NEW a \in Word16, Fit(x, y), op \notin BitOps,
           OneOperand(Instr(op, x, y, 0, a)), TwoOperands(Instr(op, x, y, 0, a))
    PROVE  Entry(Instr(op, x, y, 0, a))
<1> DEFINE i == Instr(op, x, y, 0, a)
<1>1. /\ i \in [op : AllOps, x : AnyOperand, y : AnyOperand, d : Displacements, n : Word16]
      /\ i.op = op /\ i.x = x /\ i.y = y
  BY SmallNumbers DEF Instr, Fit
<1> HIDE DEF i
<1> QED
  BY <1>1 DEF Entry, Fit, i

\* The operations whose operands the instruction set restricts.
Constrained ==
    {"PUSH", "POP", "INC", "DEC", "INCW", "DECW", "JP(rr)", "IN", "IN(C)", "LD", "LDW", "LDW ED",
     "EX", "ADDW", "ADCW", "SBCW"} \cup ShiftOps \cup BitOps \cup ArithOps

\* An operation that is not one of these makes an entry with any operands
\* that fit.
LEMMA FreeEntry ==
    ASSUME NEW op \in AllOps, op \notin Constrained, NEW x, NEW y, Fit(x, y), NEW a \in Word16
    PROVE  Entry(Instr(op, x, y, 0, a))
<1>1. OneOperand(Instr(op, x, y, 0, a)) /\ TwoOperands(Instr(op, x, y, 0, a))
  BY DEF OneOperand, TwoOperands, Instr, Constrained
<1> QED
  BY <1>1, EntryOf DEF Constrained

\* Operands that stand for bytes behind the opcode.
Fetching == {"n", "nn", "(nn)", "(IX)", "(IY)", "e"}

\* An operand that takes no bytes fits beside every other, and every operand
\* fits beside itself.
LEMMA FitOperands ==
    /\ \A x, y \in AnyOperand : x \notin Fetching => Fit(x, y) /\ Fit(y, x)
    /\ \A y \in AnyOperand : Fit(y, y)
<1>1. ASSUME NEW x \in AnyOperand, NEW y \in AnyOperand, x \notin Fetching
      PROVE  Fit(x, y) /\ Fit(y, x)
  BY <1>1 DEF Fit, Fetching
<1>2. ASSUME NEW y \in AnyOperand
      PROVE  Fit(y, y)
  BY DEF Fit
<1> QED
  BY <1>1, <1>2

\* What the sets of operands hold.
LEMMA OperandsAny ==
    /\ "" \in AnyOperand /\ "A" \in AnyOperand /\ "F" \in AnyOperand /\ "0" \in AnyOperand
    /\ "nn" \in AnyOperand /\ "e" \in AnyOperand /\ "(SP)" \in AnyOperand /\ "n" \in AnyOperand
    /\ "(nn)" \in AnyOperand /\ "(IX)" \in AnyOperand /\ "(IY)" \in AnyOperand
    /\ Regs \subseteq AnyOperand /\ Memory \subseteq AnyOperand /\ RegPairs \subseteq AnyOperand
    /\ WordRegs \subseteq AnyOperand /\ ConditionNames \subseteq AnyOperand
    /\ Indexable \subseteq AnyOperand /\ Operands8 \subseteq AnyOperand
    /\ Indexable \subseteq WordRegs
<1>1. /\ Regs \subseteq AnyOperand /\ Memory \subseteq AnyOperand /\ RegPairs \subseteq AnyOperand
      /\ ConditionNames \subseteq AnyOperand /\ Operands8 \subseteq AnyOperand
      /\ "(SP)" \in AnyOperand /\ "" \in AnyOperand /\ "F" \in AnyOperand /\ "0" \in AnyOperand
      /\ "nn" \in AnyOperand /\ "e" \in AnyOperand /\ "SP" \in AnyOperand /\ "n" \in AnyOperand
  BY Zenon DEF AnyOperand, Operands8, Pairs
<1>2. "A" \in Regs /\ "(nn)" \in Memory /\ "(IX)" \in Memory /\ "(IY)" \in Memory
  BY DEF Regs, MainRegs, Memory
<1>3. Indexable \subseteq RegPairs /\ Indexable \subseteq WordRegs
  BY DEF Indexable, WordRegs, RegPairs
<1>4. WordRegs \subseteq RegPairs \cup {"SP"}
  BY DEF WordRegs
<1> QED
  BY <1>1, <1>2, <1>3, <1>4

\* Registers, pairs and conditions take no bytes from behind the opcode.
LEMMA NotFetching ==
    /\ "" \notin Fetching /\ "A" \notin Fetching /\ "(SP)" \notin Fetching
    /\ Regs \cap Fetching = {} /\ RegPairs \cap Fetching = {} /\ WordRegs \cap Fetching = {}
    /\ ConditionNames \cap Fetching = {} /\ Indexable \cap Fetching = {}
BY DEF Fetching, Regs, MainRegs, IndexRegs, RegPairs, WordRegs, ConditionNames, Indexable

\* An unrestricted operation without operands, a restart included, is an
\* entry.
LEMMA OneEntry ==
    ASSUME NEW op \in AllOps \ Constrained
    PROVE  Entry(One(op)) /\ \A a \in {0, 8, 16, 24, 32, 40, 48, 56} : Entry(Instr(op, "", "", 0, a))
<1>1. Fit("", "")
  BY FitOperands, OperandsAny
<1> QED
  BY <1>1, FreeEntry, SmallNumbers DEF One

\* So is one with one operand,
LEMMA FreeOn ==
    ASSUME NEW op \in AllOps \ Constrained, NEW x \in AnyOperand
    PROVE  Entry(On(op, x))
<1>1. Fit(x, "")
  BY FitOperands, OperandsAny, NotFetching
<1> QED
  BY <1>1, FreeEntry, SmallNumbers DEF On

\* and one with two, of which one at most takes bytes.
LEMMA FreeOf ==
    ASSUME NEW op \in AllOps \ Constrained, NEW x \in AnyOperand, NEW y \in AnyOperand,
           x \notin Fetching \/ y \notin Fetching
    PROVE  Entry(Of(op, x, y))
<1>1. Fit(x, y)
  BY FitOperands
<1> QED
  BY <1>1, FreeEntry, SmallNumbers DEF Of

\* The restricted operations with one operand are entries with the operands
\* their cases read.
LEMMA BoundOn ==
    ASSUME NEW op, NEW x,
           \/ op \in {"PUSH", "POP"} /\ x \in RegPairs
           \/ op \in {"INC", "DEC"} /\ x \in Regs \cup Memory
           \/ op \in {"INCW", "DECW"} /\ x \in WordRegs
           \/ op = "JP(rr)" /\ x \in Indexable
           \/ op = "IN(C)" /\ x \in MainRegs \cup {"F"}
    PROVE  Entry(On(op, x))
<1> DEFINE i == Instr(op, x, "", 0, 0)
<1>1. x \in AnyOperand /\ op \in AllOps /\ op \notin BitOps
  <2>1. x \in AnyOperand
    BY OperandsAny DEF Regs
  <2> QED
    BY <2>1 DEF AllOps, BitOps, EdOps
<1>2. Fit(x, "")
  BY <1>1, FitOperands, OperandsAny, NotFetching
<1>3. i.op = op /\ i.x = x
  BY DEF Instr
<1>4. op \in {"PUSH", "POP", "INC", "DEC", "INCW", "DECW", "JP(rr)", "IN(C)"}
  OBVIOUS
<1> HIDE DEF i
<1>5. OneOperand(i)
  <2>1. op \notin ShiftOps
    BY <1>4 DEF ShiftOps
  <2> QED
    BY <1>1, <1>3, <2>1 DEF OneOperand
<1>6. TwoOperands(i)
  BY <1>3, <1>4 DEF TwoOperands, ArithOps
<1> QED
  BY <1>1, <1>2, <1>5, <1>6, EntryOf, SmallNumbers DEF On, i

\* And those with two.
LEMMA BoundOf ==
    ASSUME NEW op, NEW x, NEW y,
           \/ /\ op = "LD" /\ x \in Regs \cup Memory /\ y \in Operands8
              /\ x \in Memory => y \notin Memory
              /\ x = "(nn)" => y # "n"
           \/ op \in {"LDW", "LDW ED"} /\ <<x, y>> \in WordLoads
           \/ op = "EX" /\ <<x, y>> \in Exchanges
           \/ op \in ArithOps /\ x = "A" /\ y \in Operands8
           \/ op = "ADDW" /\ x \in Indexable /\ y \in WordRegs
           \/ op \in {"ADCW", "SBCW"} /\ x = "HL" /\ y \in WordRegs
           \/ op = "IN" /\ x = "A" /\ y = "n"
    PROVE  Entry(Of(op, x, y))
<1> DEFINE i == Instr(op, x, y, 0, 0)
<1>0. i.op = op /\ i.x = x /\ i.y = y
  BY DEF Instr
<1> HIDE DEF i
<1>1. Of(op, x, y) = i
  BY DEF Of, i
<1>2. ASSUME op \in AllOps, op \notin BitOps, Fit(x, y), OneOperand(i), TwoOperands(i)
      PROVE  Entry(Of(op, x, y))
  BY <1>1, <1>2, EntryOf, SmallNumbers DEF i
<1>3. CASE /\ op = "LD" /\ x \in Regs \cup Memory /\ y \in Operands8
           /\ x \in Memory => y \notin Memory
           /\ x = "(nn)" => y # "n"
  <2>1. op \in AllOps /\ op \notin BitOps
    BY <1>3 DEF AllOps, BitOps
  <2>2. OneOperand(i) /\ TwoOperands(i)
    <3>1. x \in Memory => y \in Regs \cup {"n"}
      BY <1>3 DEF Operands8
    <3> QED
      BY <1>0, <1>3, <3>1 DEF OneOperand, TwoOperands, ArithOps, ShiftOps, BitOps
  <2>3. Fit(x, y)
    <3>1. x \in AnyOperand /\ y \in AnyOperand
      BY <1>3, OperandsAny
    <3>2. CASE x \in Regs \/ y \in Regs
      BY <3>1, <3>2, FitOperands, NotFetching
    <3>3. CASE x \in Memory /\ y = "n"
      BY <1>3, <3>1, <3>3 DEF Fit, Memory
    <3> QED
      BY <1>3, <3>2, <3>3 DEF Operands8
  <2> QED
    BY <1>2, <2>1, <2>2, <2>3
<1>4. CASE op \in {"LDW", "LDW ED"} /\ <<x, y>> \in WordLoads
  <2>1. op \in AllOps /\ op \notin BitOps
    BY <1>4 DEF AllOps, BitOps, EdOps
  <2>2. OneOperand(i) /\ TwoOperands(i)
    BY <1>0, <1>4 DEF OneOperand, TwoOperands, ArithOps, ShiftOps, BitOps
  <2>5. i.op \in {"LDW", "LDW ED"}
    BY <1>0, <1>4
  <2>6. \/ i.x = "(nn)" /\ i.y \in WordRegs
        \/ i.x \in WordRegs /\ i.y \in {"nn", "(nn)"} \cup WordRegs
    BY <2>2, <2>5, WordOperands, Zenon
  <2>3. \/ x \in WordRegs /\ y \in WordRegs \cup {"nn", "(nn)"}
        \/ x = "(nn)" /\ y \in WordRegs
    BY <1>0, <2>6
  <2>4. Fit(x, y)
    BY <2>3, FitOperands, OperandsAny, NotFetching
  <2> QED
    BY <1>2, <2>1, <2>2, <2>4
<1>5. CASE op = "EX" /\ <<x, y>> \in Exchanges
  <2>1. op \in AllOps /\ op \notin BitOps
    BY <1>5 DEF AllOps, BitOps
  <2>2. OneOperand(i) /\ TwoOperands(i)
    BY <1>0, <1>5 DEF OneOperand, TwoOperands, ArithOps, ShiftOps, BitOps
  <2>3. x \in {"AF", "DE", "(SP)"} /\ y \in {""} \cup RegPairs
    BY <1>5 DEF Exchanges, Indexable, RegPairs
  <2>4. x \in AnyOperand /\ y \in AnyOperand /\ x \notin Fetching
    BY <2>3, OperandsAny, NotFetching DEF RegPairs
  <2> QED
    BY <1>2, <2>1, <2>2, <2>4, FitOperands
<1>6. CASE op \in ArithOps /\ x = "A" /\ y \in Operands8
  <2>1. op \in AllOps /\ op \notin BitOps
    BY <1>6 DEF AllOps, BitOps, ArithOps
  <2>2. OneOperand(i) /\ TwoOperands(i)
    BY <1>0, <1>6 DEF OneOperand, TwoOperands, ArithOps, ShiftOps, BitOps
  <2> QED
    BY <1>2, <1>6, <2>1, <2>2, FitOperands, OperandsAny, NotFetching
<1>7. CASE \/ op = "ADDW" /\ x \in Indexable /\ y \in WordRegs
           \/ op \in {"ADCW", "SBCW"} /\ x = "HL" /\ y \in WordRegs
  <2>1. op \in AllOps /\ op \notin BitOps
    BY <1>7 DEF AllOps, BitOps, EdOps
  <2>2. OneOperand(i) /\ TwoOperands(i)
    BY <1>0, <1>7 DEF OneOperand, TwoOperands, ArithOps, ShiftOps, BitOps
  <2>3. x \in Indexable
    BY <1>7 DEF Indexable
  <2> QED
    BY <1>2, <1>7, <2>1, <2>2, <2>3, FitOperands, OperandsAny, NotFetching
<1>8. CASE op = "IN" /\ x = "A" /\ y = "n"
  <2>1. op \in AllOps /\ op \notin BitOps
    BY <1>8 DEF AllOps, BitOps
  <2>2. OneOperand(i) /\ TwoOperands(i)
    BY <1>0, <1>8 DEF OneOperand, TwoOperands, ArithOps, ShiftOps, BitOps
  <2> QED
    BY <1>2, <1>8, <2>1, <2>2, FitOperands, OperandsAny, NotFetching
<1> QED
  BY <1>3, <1>4, <1>5, <1>6, <1>7, <1>8

\* What the operands of the rows are.
LEMMA RowOperands ==
    /\ {"A", "B", "C", "D", "E", "H", "L"} \subseteq Regs
    /\ {"(HL)", "(BC)", "(DE)", "(nn)"} \subseteq Memory
    /\ {"A", "B", "C", "D", "E", "H", "L", "n", "(HL)", "(BC)", "(DE)", "(nn)"} \subseteq Operands8
    /\ {"BC", "DE", "HL", "SP"} \subseteq WordRegs /\ {"BC", "DE", "HL", "AF"} \subseteq RegPairs
    /\ "HL" \in Indexable
    /\ {"ADD", "ADC", "SUB", "SBC", "AND", "XOR", "OR", "CP"} \subseteq ArithOps
BY DEF Regs, MainRegs, Memory, Operands8, WordRegs, RegPairs, Indexable, ArithOps

\* The loads and exchanges of sixteen bits the rows of the table name are
\* among those the instruction set has.
LEMMA RowWords ==
    /\ \A p \in {"BC", "DE", "HL", "SP"} : <<p, "nn">> \in WordLoads
    /\ <<"(nn)", "HL">> \in WordLoads /\ <<"HL", "(nn)">> \in WordLoads /\ <<"SP", "HL">> \in WordLoads
    /\ <<"AF", "">> \in Exchanges /\ <<"DE", "HL">> \in Exchanges /\ <<"(SP)", "HL">> \in Exchanges
<1>1. "HL" \in Indexable /\ {"BC", "DE", "HL", "SP"} \subseteq WordRegs
  BY RowOperands
<1> QED
  BY <1>1, Zenon DEF WordLoads, Exchanges

\* The operations of the table that any operands fit.
FreeOps ==
    {"NOP", "HALT", "EXX", "RLCA", "RRCA", "RLA", "RRA", "DAA", "CPL", "SCF", "CCF", "DI", "EI",
     "JP", "JR", "DJNZ", "CALL", "RET", "RST", "OUT"}

\* They are operations of the instruction set, and unrestricted.
LEMMA FreeRowOps == FreeOps \subseteq AllOps \ Constrained
BY DEF FreeOps, AllOps, Constrained, ShiftOps, BitOps, ArithOps

\* The entries the rows of the table are made of, with at most one register,
LEMMA RowEntries ==
    /\ \A op \in FreeOps : Entry(One(op))
    /\ \A op \in {"INC", "DEC"} : \A x \in {"A", "B", "C", "D", "E", "H", "L", "(HL)"} : Entry(On(op, x))
    /\ \A op \in {"INCW", "DECW"} : \A x \in {"BC", "DE", "HL", "SP"} : Entry(On(op, x))
    /\ \A op \in {"PUSH", "POP"} : \A x \in {"BC", "DE", "HL", "AF"} : Entry(On(op, x))
    /\ \A x \in {"", "NZ", "Z", "NC", "C", "PO", "PE", "P", "M"} :
         /\ Entry(On("RET", x))
         /\ \A op \in {"JP", "CALL"} : Entry(Of(op, x, "nn"))
         /\ Entry(Of("JR", x, "e"))
    /\ Entry(Of("DJNZ", "", "e")) /\ Entry(On("JP(rr)", "HL")) /\ Entry(Of("OUT", "n", "A"))
    /\ Entry(Of("IN", "A", "n"))
    /\ \A a \in {0, 8, 16, 24, 32, 40, 48, 56} : Entry(Restart(a))
<1>1. \A op \in FreeOps : Entry(One(op))
  BY FreeRowOps, OneEntry
<1>2. \A op \in {"INC", "DEC"} : \A x \in {"A", "B", "C", "D", "E", "H", "L", "(HL)"} : Entry(On(op, x))
  <2>1. {"A", "B", "C", "D", "E", "H", "L", "(HL)"} \subseteq Regs \cup Memory
    BY RowOperands
  <2> QED
    BY <2>1, BoundOn
<1>3. \A op \in {"INCW", "DECW"} : \A x \in {"BC", "DE", "HL", "SP"} : Entry(On(op, x))
  BY RowOperands, BoundOn
<1>4. \A op \in {"PUSH", "POP"} : \A x \in {"BC", "DE", "HL", "AF"} : Entry(On(op, x))
  BY RowOperands, BoundOn
<1>5. {"RET", "JP", "CALL", "JR", "DJNZ", "OUT", "RST"} \subseteq AllOps \ Constrained
  BY FreeRowOps DEF FreeOps
<1>6. ASSUME NEW x \in {"", "NZ", "Z", "NC", "C", "PO", "PE", "P", "M"}
      PROVE  /\ Entry(On("RET", x))
             /\ \A op \in {"JP", "CALL"} : Entry(Of(op, x, "nn"))
             /\ Entry(Of("JR", x, "e"))
  <2>1. x \in AnyOperand /\ x \notin Fetching
    BY OperandsAny, NotFetching DEF ConditionNames
  <2> QED
    BY <1>5, <2>1, FreeOn, FreeOf, OperandsAny
<1>7. Entry(Of("DJNZ", "", "e")) /\ Entry(Of("OUT", "n", "A"))
  BY <1>5, FreeOf, OperandsAny, NotFetching
<1>8. Entry(On("JP(rr)", "HL")) /\ Entry(Of("IN", "A", "n"))
  BY RowOperands, BoundOn, BoundOf
<1>9. \A a \in {0, 8, 16, 24, 32, 40, 48, 56} : Entry(Restart(a))
  BY <1>5, OneEntry DEF Restart
<1> QED
  BY <1>1, <1>2, <1>3, <1>4, <1>6, <1>7, <1>8, <1>9

\* and with two operands.
LEMMA RowTwoEntries ==
    /\ \A x \in {"A", "B", "C", "D", "E", "H", "L", "(HL)"} : Entry(Of("LD", x, "n"))
    /\ \A x \in {"(HL)", "(BC)", "(DE)", "(nn)"} : Entry(Of("LD", x, "A")) /\ Entry(Of("LD", "A", x))
    /\ \A p \in {"BC", "DE", "HL", "SP"} : Entry(Of("LDW", p, "nn")) /\ Entry(Of("ADDW", "HL", p))
    /\ Entry(Of("LDW", "(nn)", "HL")) /\ Entry(Of("LDW", "HL", "(nn)")) /\ Entry(Of("LDW", "SP", "HL"))
    /\ Entry(Of("EX", "AF", "")) /\ Entry(Of("EX", "DE", "HL")) /\ Entry(Of("EX", "(SP)", "HL"))
    /\ \A op \in {"ADD", "ADC", "SUB", "SBC", "AND", "XOR", "OR", "CP"} :
         Entry(Of(op, "A", "n"))
<1>1. \A x \in {"A", "B", "C", "D", "E", "H", "L", "(HL)"} : Entry(Of("LD", x, "n"))
  <2>1. "n" \in Operands8 /\ "n" \notin Memory
    BY RowOperands, OperandNames
  <2>2. {"A", "B", "C", "D", "E", "H", "L", "(HL)"} \subseteq Regs \cup Memory
    BY RowOperands
  <2> QED
    BY <2>1, <2>2, BoundOf
<1>2. ASSUME NEW x \in {"(HL)", "(BC)", "(DE)", "(nn)"}
      PROVE  Entry(Of("LD", x, "A")) /\ Entry(Of("LD", "A", x))
  <2>1. x \in Memory /\ x \in Operands8 /\ "A" \in Regs /\ "A" \in Operands8 /\ "A" \notin Memory
    BY RowOperands, OperandNames
  <2> QED
    BY <2>1, BoundOf
<1>3. \A p \in {"BC", "DE", "HL", "SP"} : Entry(Of("LDW", p, "nn")) /\ Entry(Of("ADDW", "HL", p))
  BY RowOperands, RowWords, BoundOf
<1>4. Entry(Of("LDW", "(nn)", "HL")) /\ Entry(Of("LDW", "HL", "(nn)")) /\ Entry(Of("LDW", "SP", "HL"))
  BY RowWords, BoundOf
<1>5. Entry(Of("EX", "AF", "")) /\ Entry(Of("EX", "DE", "HL")) /\ Entry(Of("EX", "(SP)", "HL"))
  BY RowWords, BoundOf
<1>6. \A op \in {"ADD", "ADC", "SUB", "SBC", "AND", "XOR", "OR", "CP"} : Entry(Of(op, "A", "n"))
  BY RowOperands, BoundOf
<1> QED
  BY <1>1, <1>2, <1>3, <1>4, <1>5, <1>6

\* The places of a row, one by one.
LEMMA SixteenNumbers ==
    ASSUME NEW k \in 1 .. 16
    PROVE  \/ k = 1 \/ k = 2 \/ k = 3 \/ k = 4 \/ k = 5 \/ k = 6 \/ k = 7 \/ k = 8
           \/ k = 9 \/ k = 10 \/ k = 11 \/ k = 12 \/ k = 13 \/ k = 14 \/ k = 15 \/ k = 16
OBVIOUS

\* Each row of the table of opcodes holds entries. The prefixes are left out,
\* which decode to none.
LEMMA Row00Entries == \A k \in 1 .. 16 : Entry(Row00[k])
<1>1. /\ Entry(Row00[1]) /\ Entry(Row00[2]) /\ Entry(Row00[3]) /\ Entry(Row00[4])
      /\ Entry(Row00[5]) /\ Entry(Row00[6]) /\ Entry(Row00[7]) /\ Entry(Row00[8])
  BY RowEntries, RowTwoEntries DEF Row00, FreeOps
<1>2. /\ Entry(Row00[9]) /\ Entry(Row00[10]) /\ Entry(Row00[11]) /\ Entry(Row00[12])
      /\ Entry(Row00[13]) /\ Entry(Row00[14]) /\ Entry(Row00[15]) /\ Entry(Row00[16])
  BY RowEntries, RowTwoEntries DEF Row00, FreeOps
<1> QED
  BY <1>1, <1>2, SixteenNumbers

\* So does the row of the opcodes from 0x10.
LEMMA Row10Entries == \A k \in 1 .. 16 : Entry(Row10[k])
<1>1. /\ Entry(Row10[1]) /\ Entry(Row10[2]) /\ Entry(Row10[3]) /\ Entry(Row10[4])
      /\ Entry(Row10[5]) /\ Entry(Row10[6]) /\ Entry(Row10[7]) /\ Entry(Row10[8])
  BY RowEntries, RowTwoEntries DEF Row10, FreeOps
<1>2. /\ Entry(Row10[9]) /\ Entry(Row10[10]) /\ Entry(Row10[11]) /\ Entry(Row10[12])
      /\ Entry(Row10[13]) /\ Entry(Row10[14]) /\ Entry(Row10[15]) /\ Entry(Row10[16])
  BY RowEntries, RowTwoEntries DEF Row10, FreeOps
<1> QED
  BY <1>1, <1>2, SixteenNumbers

\* So does the row of the opcodes from 0x20.
LEMMA Row20Entries == \A k \in 1 .. 16 : Entry(Row20[k])
<1>1. /\ Entry(Row20[1]) /\ Entry(Row20[2]) /\ Entry(Row20[3]) /\ Entry(Row20[4])
      /\ Entry(Row20[5]) /\ Entry(Row20[6]) /\ Entry(Row20[7]) /\ Entry(Row20[8])
  BY RowEntries, RowTwoEntries DEF Row20, FreeOps
<1>2. /\ Entry(Row20[9]) /\ Entry(Row20[10]) /\ Entry(Row20[11]) /\ Entry(Row20[12])
      /\ Entry(Row20[13]) /\ Entry(Row20[14]) /\ Entry(Row20[15]) /\ Entry(Row20[16])
  BY RowEntries, RowTwoEntries DEF Row20, FreeOps
<1> QED
  BY <1>1, <1>2, SixteenNumbers

\* So does the row of the opcodes from 0x30.
LEMMA Row30Entries == \A k \in 1 .. 16 : Entry(Row30[k])
<1>1. /\ Entry(Row30[1]) /\ Entry(Row30[2]) /\ Entry(Row30[3]) /\ Entry(Row30[4])
      /\ Entry(Row30[5]) /\ Entry(Row30[6]) /\ Entry(Row30[7]) /\ Entry(Row30[8])
  BY RowEntries, RowTwoEntries DEF Row30, FreeOps
<1>2. /\ Entry(Row30[9]) /\ Entry(Row30[10]) /\ Entry(Row30[11]) /\ Entry(Row30[12])
      /\ Entry(Row30[13]) /\ Entry(Row30[14]) /\ Entry(Row30[15]) /\ Entry(Row30[16])
  BY RowEntries, RowTwoEntries DEF Row30, FreeOps
<1> QED
  BY <1>1, <1>2, SixteenNumbers

\* So does the row of the opcodes from 0xC0.
LEMMA RowC0Entries == \A k \in (1 .. 16) \ {12} : Entry(RowC0[k])
<1>1. /\ Entry(RowC0[1]) /\ Entry(RowC0[2]) /\ Entry(RowC0[3]) /\ Entry(RowC0[4])
      /\ Entry(RowC0[5]) /\ Entry(RowC0[6]) /\ Entry(RowC0[7]) /\ Entry(RowC0[8])
  BY RowEntries, RowTwoEntries DEF RowC0, FreeOps
<1>2. /\ Entry(RowC0[9]) /\ Entry(RowC0[10]) /\ Entry(RowC0[11]) /\ Entry(RowC0[13])
      /\ Entry(RowC0[14]) /\ Entry(RowC0[15]) /\ Entry(RowC0[16])
  BY RowEntries, RowTwoEntries DEF RowC0, FreeOps
<1> QED
  BY <1>1, <1>2, SixteenNumbers

\* So does the row of the opcodes from 0xD0.
LEMMA RowD0Entries == \A k \in (1 .. 16) \ {14} : Entry(RowD0[k])
<1>1. /\ Entry(RowD0[1]) /\ Entry(RowD0[2]) /\ Entry(RowD0[3]) /\ Entry(RowD0[4])
      /\ Entry(RowD0[5]) /\ Entry(RowD0[6]) /\ Entry(RowD0[7]) /\ Entry(RowD0[8])
  BY RowEntries, RowTwoEntries DEF RowD0, FreeOps
<1>2. /\ Entry(RowD0[9]) /\ Entry(RowD0[10]) /\ Entry(RowD0[11]) /\ Entry(RowD0[12])
      /\ Entry(RowD0[13]) /\ Entry(RowD0[15]) /\ Entry(RowD0[16])
  BY RowEntries, RowTwoEntries DEF RowD0, FreeOps
<1> QED
  BY <1>1, <1>2, SixteenNumbers

\* So does the row of the opcodes from 0xE0.
LEMMA RowE0Entries == \A k \in (1 .. 16) \ {14} : Entry(RowE0[k])
<1>1. /\ Entry(RowE0[1]) /\ Entry(RowE0[2]) /\ Entry(RowE0[3]) /\ Entry(RowE0[4])
      /\ Entry(RowE0[5]) /\ Entry(RowE0[6]) /\ Entry(RowE0[7]) /\ Entry(RowE0[8])
  BY RowEntries, RowTwoEntries DEF RowE0, FreeOps
<1>2. /\ Entry(RowE0[9]) /\ Entry(RowE0[10]) /\ Entry(RowE0[11]) /\ Entry(RowE0[12])
      /\ Entry(RowE0[13]) /\ Entry(RowE0[15]) /\ Entry(RowE0[16])
  BY RowEntries, RowTwoEntries DEF RowE0, FreeOps
<1> QED
  BY <1>1, <1>2, SixteenNumbers

\* So does the row of the opcodes from 0xF0.
LEMMA RowF0Entries == \A k \in (1 .. 16) \ {14} : Entry(RowF0[k])
<1>1. /\ Entry(RowF0[1]) /\ Entry(RowF0[2]) /\ Entry(RowF0[3]) /\ Entry(RowF0[4])
      /\ Entry(RowF0[5]) /\ Entry(RowF0[6]) /\ Entry(RowF0[7]) /\ Entry(RowF0[8])
  BY RowEntries, RowTwoEntries DEF RowF0, FreeOps
<1>2. /\ Entry(RowF0[9]) /\ Entry(RowF0[10]) /\ Entry(RowF0[11]) /\ Entry(RowF0[12])
      /\ Entry(RowF0[13]) /\ Entry(RowF0[15]) /\ Entry(RowF0[16])
  BY RowEntries, RowTwoEntries DEF RowF0, FreeOps
<1> QED
  BY <1>1, <1>2, SixteenNumbers

\* The columns of the table: the eight operands, of which (HL) is the
\* seventh, the operations on A and the shifts.
LEMMA ColumnOperands ==
    /\ \A k \in 1 .. 8 : Column[k] \in {"B", "C", "D", "E", "H", "L", "(HL)", "A"}
    /\ \A k \in 1 .. 8 : Column[k] = "(HL)" <=> k = 7
    /\ \A k \in 1 .. 8 : Operations8[k] \in ArithOps /\ Shifts[k] \in ShiftOps
<1>1. \A k \in 1 .. 8 : k = 1 \/ k = 2 \/ k = 3 \/ k = 4 \/ k = 5 \/ k = 6 \/ k = 7 \/ k = 8
  OBVIOUS
<1>2. \A k \in 1 .. 8 : /\ Column[k] \in {"B", "C", "D", "E", "H", "L", "(HL)", "A"}
                        /\ Column[k] = "(HL)" <=> k = 7
  BY <1>1 DEF Column
<1>3. \A k \in 1 .. 8 : Operations8[k] \in ArithOps
  BY <1>1 DEF Operations8, ArithOps
<1>4. \A k \in 1 .. 8 : Shifts[k] \in ShiftOps
  BY <1>1 DEF Shifts, ShiftOps
<1> QED
  BY <1>2, <1>3, <1>4

\* A load between two columns is an entry, except from (HL) to (HL), which is
\* HALT.
LEMMA ColumnLoad ==
    ASSUME NEW j \in 1 .. 8, NEW k \in 1 .. 8, j # 7 \/ k # 7
    PROVE  Entry(Of("LD", Column[j], Column[k]))
<1>1. /\ Column[j] \in {"B", "C", "D", "E", "H", "L", "(HL)", "A"}
      /\ Column[k] \in {"B", "C", "D", "E", "H", "L", "(HL)", "A"}
      /\ ~ (Column[j] = "(HL)" /\ Column[k] = "(HL)")
  BY ColumnOperands
<1>2. /\ Column[j] \in Regs \cup Memory /\ Column[k] \in Operands8
      /\ Column[j] # "(nn)"
  BY <1>1, RowOperands
<1>3. Column[j] \in Memory => Column[k] \notin Memory
  BY <1>1 DEF Memory
<1> QED
  BY <1>2, <1>3, BoundOf

\* An operation on A and a column is an entry.
LEMMA ColumnOnA ==
    ASSUME NEW j \in 1 .. 8, NEW k \in 1 .. 8
    PROVE  Entry(Of(Operations8[j], "A", Column[k]))
<1>1. Column[k] \in {"B", "C", "D", "E", "H", "L", "(HL)", "A"} /\ Operations8[j] \in ArithOps
  BY ColumnOperands
<1> QED
  BY <1>1, RowOperands, BoundOf

\* An opcode that is no prefix is at a place of its row that holds an entry.
LEMMA NotPrefix ==
    ASSUME NEW b \in Byte, b \notin {203, 221, 237, 253}
    PROVE  /\ b \div 16 = 12 => (b % 16) + 1 # 12
           /\ b \div 16 \in {13, 14, 15} => (b % 16) + 1 # 14
<1> DEFINE q == b \div 16
           m == b % 16
<1>1. q \in Int /\ m \in Int /\ b = 16 * q + m
  BY DEF Byte
<1> HIDE DEF q, m
<1>2. q = 12 => m + 1 # 12
  BY <1>1
<1>3. q = 13 => m + 1 # 14
  BY <1>1
<1>4. q = 14 => m + 1 # 14
  BY <1>1
<1>5. q = 15 => m + 1 # 14
  BY <1>1
<1> QED
  BY <1>2, <1>3, <1>4, <1>5 DEF q, m

\* Every opcode that is no prefix names an entry.
LEMMA PlainEntries ==
    ASSUME NEW b \in Byte, b \notin {203, 221, 237, 253}
    PROVE  Entry(Plain[b])
<1> DEFINE k == (b % 16) + 1
<1>1. /\ k \in 1 .. 16 /\ Low3(b) + 1 \in 1 .. 8
      /\ b \div 16 \in 0 .. 15 /\ b = 16 * (b \div 16) + (b % 16)
  BY DEF Byte, Low3
<1>2. CASE b \div 16 = 0
  <2>1. Plain[b] = Row00[k]
    BY <1>1, <1>2 DEF Plain, Byte
  <2> QED
    BY <1>1, <2>1, Row00Entries, SMTT(30)
<1>3. CASE b \div 16 = 1
  <2>1. Plain[b] = Row10[k]
    BY <1>1, <1>3, SMTT(30) DEF Plain, Byte
  <2> QED
    BY <1>1, <2>1, Row10Entries
<1>4. CASE b \div 16 = 2
  <2>1. Plain[b] = Row20[k]
    BY <1>1, <1>4, SMTT(30) DEF Plain, Byte
  <2> QED
    BY <1>1, <2>1, Row20Entries
<1>5. CASE b \div 16 = 3
  <2>1. Plain[b] = Row30[k]
    BY <1>1, <1>5 DEF Plain, Byte
  <2> QED
    BY <1>1, <2>1, Row30Entries
<1>6. CASE b \div 16 = 12
  <2>1. Plain[b] = RowC0[k]
    BY <1>1, <1>6 DEF Plain, Byte
  <2>2. k # 12
    BY <1>1, <1>6, NotPrefix
  <2> QED
    BY <1>1, <2>1, <2>2, RowC0Entries, SMTT(30)
<1>7. CASE b \div 16 = 13
  <2>1. Plain[b] = RowD0[k]
    BY <1>1, <1>7 DEF Plain, Byte
  <2>2. k # 14
    BY <1>1, <1>7, NotPrefix
  <2> QED
    BY <1>1, <2>1, <2>2, RowD0Entries, SMTT(30)
<1>8. CASE b \div 16 = 14
  <2>1. Plain[b] = RowE0[k]
    BY <1>1, <1>8 DEF Plain, Byte
  <2>2. k # 14
    BY <1>1, <1>8, NotPrefix
  <2> QED
    BY <1>1, <2>1, <2>2, RowE0Entries
<1>9. CASE b \div 16 = 15
  <2>1. Plain[b] = RowF0[k]
    BY <1>1, <1>9 DEF Plain, Byte
  <2>2. k # 14
    BY <1>1, <1>9, NotPrefix
  <2> QED
    BY <1>1, <2>1, <2>2, RowF0Entries
<1>10. CASE b \div 16 \in {4, 5}
  <2> DEFINE j == (b - 64) \div 8 + 1
  <2>1. Plain[b] = LoadsToBCDE[b - 64] /\ b - 64 \in 0 .. 31
    BY <1>1, <1>10 DEF Plain, Byte
  <2>2. Low3(b - 64) = Low3(b) /\ j \in 1 .. 4
    BY <2>1 DEF Low3
  <2>3. Plain[b] = Of("LD", Column[j], Column[Low3(b) + 1])
    BY <2>1, <2>2 DEF LoadsToBCDE
  <2>4. j \in 1 .. 8 /\ j # 7
    BY <2>2
  <2> HIDE DEF j
  <2> QED
    BY <1>1, <2>3, <2>4, ColumnLoad
<1>11. CASE b \div 16 \in {6, 7}
  <2> DEFINE c == b - 96
             j == c \div 8 + 5
  <2>1. Plain[b] = LoadsToHLMA[c] /\ c \in 0 .. 31
    BY <1>1, <1>11 DEF Plain, Byte
  <2>2. Low3(c) = Low3(b)
    BY <2>1 DEF Low3
  <2> HIDE DEF c
  <2>3. CASE c = 22
    <3>1. Plain[b] = One("HALT")
      BY <2>1, <2>3 DEF LoadsToHLMA
    <3>2. "HALT" \in FreeOps
      BY DEF FreeOps
    <3> QED
      BY <3>1, <3>2, RowEntries, Zenon
  <2>4. CASE c # 22
    <3>1. Plain[b] = Of("LD", Column[j], Column[Low3(b) + 1])
      BY <2>1, <2>2, <2>4 DEF LoadsToHLMA
    <3>2. j \in 1 .. 8 /\ (j # 7 \/ Low3(b) + 1 # 7)
      BY <2>1, <2>2, <2>4 DEF Low3
    <3> HIDE DEF j
    <3> QED
      BY <1>1, <3>1, <3>2, ColumnLoad
  <2> QED
    BY <2>3, <2>4, SMTT(30)
<1>12. CASE b \div 16 \in {8, 9, 10, 11}
  <2> DEFINE j == (b - 128) \div 8 + 1
  <2>1. Plain[b] = OnA[b - 128] /\ b - 128 \in 0 .. 63
    BY <1>1, <1>12 DEF Plain, Byte
  <2>2. Low3(b - 128) = Low3(b) /\ j \in 1 .. 8
    BY <2>1 DEF Low3
  <2>3. Plain[b] = Of(Operations8[j], "A", Column[Low3(b) + 1])
    BY <2>1, <2>2 DEF OnA
  <2> HIDE DEF j
  <2> QED
    BY <1>1, <2>2, <2>3, ColumnOnA, SMTT(30)
<1> QED
  BY <1>1, <1>2, <1>3, <1>4, <1>5, <1>6, <1>7, <1>8, <1>9, <1>10, <1>11, <1>12

\* The operations behind the ED prefix that any operands fit.
FreeEdOps ==
    {"IM", "LD I,A", "LD R,A", "LD A,I", "LD A,R", "RRD", "RLD", "NEG", "RETN", "ED NOP",
     "LDI", "LDD", "LDIR", "LDDR", "CPI", "CPD", "CPIR", "CPDR"} \cup InBlockOps \cup OutBlockOps

\* They are operations of the instruction set, and unrestricted.
LEMMA FreeEdRowOps == FreeEdOps \cup {"OUT(C)"} \subseteq AllOps \ Constrained
<1>1. FreeEdOps \cup {"OUT(C)"} \subseteq EdOps
  BY DEF FreeEdOps, EdOps
<1>2. (FreeEdOps \cup {"OUT(C)"}) \cap Constrained = {}
  BY DEF FreeEdOps, Constrained, ShiftOps, BitOps, ArithOps, InBlockOps, OutBlockOps
<1> QED
  BY <1>1, <1>2 DEF AllOps

\* The entries behind the ED prefix.
LEMMA EdEntries ==
    /\ \A op \in FreeEdOps : Entry(One(op))
    /\ \A x \in {"B", "C", "D", "E", "H", "L", "F", "A"} : Entry(On("IN(C)", x))
    /\ \A x \in {"B", "C", "D", "E", "H", "L", "0", "A"} : Entry(On("OUT(C)", x))
    /\ \A op \in {"ADCW", "SBCW"} : \A p \in {"BC", "DE", "HL", "SP"} : Entry(Of(op, "HL", p))
    /\ \A op \in {"LDW", "LDW ED"} : \A p \in {"BC", "DE", "HL", "SP"} :
         Entry(Of(op, "(nn)", p)) /\ Entry(Of(op, p, "(nn)"))
<1>1. \A op \in FreeEdOps : Entry(One(op))
  BY FreeEdRowOps, OneEntry
<1>2. \A x \in {"B", "C", "D", "E", "H", "L", "F", "A"} : Entry(On("IN(C)", x))
  BY BoundOn DEF MainRegs
<1>3. ASSUME NEW x \in {"B", "C", "D", "E", "H", "L", "0", "A"}
      PROVE  Entry(On("OUT(C)", x))
  <2>1. x \in AnyOperand
    BY OperandsAny, RowOperands
  <2>2. "OUT(C)" \in AllOps \ Constrained
    BY FreeEdRowOps
  <2> QED
    BY <2>1, <2>2, FreeOn
<1>4. \A op \in {"ADCW", "SBCW"} : \A p \in {"BC", "DE", "HL", "SP"} : Entry(Of(op, "HL", p))
  BY RowOperands, BoundOf
<1>5. ASSUME NEW p \in {"BC", "DE", "HL", "SP"}
      PROVE  <<"(nn)", p>> \in WordLoads /\ <<p, "(nn)">> \in WordLoads
  <2>1. p \in WordRegs
    BY RowOperands
  <2> QED
    BY <2>1, Zenon DEF WordLoads
<1> QED
  BY <1>1, <1>2, <1>3, <1>4, <1>5, BoundOf

\* The first rows behind ED name entries if what they pass on does.
LEMMA EdRows40Entry ==
    ASSUME NEW b, NEW otherwise, Entry(otherwise)
    PROVE  Entry(EdRows40(b, otherwise))
BY EdEntries DEF EdRows40, FreeEdOps

\* So do the last rows
LEMMA EdRows60Entry ==
    ASSUME NEW b, NEW otherwise, Entry(otherwise)
    PROVE  Entry(EdRows60(b, otherwise))
BY EdEntries DEF EdRows60, FreeEdOps

\* and the block instructions.
LEMMA EdBlocksEntry ==
    ASSUME NEW b, NEW otherwise, Entry(otherwise)
    PROVE  Entry(EdBlocks(b, otherwise))
BY EdEntries DEF EdBlocks, FreeEdOps, InBlockOps, OutBlockOps

\* Every opcode behind ED names an entry.
LEMMA ExtendedEntry ==
    ASSUME NEW b
    PROVE  Entry(Extended(b))
<1>1. Entry(One("ED NOP")) /\ Entry(One("NEG")) /\ Entry(One("RETN"))
  BY EdEntries DEF FreeEdOps
<1>2. \A o : Entry(o) => Entry(EdNegRet(b, o))
  BY <1>1 DEF EdNegRet
<1> QED
  BY <1>1, <1>2, EdRows40Entry, EdRows60Entry, EdBlocksEntry DEF Extended

\* The operands of the index registers, among those of the instruction set.
LEMMA IndexOperands ==
    /\ {"IXH", "IXL", "IYH", "IYL"} \subseteq Regs /\ {"(IX)", "(IY)"} \subseteq Memory
    /\ {"IX", "IY"} \subseteq Indexable /\ {"IX", "IY"} \subseteq WordRegs
    /\ {"IX", "IY"} \subseteq RegPairs
    /\ Regs \cup Memory \cup {"n"} = Operands8
BY DEF Regs, IndexRegs, Memory, Indexable, WordRegs, RegPairs, Operands8

\* The entries behind the prefixes DD and FD.
LEMMA IndexEntries ==
    ASSUME NEW I \in {"IX", "IY"}, NEW h \in IndexRegs, NEW l \in IndexRegs, NEW m \in {"(IX)", "(IY)"}
    PROVE  /\ \A p \in {"BC", "DE", "SP", I} : Entry(Of("ADDW", I, p))
           /\ Entry(Of("LDW", I, "nn")) /\ Entry(Of("LDW", "(nn)", I)) /\ Entry(Of("LDW", I, "(nn)"))
           /\ Entry(Of("LDW", "SP", I)) /\ Entry(Of("EX", "(SP)", I)) /\ Entry(On("JP(rr)", I))
           /\ \A op \in {"PUSH", "POP", "INCW", "DECW"} : Entry(On(op, I))
           /\ \A op \in {"INC", "DEC"} : \A x \in {h, l, m} : Entry(On(op, x))
           /\ \A x \in {h, l, m} : Entry(Of("LD", x, "n"))
<1>1. /\ I \in Indexable /\ I \in WordRegs /\ I \in RegPairs /\ {h, l} \subseteq Regs /\ m \in Memory
      /\ "n" \in Operands8 /\ "n" \notin Memory
  BY IndexOperands, OperandNames DEF Regs
<1>2. /\ <<I, "nn">> \in WordLoads /\ <<"(nn)", I>> \in WordLoads /\ <<I, "(nn)">> \in WordLoads
      /\ <<"SP", I>> \in WordLoads /\ <<"(SP)", I>> \in Exchanges
  BY <1>1, Zenon DEF WordLoads, Exchanges
<1>3. \A p \in {"BC", "DE", "SP", I} : Entry(Of("ADDW", I, p))
  BY <1>1, RowOperands, BoundOf
<1>4. \A op \in {"INC", "DEC"} : \A x \in {h, l, m} : Entry(On(op, x))
  BY <1>1, BoundOn
<1>5. \A x \in {h, l, m} : Entry(Of("LD", x, "n"))
  <2>1. \A x \in {h, l, m} : x # "(nn)" /\ x \in Regs \cup Memory
    BY <1>1 DEF IndexRegs
  <2> QED
    BY <1>1, <2>1, BoundOf
<1>6. \A op \in {"PUSH", "POP", "INCW", "DECW"} : Entry(On(op, I))
  BY <1>1, BoundOn
<1> QED
  BY <1>1, <1>2, <1>3, <1>4, <1>5, <1>6, BoundOf, BoundOn

\* The loads and counts of an index register, and its stack instructions,
\* name entries if what they pass on does.
LEMMA IndexWordsEntry ==
    ASSUME NEW I \in {"IX", "IY"}, NEW h \in IndexRegs, NEW l \in IndexRegs, NEW m \in {"(IX)", "(IY)"},
           NEW b, NEW otherwise, Entry(otherwise)
    PROVE  /\ Entry(IndexWords(b, I, h, l, m, otherwise)) /\ Entry(IndexStack(b, I, otherwise))
BY IndexEntries DEF IndexWords, IndexStack

\* So do the loads and the operations on A.
LEMMA IndexLoadsEntry ==
    ASSUME NEW h \in IndexRegs, NEW l \in IndexRegs, NEW m \in {"(IX)", "(IY)"},
           NEW b \in Byte, NEW otherwise, Entry(otherwise)
    PROVE  /\ Entry(IndexLoads(b, h, l, m, otherwise)) /\ Entry(IndexOnA(b, h, l, m, otherwise))
<1> DEFINE Indexed == <<"B", "C", "D", "E", h, l, m, "A">>
           to == b \div 8 - 7
           from == Low3(b) + 1
<1>1. from \in 1 .. 8 /\ from - 1 = Low3(b)
  BY DEF Byte, Low3
<1>2. h \in Regs /\ l \in Regs /\ m \in Memory /\ m \notin Regs /\ m # "(nn)"
      /\ Regs \subseteq Operands8 /\ m \in Operands8
  BY IndexOperands, OperandNames DEF Regs
<1>3. \A k \in 1 .. 8 : /\ k = 7 => Indexed[k] = m
                        /\ k # 7 => Indexed[k] \in Regs
  <2>1. \A k \in 1 .. 8 : k = 1 \/ k = 2 \/ k = 3 \/ k = 4 \/ k = 5 \/ k = 6 \/ k = 7 \/ k = 8
    OBVIOUS
  <2>2. {"A", "B", "C", "D", "E"} \subseteq Regs
    BY RowOperands
  <2> QED
    BY <1>2, <2>1, <2>2
<1>4. \A k \in 1 .. 8 : k # 7 => Column[k] \in Regs
  BY ColumnOperands, RowOperands
<1>5. Entry(IndexLoads(b, h, l, m, otherwise))
  <2> DEFINE Here == /\ b \in (64 .. 127) \ {118}
                     /\ Low3(b) \in {4, 5, 6} \/ b \in 96 .. 119
  <2>1. CASE ~ Here
    BY <2>1 DEF IndexLoads
  <2>2. CASE Here
    <3>1. to \in 1 .. 8 /\ ~ (to = 7 /\ from = 7)
      <4> DEFINE q == b \div 8
                 r == b % 8
      <4>1. b \in 64 .. 127 /\ b # 118 /\ q \in Int /\ r \in Int /\ b = 8 * q + r /\ 0 <= r /\ r < 8
        BY <2>2 DEF Byte
      <4>2. to = q - 7 /\ from = r + 1
        BY DEF Low3
      <4> HIDE DEF q, r
      <4> QED
        BY <4>1, <4>2
    <3>2. IndexLoads(b, h, l, m, otherwise)
            = IF m \in {Indexed[to], Indexed[from]}
              THEN Of("LD", IF to = 7 THEN m ELSE Column[to], IF from = 7 THEN m ELSE Column[from])
              ELSE Of("LD", Indexed[to], Indexed[from])
      BY <2>2 DEF IndexLoads
    <3> HIDE DEF Indexed, to, from
    <3>3. CASE m \in {Indexed[to], Indexed[from]}
      <4> DEFINE x == IF to = 7 THEN m ELSE Column[to]
                 y == IF from = 7 THEN m ELSE Column[from]
      <4>1. /\ x \in Regs \cup Memory /\ y \in Operands8 /\ x # "(nn)"
            /\ x \in Memory => y \notin Memory
        <5>1. "(nn)" \in Memory /\ m # "(nn)" /\ m \in Memory
          BY <1>2 DEF Memory
        <5>2. \A z \in Regs : z \notin Memory /\ z # "(nn)" /\ z \in Operands8
          BY <1>2, <5>1, OperandNames
        <5>3. x \in Regs \/ (x = m /\ to = 7)
          BY <1>4, <3>1
        <5>4. y \in Regs \/ (y = m /\ from = 7)
          BY <1>1, <1>4
        <5> HIDE DEF x, y
        <5> QED
          BY <1>2, <3>1, <5>1, <5>2, <5>3, <5>4
      <4> HIDE DEF x, y
      <4>2. Entry(Of("LD", x, y))
        BY <4>1, BoundOf
      <4> QED
        BY <3>2, <3>3, <4>2 DEF x, y
    <3>4. CASE m \notin {Indexed[to], Indexed[from]}
      <4>1. Indexed[to] \in Regs /\ Indexed[from] \in Regs
        BY <1>1, <1>3, <3>1, <3>4
      <4>2. Indexed[to] \notin Memory /\ "(nn)" \in Memory
        BY <4>1, OperandNames DEF Memory
      <4> QED
        BY <1>2, <3>2, <3>4, <4>1, <4>2, BoundOf
    <3> QED
      BY <3>3, <3>4
  <2> QED
    BY <2>1, <2>2
<1>6. Entry(IndexOnA(b, h, l, m, otherwise))
  <2> DEFINE Here == b \in 128 .. 191 /\ Low3(b) \in {4, 5, 6}
  <2>1. CASE ~ Here
    BY <2>1 DEF IndexOnA
  <2>2. CASE Here
    <3> DEFINE j == b \div 8 - 15
               y == <<h, l, m>>[Low3(b) - 3]
    <3>1. j \in 1 .. 8 /\ Low3(b) - 3 \in {1, 2, 3}
      BY <2>2 DEF Byte
    <3>2. IndexOnA(b, h, l, m, otherwise) = Of(Operations8[j], "A", y)
      BY <2>2 DEF IndexOnA
    <3>3. y \in Operands8
      BY <1>2, <3>1
    <3> HIDE DEF j, y
    <3>4. Operations8[j] \in ArithOps
      BY <3>1, ColumnOperands
    <3> QED
      BY <3>2, <3>3, <3>4, BoundOf
  <2> QED
    BY <2>1, <2>2
<1> QED
  BY <1>5, <1>6

\* Every opcode behind DD or FD names an entry.
LEMMA IndexTableEntries ==
    ASSUME NEW b \in Byte
    PROVE  Entry(DdTable(b)) /\ Entry(FdTable(b))
<1>1. Entry(One("NOP"))
  BY RowEntries DEF FreeOps
<1>2. /\ {"IXH", "IXL", "IYH", "IYL"} \subseteq IndexRegs
  BY DEF IndexRegs
<1>3. ASSUME NEW o, Entry(o)
      PROVE  /\ Entry(DdWords(b, o)) /\ Entry(DdLoads(b, o)) /\ Entry(DdOnA(b, o)) /\ Entry(DdStack(b, o))
             /\ Entry(FdWords(b, o)) /\ Entry(FdLoads(b, o)) /\ Entry(FdOnA(b, o)) /\ Entry(FdStack(b, o))
  BY <1>2, <1>3, IndexWordsEntry, IndexLoadsEntry
     DEF DdWords, DdLoads, DdOnA, DdStack, FdWords, FdLoads, FdOnA, FdStack
<1> QED
  BY <1>1, <1>3 DEF DdTable, FdTable

\* Two bytes make a number of sixteen bits, and one is a displacement and a
\* number.
LEMMA WordOfBytes ==
    ASSUME NEW a \in Byte, NEW b \in Byte
    PROVE  a + 256 * b \in Word16 /\ a \in Word16 /\ a \in Displacements
BY SMT DEF Word16, Byte, Displacements

\* A shift, or an operation on a bit from 0 to 7, of a register or place of
\* memory is an instruction.
LEMMA ShiftOrBit ==
    ASSUME NEW op \in ShiftOps \cup BitOps, NEW x \in Regs \cup Memory, NEW y \in {"", "(IX)", "(IY)"},
           NEW d \in Displacements, NEW n \in Word16, op \in BitOps => n \in 0 .. 7
    PROVE  Instr(op, x, y, d, n) \in Instructions
<1> DEFINE i == Instr(op, x, y, d, n)
<1>1. /\ i.op = op /\ i.x = x /\ i.y = y /\ i.n = n /\ i.d = d
      /\ i = [op |-> op, x |-> x, y |-> y, d |-> d, n |-> n]
  BY DEF Instr
<1>2. op \in AllOps /\ x \in AnyOperand /\ y \in AnyOperand
  BY OperandsAny DEF AllOps
<1>3. "n" \notin {x, y}
  BY OperandNames
<1> HIDE DEF i
<1>4. OneOperand(i)
  <2>1. op \notin {"PUSH", "POP", "INCW", "DECW", "JP(rr)", "IN", "IN(C)"}
    BY DEF ShiftOps, BitOps
  <2> QED
    BY <1>1, <2>1 DEF OneOperand
<1>5. TwoOperands(i)
  <2>1. op \notin {"LD", "LDW", "LDW ED", "EX", "ADDW", "ADCW", "SBCW"} \cup ArithOps
    BY DEF ShiftOps, BitOps, ArithOps
  <2> QED
    BY <1>1, <2>1 DEF TwoOperands
<1>6. i \in [op : AllOps, x : AnyOperand, y : AnyOperand, d : Displacements, n : Word16]
  BY <1>1, <1>2
<1>7. i \in Instructions
  BY <1>1, <1>3, <1>4, <1>5, <1>6 DEF Instructions
<1> QED
  BY <1>7 DEF i

\* The parts of an opcode behind CB: the bit is from 0 to 7, the shift one of
\* eight.
LEMMA BitNumbers ==
    ASSUME NEW b \in Byte
    PROVE  /\ (b \div 8) % 8 \in 0 .. 7 /\ (b \div 8) % 8 \in Byte
           /\ b < 64 => b \div 8 + 1 \in 1 .. 8
           /\ b < 64 \/ b \in 64 .. 127 \/ b \in 128 .. 191 \/ b > 191
<1>1. (b \div 8) % 8 \in 0 .. 7 /\ (b \div 8) % 8 \in Byte
  BY DEF Byte
<1>2. b < 64 => b \div 8 + 1 \in 1 .. 8
  BY DEF Byte
<1>3. b < 64 \/ b \in 64 .. 127 \/ b \in 128 .. 191 \/ b > 191
  BY DEF Byte
<1> QED
  BY <1>1, <1>2, <1>3

\* The four groups behind CB.
LEMMA BitsCases ==
    ASSUME NEW b \in Byte, NEW x, NEW y, NEW d
    PROVE  /\ b < 64 => BitsOf(b, x, y, d) = Instr(Shifts[b \div 8 + 1], x, y, d, 0)
           /\ b \in 64 .. 127 => BitsOf(b, x, y, d) = Instr("BIT", x, y, d, (b \div 8) % 8)
           /\ b \in 128 .. 191 => BitsOf(b, x, y, d) = Instr("RES", x, y, d, (b \div 8) % 8)
           /\ b > 191 => BitsOf(b, x, y, d) = Instr("SET", x, y, d, (b \div 8) % 8)
<1> DEFINE j == b \div 8 + 1
           n == (b \div 8) % 8
           OfShift == Instr(Shifts[j], x, y, d, 0)
           OfBit == Instr("BIT", x, y, d, n)
           OfRes == Instr("RES", x, y, d, n)
           OfSet == Instr("SET", x, y, d, n)
<1>1. BitsOf(b, x, y, d) = CASE b < 64 -> OfShift [] b \in 64 .. 127 -> OfBit
                             [] b \in 128 .. 191 -> OfRes [] b > 191 -> OfSet
  BY DEF BitsOf
<1> HIDE DEF OfShift, OfBit, OfRes, OfSet
<1>2. b < 64 => BitsOf(b, x, y, d) = OfShift
  BY <1>1 DEF Byte
<1>3. b \in 64 .. 127 => BitsOf(b, x, y, d) = OfBit
  BY <1>1 DEF Byte
<1>4. b \in 128 .. 191 => BitsOf(b, x, y, d) = OfRes
  BY <1>1 DEF Byte
<1>5. b > 191 => BitsOf(b, x, y, d) = OfSet
  BY <1>1 DEF Byte
<1> QED
  BY <1>2, <1>3, <1>4, <1>5 DEF OfShift, OfBit, OfRes, OfSet

\* Every opcode behind CB names an instruction,
LEMMA BitsInstruction ==
    ASSUME NEW b \in Byte, NEW x \in Regs \cup Memory, NEW y \in {"", "(IX)", "(IY)"},
           NEW d \in Displacements
    PROVE  BitsOf(b, x, y, d) \in Instructions
<1> DEFINE j == b \div 8 + 1
           n == (b \div 8) % 8
<1>1. n \in Byte /\ n \in 0 .. 7 /\ (b < 64 => j \in 1 .. 8)
  BY BitNumbers, Zenon
<1>2. n \in Word16 /\ 0 \in Word16
  BY <1>1, WordOfBytes, SmallNumbers, Zenon
<1>3. b < 64 \/ b \in 64 .. 127 \/ b \in 128 .. 191 \/ b > 191
  BY BitNumbers, Zenon
<1>4. BitOps \cap ShiftOps = {} /\ "BIT" \in BitOps /\ "RES" \in BitOps /\ "SET" \in BitOps
  BY DEF BitOps, ShiftOps
<1>5. CASE b < 64
  <2>1. BitsOf(b, x, y, d) = Instr(Shifts[j], x, y, d, 0)
    BY <1>5, BitsCases, Zenon
  <2> HIDE DEF j
  <2>2. Shifts[j] \in ShiftOps
    BY <1>1, <1>5, ColumnOperands, Zenon
  <2>3. Instr(Shifts[j], x, y, d, 0) \in Instructions
    <3> DEFINE op == Shifts[j]
    <3>1. op \in ShiftOps /\ op \notin BitOps
      BY <1>4, <2>2
    <3> HIDE DEF op
    <3>2. Instr(op, x, y, d, 0) \in Instructions
      BY <1>2, <3>1, ShiftOrBit, Zenon
    <3> QED
      BY <3>2 DEF op
  <2> QED
    BY <2>1, <2>3
<1>6. CASE b \in 64 .. 127
  <2>1. BitsOf(b, x, y, d) = Instr("BIT", x, y, d, n)
    BY <1>6, BitsCases, Zenon
  <2> HIDE DEF n
  <2> QED
    BY <1>1, <1>2, <1>4, <2>1, ShiftOrBit, ZenonT(60)
<1>7. CASE b \in 128 .. 191
  <2>1. BitsOf(b, x, y, d) = Instr("RES", x, y, d, n)
    BY <1>7, BitsCases, Zenon
  <2> HIDE DEF n
  <2> QED
    BY <1>1, <1>2, <1>4, <2>1, ShiftOrBit, ZenonT(60)
<1>8. CASE b > 191
  <2>1. BitsOf(b, x, y, d) = Instr("SET", x, y, d, n)
    BY <1>8, BitsCases, Zenon
  <2> HIDE DEF n
  <2>2. "SET" \in BitOps
    BY <1>4
  <2>3. Instr("SET", x, y, d, n) \in Instructions
    BY <1>1, <1>2, <2>2, ShiftOrBit, ZenonT(60)
  <2> QED
    BY <2>1, <2>3
<1> QED
  BY <1>3, <1>5, <1>6, <1>7, <1>8

\* alone and behind DD and FD.
LEMMA BitTables ==
    ASSUME NEW b \in Byte, NEW d \in Byte
    PROVE  /\ Bits[b] \in Instructions
           /\ DdBits(b, d) \in Instructions /\ FdBits(b, d) \in Instructions
<1>1. Low3(b) + 1 \in 1 .. 8
  BY DEF Byte, Low3
<1>2. Column[Low3(b) + 1] \in Regs \cup Memory
  BY <1>1, ColumnOperands, RowOperands
<1>3. d \in Displacements /\ 0 \in Displacements
  BY WordOfBytes, SmallNumbers
<1>4. Bits[b] = BitsOf(b, Column[Low3(b) + 1], "", 0)
  BY DEF Bits, Byte
<1>5. {"(IX)", "(IY)"} \subseteq Memory
  BY DEF Memory
<1>6. ASSUME NEW I \in {"(IX)", "(IY)"}
      PROVE  IndexBits(b, I, d) \in Instructions
  BY <1>2, <1>3, <1>5, BitsInstruction DEF IndexBits
<1> QED
  BY <1>2, <1>3, <1>4, <1>6, BitsInstruction DEF DdBits, FdBits

\* An entry that has taken its operands from two bytes is an instruction.
LEMMA OperandsTaken ==
    ASSUME NEW i, Entry(i), NEW rest,
           \A k \in 1 .. 2 : rest[k] \in Byte
    PROVE  WithOperands(i, rest) \in Instructions
<1> DEFINE k == Displacement(i)
           d == IF k = 1 THEN rest[1] ELSE 0
           n == CASE Immediate(i) = 2 -> rest[k + 1] + 256 * rest[k + 2]
                  [] Immediate(i) = 1 -> rest[k + 1]
                  [] OTHER -> i.n
           j == WithOperands(i, rest)
<1>1. /\ i \in [op : AllOps, x : AnyOperand, y : AnyOperand, d : Displacements, n : Word16]
      /\ i.op \notin BitOps /\ OneOperand(i) /\ TwoOperands(i)
  BY DEF Entry
<1>2. k \in {0, 1} /\ Immediate(i) \in {0, 1, 2}
  BY DEF Displacement, Immediate
<1>3. k = 1 => Immediate(i) # 2
  BY DEF Entry, Displacement, Immediate
<1>4. "n" \in {i.x, i.y} => Immediate(i) = 1
  BY DEF Entry, Immediate
<1>5. j = [i EXCEPT !.d = d, !.n = n]
  BY DEF WithOperands
<1> HIDE DEF k
<1>6. d \in Displacements
  BY <1>2, WordOfBytes, SmallNumbers
<1>7. n \in Word16 /\ (Immediate(i) = 1 => n \in Displacements)
  <2>1. i.n \in Word16
    BY <1>1
  <2>2. CASE Immediate(i) = 2
    <3>1. k = 0
      BY <1>2, <1>3, <2>2
    <3>2. n = rest[1] + 256 * rest[2]
      BY <2>2, <3>1
    <3> HIDE DEF n
    <3> QED
      BY <2>2, <3>2, WordOfBytes
  <2>3. CASE Immediate(i) = 1
    <3>1. n = rest[k + 1] /\ k + 1 \in 1 .. 2
      BY <1>2, <2>3
    <3> HIDE DEF n
    <3> QED
      BY <3>1, WordOfBytes
  <2>4. CASE Immediate(i) = 0
    BY <2>1, <2>4
  <2> QED
    BY <1>2, <2>2, <2>3, <2>4
<1> HIDE DEF d, n, j
<1>8. /\ j \in [op : AllOps, x : AnyOperand, y : AnyOperand, d : Displacements, n : Word16]
      /\ j.op = i.op /\ j.x = i.x /\ j.y = i.y /\ j.n = n
  BY <1>1, <1>5, <1>6, <1>7
<1>9. OneOperand(j)
  BY <1>1, <1>8 DEF OneOperand
<1>10. TwoOperands(j)
  BY <1>1, <1>8 DEF TwoOperands
<1> QED
  BY <1>4, <1>7, <1>8, <1>9, <1>10 DEF Instructions, j

\* Whatever four bytes are fetched, they decode to an instruction: an
\* operation the processor has, with operands its case can read.
LEMMA DecodedInstruction ==
    ASSUME NEW b \in [1 .. 4 -> Byte]
    PROVE  Decode(b) \in Instructions
<1>1. b[1] \in Byte /\ b[2] \in Byte /\ b[3] \in Byte /\ b[4] \in Byte
  OBVIOUS
<1>2. ASSUME NEW i, Entry(i)
      PROVE  /\ WithOperands(i, <<b[3], b[4]>>) \in Instructions
             /\ WithOperands(i, <<b[2], b[3], b[4]>>) \in Instructions
  BY <1>1, <1>2, OperandsTaken
<1>3. CASE b[1] = 203
  BY <1>1, <1>3, BitTables DEF Decode
<1>4. CASE b[1] = 237
  BY <1>2, <1>4, ExtendedEntry DEF Decode
<1>5. CASE b[1] = 221
  BY <1>1, <1>2, <1>5, IndexTableEntries, BitTables DEF Decode
<1>6. CASE b[1] = 253
  BY <1>1, <1>2, <1>6, IndexTableEntries, BitTables DEF Decode
<1>7. CASE b[1] \notin {203, 237, 221, 253}
  BY <1>1, <1>2, <1>7, PlainEntries DEF Decode
<1> QED
  BY <1>3, <1>4, <1>5, <1>6, <1>7

-----------------------------------------------------------------------------
(* The state keeps its types.                                              *)

\* A step other than those of the processor: the instructions to come are
\* instructions.
LEMMA FetchTyped ==
    ASSUME TypeOK, Fetch
    PROVE  code' \in Seq(Instructions)
<1> DEFINE at == [k \in 1 .. 4 |-> ADDRMASK(reg["PC"] + k - 1)]
           b == [k \in 1 .. 4 |-> RAM[at[k]]]
<1>1. code' = <<Decode(b)>> /\ InWindow({at[k] : k \in 1 .. 4})
  BY DEF Fetch
<1>2. \A k \in 1 .. 4 : at[k] \in DOMAIN RAM
  <2> HIDE DEF at
  <2> QED
    BY <1>1, Zenon DEF InWindow
<1> HIDE DEF at
<1>3. \A k \in 1 .. 4 : RAM[at[k]] \in Byte
  BY <1>2, Zenon DEF TypeOK
<1>4. b \in [1 .. 4 -> Byte]
  BY <1>3
<1> HIDE DEF b
<1>5. Decode(b) \in Instructions
  BY <1>4, DecodedInstruction, Zenon
<1> DEFINE i == Decode(b)
<1> HIDE DEF i
<1>6. i \in Instructions => <<i>> \in Seq(Instructions)
  OBVIOUS
<1> QED
  BY <1>1, <1>5, <1>6 DEF i

\* A program that has ended is a sequence of instructions.
LEMMA StoppedTyped == Stopped \in Seq(Instructions)
<1> DEFINE i == Instr("", "", "", 0, 0)
<1>1. /\ i.op = "" /\ i.x = "" /\ i.y = "" /\ i.n = 0 /\ i.d = 0
      /\ i = [op |-> "", x |-> "", y |-> "", d |-> 0, n |-> 0]
  BY DEF Instr
<1>2. "" \in AllOps /\ "" \in AnyOperand
  BY DEF AllOps, AnyOperand
<1>3. 0 \in Displacements /\ 0 \in Word16
  BY SmallNumbers
<1> HIDE DEF i
<1>4. i \in [op : AllOps, x : AnyOperand, y : AnyOperand, d : Displacements, n : Word16]
  BY <1>1, <1>2, <1>3
<1>5. OneOperand(i) /\ TwoOperands(i)
  <2>1. "" \notin {"PUSH", "POP", "INC", "DEC", "INCW", "DECW", "JP(rr)", "IN", "IN(C)",
                   "LD", "LDW", "LDW ED", "EX", "ADDW", "ADCW", "SBCW"}
                    \cup ShiftOps \cup BitOps \cup ArithOps
    BY DEF ShiftOps, BitOps, ArithOps
  <2> QED
    BY <1>1, <2>1 DEF OneOperand, TwoOperands
<1>6. i \in Instructions
  BY <1>1, <1>4, <1>5 DEF Instructions
<1>7. Stopped = <<i>>
  BY DEF Stopped, i
<1> QED
  BY <1>6, <1>7

\* The instruction at hand is one, and what follows it is a program.
LEMMA InstructionAtHand ==
    ASSUME TypeOK, code # <<>>
    PROVE  ins \in Instructions /\ Tail(code) \in Seq(Instructions)
BY DEF TypeOK, ins

\* The programs and registers a processor starts with have their types.
LEMMA StartTyped == Init => TypeOK
<1> SUFFICES ASSUME Init PROVE TypeOK
  OBVIOUS
<1>1. PICK family \in Starts : \E s \in family :
          /\ reg = s.reg /\ alt = s.alt /\ IR = s.IR /\ IFF = s.IFF
          /\ RAM = s.RAM /\ Status = 0 /\ code = s.code
  BY DEF Init
<1>2. PICK s \in family :
          /\ reg = s.reg /\ alt = s.alt /\ IR = s.IR /\ IFF = s.IFF
          /\ RAM = s.RAM /\ Status = 0 /\ code = s.code
  BY <1>1
<1>3. /\ s.reg \in [Pairs -> Int] /\ s.alt \in [Alternates -> Int]
      /\ s.IR \in Int /\ s.IFF \in {0, 3}
      /\ DOMAIN s.RAM \subseteq Word16 /\ s.RAM \in [DOMAIN s.RAM -> Byte]
      /\ s.code \in Seq(Instructions)
  BY StartsAssumption
<1>4. Status \in 0 .. 3
  BY <1>2
<1> QED
  BY <1>2, <1>3, <1>4, Zenon DEF TypeOK

\* Every step keeps them.
LEMMA StepKeepsTypes ==
    ASSUME TypeOK, Next
    PROVE  TypeOK'
<1>1. DOMAIN RAM \subseteq Word16 /\ Status \in 0 .. 3
  BY DEF TypeOK
<1>2. ASSUME RAM' \in [DOMAIN RAM -> Byte]
      PROVE  RAM' \in [DOMAIN RAM' -> Byte] /\ DOMAIN RAM' \subseteq Word16
  BY <1>1, <1>2
<1>3. CASE Fetch
  <2>1. UNCHANGED <<reg, alt, IR, IFF, RAM, Status>>
    BY <1>3 DEF Fetch
  <2> QED
    BY <1>3, <2>1, FetchTyped DEF TypeOK
<1>4. CASE Halt
  BY <1>4, StoppedTyped DEF Halt, TypeOK
<1>5. CASE code # <<>> /\ Execute /\ UNCHANGED Status /\ code' = Tail(code)
  <2>1. ins \in Instructions /\ Tail(code) \in Seq(Instructions)
    BY <1>5, InstructionAtHand
  <2>2. StepTyped
    BY <1>5, <2>1, ExecuteTyped
  <2> QED
    BY <1>1, <1>2, <1>5, <2>1, <2>2 DEF StepTyped, TypeOK
<1>6. CASE code # <<>> /\ Port /\ code' = Tail(code)
  <2>1. ins \in Instructions /\ Tail(code) \in Seq(Instructions)
    BY <1>6, InstructionAtHand
  <2>2. PortTypedStep
    BY <1>6, <2>1, PortTyped
  <2> QED
    BY <1>2, <1>6, <2>1, <2>2 DEF PortTypedStep, TypeOK
<1> QED
  BY <1>3, <1>4, <1>5, <1>6 DEF Next

\* The processor's state keeps its types through every program: the registers
\* stay integers, every cell of RAM a byte, the status a code from 0 to 3,
\* and what is decoded an instruction of the set, on every window of memory
\* and for every answer of the system.
THEOREM TypeCorrect == Spec => []TypeOK
<1>1. ASSUME TypeOK, UNCHANGED vars
      PROVE  TypeOK'
  BY <1>1 DEF TypeOK, vars
<1> QED
  BY StartTyped, StepKeepsTypes, <1>1, PTL DEF Spec

-----------------------------------------------------------------------------
(* The decoder against the manual's, which cuts an opcode into three       *)
(* parts: rows entry by entry, columns by their parts.                     *)

\* Each row of the table of opcodes, place by place, is what the manual makes
\* of the parts of its opcodes.
LEMMA SameRow00 ==
    \A k \in 1 .. 16 : Row00[k] = Arch!Unprefixed(0, (k - 1) \div 8 + 0, (k - 1) % 8)
<1>1. /\ Row00[1] = Arch!Unprefixed(0, 0, 0)
      /\ Row00[2] = Arch!Unprefixed(0, 0, 1)
      /\ Row00[3] = Arch!Unprefixed(0, 0, 2)
      /\ Row00[4] = Arch!Unprefixed(0, 0, 3)
  BY SMT DEF Row00, One, On, Of, Restart, Instr, Arch!Unprefixed, Arch!Conditions, Arch!Eight, Arch!Instr
<1>2. /\ Row00[5] = Arch!Unprefixed(0, 0, 4)
      /\ Row00[6] = Arch!Unprefixed(0, 0, 5)
      /\ Row00[7] = Arch!Unprefixed(0, 0, 6)
      /\ Row00[8] = Arch!Unprefixed(0, 0, 7)
  BY SMT DEF Row00, One, On, Of, Restart, Instr, Arch!Unprefixed, Arch!Conditions, Arch!Eight, Arch!Instr
<1>3. /\ Row00[9] = Arch!Unprefixed(0, 1, 0)
      /\ Row00[10] = Arch!Unprefixed(0, 1, 1)
      /\ Row00[11] = Arch!Unprefixed(0, 1, 2)
      /\ Row00[12] = Arch!Unprefixed(0, 1, 3)
  BY SMT DEF Row00, One, On, Of, Restart, Instr, Arch!Unprefixed, Arch!Conditions, Arch!Eight, Arch!Instr
<1>4. /\ Row00[13] = Arch!Unprefixed(0, 1, 4)
      /\ Row00[14] = Arch!Unprefixed(0, 1, 5)
      /\ Row00[15] = Arch!Unprefixed(0, 1, 6)
      /\ Row00[16] = Arch!Unprefixed(0, 1, 7)
  BY SMT DEF Row00, One, On, Of, Restart, Instr, Arch!Unprefixed, Arch!Conditions, Arch!Eight, Arch!Instr
<1> QED
  BY <1>1, <1>2, <1>3, <1>4, SixteenNumbers

\* The row from 0x10,
LEMMA SameRow10 ==
    \A k \in 1 .. 16 : Row10[k] = Arch!Unprefixed(0, (k - 1) \div 8 + 2, (k - 1) % 8)
<1>1. /\ Row10[1] = Arch!Unprefixed(0, 2, 0)
      /\ Row10[2] = Arch!Unprefixed(0, 2, 1)
      /\ Row10[3] = Arch!Unprefixed(0, 2, 2)
      /\ Row10[4] = Arch!Unprefixed(0, 2, 3)
  BY SMT DEF Row10, One, On, Of, Restart, Instr, Arch!Unprefixed, Arch!Conditions, Arch!Eight, Arch!Instr
<1>2. /\ Row10[5] = Arch!Unprefixed(0, 2, 4)
      /\ Row10[6] = Arch!Unprefixed(0, 2, 5)
      /\ Row10[7] = Arch!Unprefixed(0, 2, 6)
      /\ Row10[8] = Arch!Unprefixed(0, 2, 7)
  BY SMT DEF Row10, One, On, Of, Restart, Instr, Arch!Unprefixed, Arch!Conditions, Arch!Eight, Arch!Instr
<1>3. /\ Row10[9] = Arch!Unprefixed(0, 3, 0)
      /\ Row10[10] = Arch!Unprefixed(0, 3, 1)
      /\ Row10[11] = Arch!Unprefixed(0, 3, 2)
      /\ Row10[12] = Arch!Unprefixed(0, 3, 3)
  BY SMT DEF Row10, One, On, Of, Restart, Instr, Arch!Unprefixed, Arch!Conditions, Arch!Eight, Arch!Instr
<1>4. /\ Row10[13] = Arch!Unprefixed(0, 3, 4)
      /\ Row10[14] = Arch!Unprefixed(0, 3, 5)
      /\ Row10[15] = Arch!Unprefixed(0, 3, 6)
      /\ Row10[16] = Arch!Unprefixed(0, 3, 7)
  BY SMT DEF Row10, One, On, Of, Restart, Instr, Arch!Unprefixed, Arch!Conditions, Arch!Eight, Arch!Instr
<1> QED
  BY <1>1, <1>2, <1>3, <1>4, SixteenNumbers

\* from 0x20
LEMMA SameRow20 ==
    \A k \in 1 .. 16 : Row20[k] = Arch!Unprefixed(0, (k - 1) \div 8 + 4, (k - 1) % 8)
<1>1. /\ Row20[1] = Arch!Unprefixed(0, 4, 0)
      /\ Row20[2] = Arch!Unprefixed(0, 4, 1)
      /\ Row20[3] = Arch!Unprefixed(0, 4, 2)
      /\ Row20[4] = Arch!Unprefixed(0, 4, 3)
  BY SMT DEF Row20, One, On, Of, Restart, Instr, Arch!Unprefixed, Arch!Conditions, Arch!Eight, Arch!Instr
<1>2. /\ Row20[5] = Arch!Unprefixed(0, 4, 4)
      /\ Row20[6] = Arch!Unprefixed(0, 4, 5)
      /\ Row20[7] = Arch!Unprefixed(0, 4, 6)
      /\ Row20[8] = Arch!Unprefixed(0, 4, 7)
  BY SMT DEF Row20, One, On, Of, Restart, Instr, Arch!Unprefixed, Arch!Conditions, Arch!Eight, Arch!Instr
<1>3. /\ Row20[9] = Arch!Unprefixed(0, 5, 0)
      /\ Row20[10] = Arch!Unprefixed(0, 5, 1)
      /\ Row20[11] = Arch!Unprefixed(0, 5, 2)
      /\ Row20[12] = Arch!Unprefixed(0, 5, 3)
  BY SMT DEF Row20, One, On, Of, Restart, Instr, Arch!Unprefixed, Arch!Conditions, Arch!Eight, Arch!Instr
<1>4. /\ Row20[13] = Arch!Unprefixed(0, 5, 4)
      /\ Row20[14] = Arch!Unprefixed(0, 5, 5)
      /\ Row20[15] = Arch!Unprefixed(0, 5, 6)
      /\ Row20[16] = Arch!Unprefixed(0, 5, 7)
  BY SMT DEF Row20, One, On, Of, Restart, Instr, Arch!Unprefixed, Arch!Conditions, Arch!Eight, Arch!Instr
<1> QED
  BY <1>1, <1>2, <1>3, <1>4, SixteenNumbers

\* and from 0x30.
LEMMA SameRow30 ==
    \A k \in 1 .. 16 : Row30[k] = Arch!Unprefixed(0, (k - 1) \div 8 + 6, (k - 1) % 8)
<1>1. /\ Row30[1] = Arch!Unprefixed(0, 6, 0)
      /\ Row30[2] = Arch!Unprefixed(0, 6, 1)
      /\ Row30[3] = Arch!Unprefixed(0, 6, 2)
      /\ Row30[4] = Arch!Unprefixed(0, 6, 3)
  BY SMT DEF Row30, One, On, Of, Restart, Instr, Arch!Unprefixed, Arch!Conditions, Arch!Eight, Arch!Instr
<1>2. /\ Row30[5] = Arch!Unprefixed(0, 6, 4)
      /\ Row30[6] = Arch!Unprefixed(0, 6, 5)
      /\ Row30[7] = Arch!Unprefixed(0, 6, 6)
      /\ Row30[8] = Arch!Unprefixed(0, 6, 7)
  BY SMT DEF Row30, One, On, Of, Restart, Instr, Arch!Unprefixed, Arch!Conditions, Arch!Eight, Arch!Instr
<1>3. /\ Row30[9] = Arch!Unprefixed(0, 7, 0)
      /\ Row30[10] = Arch!Unprefixed(0, 7, 1)
      /\ Row30[11] = Arch!Unprefixed(0, 7, 2)
      /\ Row30[12] = Arch!Unprefixed(0, 7, 3)
  BY SMT DEF Row30, One, On, Of, Restart, Instr, Arch!Unprefixed, Arch!Conditions, Arch!Eight, Arch!Instr
<1>4. /\ Row30[13] = Arch!Unprefixed(0, 7, 4)
      /\ Row30[14] = Arch!Unprefixed(0, 7, 5)
      /\ Row30[15] = Arch!Unprefixed(0, 7, 6)
      /\ Row30[16] = Arch!Unprefixed(0, 7, 7)
  BY SMT DEF Row30, One, On, Of, Restart, Instr, Arch!Unprefixed, Arch!Conditions, Arch!Eight, Arch!Instr
<1> QED
  BY <1>1, <1>2, <1>3, <1>4, SixteenNumbers

\* The row of the opcodes from 0xC0, the returns, jumps and calls,
LEMMA SameRowC0 ==
    \A k \in 1 .. 16 : RowC0[k] = Arch!Unprefixed(3, (k - 1) \div 8 + 0, (k - 1) % 8)
<1>1. /\ RowC0[1] = Arch!Unprefixed(3, 0, 0)
      /\ RowC0[2] = Arch!Unprefixed(3, 0, 1)
      /\ RowC0[3] = Arch!Unprefixed(3, 0, 2)
      /\ RowC0[4] = Arch!Unprefixed(3, 0, 3)
  BY SMT DEF RowC0, One, On, Of, Restart, Instr, Arch!Unprefixed, Arch!Conditions, Arch!Eight, Arch!Instr
<1>2. /\ RowC0[5] = Arch!Unprefixed(3, 0, 4)
      /\ RowC0[6] = Arch!Unprefixed(3, 0, 5)
      /\ RowC0[7] = Arch!Unprefixed(3, 0, 6)
      /\ RowC0[8] = Arch!Unprefixed(3, 0, 7)
  BY SMT DEF RowC0, One, On, Of, Restart, Instr, Arch!Unprefixed, Arch!Conditions, Arch!Eight, Arch!Instr
<1>3. /\ RowC0[9] = Arch!Unprefixed(3, 1, 0)
      /\ RowC0[10] = Arch!Unprefixed(3, 1, 1)
      /\ RowC0[11] = Arch!Unprefixed(3, 1, 2)
      /\ RowC0[12] = Arch!Unprefixed(3, 1, 3)
  BY SMT DEF RowC0, One, On, Of, Restart, Instr, Arch!Unprefixed, Arch!Conditions, Arch!Eight, Arch!Instr
<1>4. /\ RowC0[13] = Arch!Unprefixed(3, 1, 4)
      /\ RowC0[14] = Arch!Unprefixed(3, 1, 5)
      /\ RowC0[15] = Arch!Unprefixed(3, 1, 6)
      /\ RowC0[16] = Arch!Unprefixed(3, 1, 7)
  BY SMT DEF RowC0, One, On, Of, Restart, Instr, Arch!Unprefixed, Arch!Conditions, Arch!Eight, Arch!Instr
<1> QED
  BY <1>1, <1>2, <1>3, <1>4, SixteenNumbers

\* from 0xD0,
LEMMA SameRowD0 ==
    \A k \in 1 .. 16 : RowD0[k] = Arch!Unprefixed(3, (k - 1) \div 8 + 2, (k - 1) % 8)
<1>1. /\ RowD0[1] = Arch!Unprefixed(3, 2, 0)
      /\ RowD0[2] = Arch!Unprefixed(3, 2, 1)
      /\ RowD0[3] = Arch!Unprefixed(3, 2, 2)
      /\ RowD0[4] = Arch!Unprefixed(3, 2, 3)
  BY SMT DEF RowD0, One, On, Of, Restart, Instr, Arch!Unprefixed, Arch!Conditions, Arch!Eight, Arch!Instr
<1>2. /\ RowD0[5] = Arch!Unprefixed(3, 2, 4)
      /\ RowD0[6] = Arch!Unprefixed(3, 2, 5)
      /\ RowD0[7] = Arch!Unprefixed(3, 2, 6)
      /\ RowD0[8] = Arch!Unprefixed(3, 2, 7)
  BY SMT DEF RowD0, One, On, Of, Restart, Instr, Arch!Unprefixed, Arch!Conditions, Arch!Eight, Arch!Instr
<1>3. /\ RowD0[9] = Arch!Unprefixed(3, 3, 0)
      /\ RowD0[10] = Arch!Unprefixed(3, 3, 1)
      /\ RowD0[11] = Arch!Unprefixed(3, 3, 2)
      /\ RowD0[12] = Arch!Unprefixed(3, 3, 3)
  BY SMT DEF RowD0, One, On, Of, Restart, Instr, Arch!Unprefixed, Arch!Conditions, Arch!Eight, Arch!Instr
<1>4. /\ RowD0[13] = Arch!Unprefixed(3, 3, 4)
      /\ RowD0[14] = Arch!Unprefixed(3, 3, 5)
      /\ RowD0[15] = Arch!Unprefixed(3, 3, 6)
      /\ RowD0[16] = Arch!Unprefixed(3, 3, 7)
  BY SMT DEF RowD0, One, On, Of, Restart, Instr, Arch!Unprefixed, Arch!Conditions, Arch!Eight, Arch!Instr
<1> QED
  BY <1>1, <1>2, <1>3, <1>4, SixteenNumbers

\* from 0xE0
LEMMA SameRowE0 ==
    \A k \in 1 .. 16 : RowE0[k] = Arch!Unprefixed(3, (k - 1) \div 8 + 4, (k - 1) % 8)
<1>1. /\ RowE0[1] = Arch!Unprefixed(3, 4, 0)
      /\ RowE0[2] = Arch!Unprefixed(3, 4, 1)
      /\ RowE0[3] = Arch!Unprefixed(3, 4, 2)
      /\ RowE0[4] = Arch!Unprefixed(3, 4, 3)
  BY SMT DEF RowE0, One, On, Of, Restart, Instr, Arch!Unprefixed, Arch!Conditions, Arch!Eight, Arch!Instr
<1>2. /\ RowE0[5] = Arch!Unprefixed(3, 4, 4)
      /\ RowE0[6] = Arch!Unprefixed(3, 4, 5)
      /\ RowE0[7] = Arch!Unprefixed(3, 4, 6)
      /\ RowE0[8] = Arch!Unprefixed(3, 4, 7)
  BY SMT DEF RowE0, One, On, Of, Restart, Instr, Arch!Unprefixed, Arch!Conditions, Arch!Eight, Arch!Instr
<1>3. /\ RowE0[9] = Arch!Unprefixed(3, 5, 0)
      /\ RowE0[10] = Arch!Unprefixed(3, 5, 1)
      /\ RowE0[11] = Arch!Unprefixed(3, 5, 2)
      /\ RowE0[12] = Arch!Unprefixed(3, 5, 3)
  BY SMT DEF RowE0, One, On, Of, Restart, Instr, Arch!Unprefixed, Arch!Conditions, Arch!Eight, Arch!Instr
<1>4. /\ RowE0[13] = Arch!Unprefixed(3, 5, 4)
      /\ RowE0[14] = Arch!Unprefixed(3, 5, 5)
      /\ RowE0[15] = Arch!Unprefixed(3, 5, 6)
      /\ RowE0[16] = Arch!Unprefixed(3, 5, 7)
  BY SMT DEF RowE0, One, On, Of, Restart, Instr, Arch!Unprefixed, Arch!Conditions, Arch!Eight, Arch!Instr
<1> QED
  BY <1>1, <1>2, <1>3, <1>4, SixteenNumbers

\* and from 0xF0.
LEMMA SameRowF0 ==
    \A k \in 1 .. 16 : RowF0[k] = Arch!Unprefixed(3, (k - 1) \div 8 + 6, (k - 1) % 8)
<1>1. /\ RowF0[1] = Arch!Unprefixed(3, 6, 0)
      /\ RowF0[2] = Arch!Unprefixed(3, 6, 1)
      /\ RowF0[3] = Arch!Unprefixed(3, 6, 2)
      /\ RowF0[4] = Arch!Unprefixed(3, 6, 3)
  BY SMT DEF RowF0, One, On, Of, Restart, Instr, Arch!Unprefixed, Arch!Conditions, Arch!Eight, Arch!Instr
<1>2. /\ RowF0[5] = Arch!Unprefixed(3, 6, 4)
      /\ RowF0[6] = Arch!Unprefixed(3, 6, 5)
      /\ RowF0[7] = Arch!Unprefixed(3, 6, 6)
      /\ RowF0[8] = Arch!Unprefixed(3, 6, 7)
  BY SMT DEF RowF0, One, On, Of, Restart, Instr, Arch!Unprefixed, Arch!Conditions, Arch!Eight, Arch!Instr
<1>3. /\ RowF0[9] = Arch!Unprefixed(3, 7, 0)
      /\ RowF0[10] = Arch!Unprefixed(3, 7, 1)
      /\ RowF0[11] = Arch!Unprefixed(3, 7, 2)
      /\ RowF0[12] = Arch!Unprefixed(3, 7, 3)
  BY SMT DEF RowF0, One, On, Of, Restart, Instr, Arch!Unprefixed, Arch!Conditions, Arch!Eight, Arch!Instr
<1>4. /\ RowF0[13] = Arch!Unprefixed(3, 7, 4)
      /\ RowF0[14] = Arch!Unprefixed(3, 7, 5)
      /\ RowF0[15] = Arch!Unprefixed(3, 7, 6)
      /\ RowF0[16] = Arch!Unprefixed(3, 7, 7)
  BY SMT DEF RowF0, One, On, Of, Restart, Instr, Arch!Unprefixed, Arch!Conditions, Arch!Eight, Arch!Instr
<1> QED
  BY <1>1, <1>2, <1>3, <1>4, SixteenNumbers

-----------------------------------------------------------------------------
(* Decoding: the opcodes behind ED.                                        *)

\* The values of three bits, one by one.
LEMMA EightNumbers ==
    ASSUME NEW k \in 0 .. 7
    PROVE  k = 0 \/ k = 1 \/ k = 2 \/ k = 3 \/ k = 4 \/ k = 5 \/ k = 6 \/ k = 7
OBVIOUS

\* The opcodes behind ED from 0x40 to 0x7F, as the manual groups them,
LEMMA SameEd1 ==
    \A y, z \in 0 .. 7 : Extended(64 + 8 * y + z) = Arch!EdGroup(1, y, z)
<1>1. \A z \in 0 .. 7 : Extended(64 + z) = Arch!EdGroup(1, 0, z)
  <2>1. /\ Extended(64) = Arch!EdGroup(1, 0, 0)
        /\ Extended(65) = Arch!EdGroup(1, 0, 1)
        /\ Extended(66) = Arch!EdGroup(1, 0, 2)
        /\ Extended(67) = Arch!EdGroup(1, 0, 3)
    BY SMT DEF Extended, EdRows40, EdNegRet, EdRows60, EdBlocks,
        One, On, Of, Instr, Arch!EdGroup, Arch!Eight, Arch!Instr
  <2>2. /\ Extended(68) = Arch!EdGroup(1, 0, 4)
        /\ Extended(69) = Arch!EdGroup(1, 0, 5)
        /\ Extended(70) = Arch!EdGroup(1, 0, 6)
        /\ Extended(71) = Arch!EdGroup(1, 0, 7)
    BY SMT DEF Extended, EdRows40, EdNegRet, EdRows60, EdBlocks,
        One, On, Of, Instr, Arch!EdGroup, Arch!Eight, Arch!Instr
  <2> QED
    BY <2>1, <2>2, EightNumbers
<1>2. \A z \in 0 .. 7 : Extended(72 + z) = Arch!EdGroup(1, 1, z)
  <2>1. /\ Extended(72) = Arch!EdGroup(1, 1, 0)
        /\ Extended(73) = Arch!EdGroup(1, 1, 1)
        /\ Extended(74) = Arch!EdGroup(1, 1, 2)
        /\ Extended(75) = Arch!EdGroup(1, 1, 3)
    BY SMT DEF Extended, EdRows40, EdNegRet, EdRows60, EdBlocks,
        One, On, Of, Instr, Arch!EdGroup, Arch!Eight, Arch!Instr
  <2>2. /\ Extended(76) = Arch!EdGroup(1, 1, 4)
        /\ Extended(77) = Arch!EdGroup(1, 1, 5)
        /\ Extended(78) = Arch!EdGroup(1, 1, 6)
        /\ Extended(79) = Arch!EdGroup(1, 1, 7)
    BY SMT DEF Extended, EdRows40, EdNegRet, EdRows60, EdBlocks,
        One, On, Of, Instr, Arch!EdGroup, Arch!Eight, Arch!Instr
  <2> QED
    BY <2>1, <2>2, EightNumbers
<1>3. \A z \in 0 .. 7 : Extended(80 + z) = Arch!EdGroup(1, 2, z)
  <2>1. /\ Extended(80) = Arch!EdGroup(1, 2, 0)
        /\ Extended(81) = Arch!EdGroup(1, 2, 1)
        /\ Extended(82) = Arch!EdGroup(1, 2, 2)
        /\ Extended(83) = Arch!EdGroup(1, 2, 3)
    BY SMT DEF Extended, EdRows40, EdNegRet, EdRows60, EdBlocks,
        One, On, Of, Instr, Arch!EdGroup, Arch!Eight, Arch!Instr
  <2>2. /\ Extended(84) = Arch!EdGroup(1, 2, 4)
        /\ Extended(85) = Arch!EdGroup(1, 2, 5)
        /\ Extended(86) = Arch!EdGroup(1, 2, 6)
        /\ Extended(87) = Arch!EdGroup(1, 2, 7)
    BY SMT DEF Extended, EdRows40, EdNegRet, EdRows60, EdBlocks,
        One, On, Of, Instr, Arch!EdGroup, Arch!Eight, Arch!Instr
  <2> QED
    BY <2>1, <2>2, EightNumbers
<1>4. \A z \in 0 .. 7 : Extended(88 + z) = Arch!EdGroup(1, 3, z)
  <2>1. /\ Extended(88) = Arch!EdGroup(1, 3, 0)
        /\ Extended(89) = Arch!EdGroup(1, 3, 1)
        /\ Extended(90) = Arch!EdGroup(1, 3, 2)
        /\ Extended(91) = Arch!EdGroup(1, 3, 3)
    BY SMT DEF Extended, EdRows40, EdNegRet, EdRows60, EdBlocks,
        One, On, Of, Instr, Arch!EdGroup, Arch!Eight, Arch!Instr
  <2>2. /\ Extended(92) = Arch!EdGroup(1, 3, 4)
        /\ Extended(93) = Arch!EdGroup(1, 3, 5)
        /\ Extended(94) = Arch!EdGroup(1, 3, 6)
        /\ Extended(95) = Arch!EdGroup(1, 3, 7)
    BY SMT DEF Extended, EdRows40, EdNegRet, EdRows60, EdBlocks,
        One, On, Of, Instr, Arch!EdGroup, Arch!Eight, Arch!Instr
  <2> QED
    BY <2>1, <2>2, EightNumbers
<1>5. \A z \in 0 .. 7 : Extended(96 + z) = Arch!EdGroup(1, 4, z)
  <2>1. /\ Extended(96) = Arch!EdGroup(1, 4, 0)
        /\ Extended(97) = Arch!EdGroup(1, 4, 1)
        /\ Extended(98) = Arch!EdGroup(1, 4, 2)
        /\ Extended(99) = Arch!EdGroup(1, 4, 3)
    BY SMT DEF Extended, EdRows40, EdNegRet, EdRows60, EdBlocks,
        One, On, Of, Instr, Arch!EdGroup, Arch!Eight, Arch!Instr
  <2>2. /\ Extended(100) = Arch!EdGroup(1, 4, 4)
        /\ Extended(101) = Arch!EdGroup(1, 4, 5)
        /\ Extended(102) = Arch!EdGroup(1, 4, 6)
        /\ Extended(103) = Arch!EdGroup(1, 4, 7)
    BY SMT DEF Extended, EdRows40, EdNegRet, EdRows60, EdBlocks,
        One, On, Of, Instr, Arch!EdGroup, Arch!Eight, Arch!Instr
  <2> QED
    BY <2>1, <2>2, EightNumbers
<1>6. \A z \in 0 .. 7 : Extended(104 + z) = Arch!EdGroup(1, 5, z)
  <2>1. /\ Extended(104) = Arch!EdGroup(1, 5, 0)
        /\ Extended(105) = Arch!EdGroup(1, 5, 1)
        /\ Extended(106) = Arch!EdGroup(1, 5, 2)
        /\ Extended(107) = Arch!EdGroup(1, 5, 3)
    BY SMT DEF Extended, EdRows40, EdNegRet, EdRows60, EdBlocks,
        One, On, Of, Instr, Arch!EdGroup, Arch!Eight, Arch!Instr
  <2>2. /\ Extended(108) = Arch!EdGroup(1, 5, 4)
        /\ Extended(109) = Arch!EdGroup(1, 5, 5)
        /\ Extended(110) = Arch!EdGroup(1, 5, 6)
        /\ Extended(111) = Arch!EdGroup(1, 5, 7)
    BY SMT DEF Extended, EdRows40, EdNegRet, EdRows60, EdBlocks,
        One, On, Of, Instr, Arch!EdGroup, Arch!Eight, Arch!Instr
  <2> QED
    BY <2>1, <2>2, EightNumbers
<1>7. \A z \in 0 .. 7 : Extended(112 + z) = Arch!EdGroup(1, 6, z)
  <2>1. /\ Extended(112) = Arch!EdGroup(1, 6, 0)
        /\ Extended(113) = Arch!EdGroup(1, 6, 1)
        /\ Extended(114) = Arch!EdGroup(1, 6, 2)
        /\ Extended(115) = Arch!EdGroup(1, 6, 3)
    BY SMT DEF Extended, EdRows40, EdNegRet, EdRows60, EdBlocks,
        One, On, Of, Instr, Arch!EdGroup, Arch!Eight, Arch!Instr
  <2>2. /\ Extended(116) = Arch!EdGroup(1, 6, 4)
        /\ Extended(117) = Arch!EdGroup(1, 6, 5)
        /\ Extended(118) = Arch!EdGroup(1, 6, 6)
        /\ Extended(119) = Arch!EdGroup(1, 6, 7)
    BY SMT DEF Extended, EdRows40, EdNegRet, EdRows60, EdBlocks,
        One, On, Of, Instr, Arch!EdGroup, Arch!Eight, Arch!Instr
  <2> QED
    BY <2>1, <2>2, EightNumbers
<1>8. \A z \in 0 .. 7 : Extended(120 + z) = Arch!EdGroup(1, 7, z)
  <2>1. /\ Extended(120) = Arch!EdGroup(1, 7, 0)
        /\ Extended(121) = Arch!EdGroup(1, 7, 1)
        /\ Extended(122) = Arch!EdGroup(1, 7, 2)
        /\ Extended(123) = Arch!EdGroup(1, 7, 3)
    BY SMT DEF Extended, EdRows40, EdNegRet, EdRows60, EdBlocks,
        One, On, Of, Instr, Arch!EdGroup, Arch!Eight, Arch!Instr
  <2>2. /\ Extended(124) = Arch!EdGroup(1, 7, 4)
        /\ Extended(125) = Arch!EdGroup(1, 7, 5)
        /\ Extended(126) = Arch!EdGroup(1, 7, 6)
        /\ Extended(127) = Arch!EdGroup(1, 7, 7)
    BY SMT DEF Extended, EdRows40, EdNegRet, EdRows60, EdBlocks,
        One, On, Of, Instr, Arch!EdGroup, Arch!Eight, Arch!Instr
  <2> QED
    BY <2>1, <2>2, EightNumbers
<1> QED
  BY <1>1, <1>2, <1>3, <1>4, <1>5, <1>6, <1>7, <1>8, EightNumbers

\* and those from 0x80 to 0xBF, the block instructions.
LEMMA SameEd2 ==
    \A y, z \in 0 .. 7 : Extended(128 + 8 * y + z) = Arch!EdGroup(2, y, z)
<1>1. \A z \in 0 .. 7 : Extended(128 + z) = Arch!EdGroup(2, 0, z)
  <2>1. /\ Extended(128) = Arch!EdGroup(2, 0, 0)
        /\ Extended(129) = Arch!EdGroup(2, 0, 1)
        /\ Extended(130) = Arch!EdGroup(2, 0, 2)
        /\ Extended(131) = Arch!EdGroup(2, 0, 3)
    BY SMT DEF Extended, EdRows40, EdNegRet, EdRows60, EdBlocks,
        One, On, Of, Instr, Arch!EdGroup, Arch!Eight, Arch!Instr
  <2>2. /\ Extended(132) = Arch!EdGroup(2, 0, 4)
        /\ Extended(133) = Arch!EdGroup(2, 0, 5)
        /\ Extended(134) = Arch!EdGroup(2, 0, 6)
        /\ Extended(135) = Arch!EdGroup(2, 0, 7)
    BY SMT DEF Extended, EdRows40, EdNegRet, EdRows60, EdBlocks,
        One, On, Of, Instr, Arch!EdGroup, Arch!Eight, Arch!Instr
  <2> QED
    BY <2>1, <2>2, EightNumbers
<1>2. \A z \in 0 .. 7 : Extended(136 + z) = Arch!EdGroup(2, 1, z)
  <2>1. /\ Extended(136) = Arch!EdGroup(2, 1, 0)
        /\ Extended(137) = Arch!EdGroup(2, 1, 1)
        /\ Extended(138) = Arch!EdGroup(2, 1, 2)
        /\ Extended(139) = Arch!EdGroup(2, 1, 3)
    BY SMT DEF Extended, EdRows40, EdNegRet, EdRows60, EdBlocks,
        One, On, Of, Instr, Arch!EdGroup, Arch!Eight, Arch!Instr
  <2>2. /\ Extended(140) = Arch!EdGroup(2, 1, 4)
        /\ Extended(141) = Arch!EdGroup(2, 1, 5)
        /\ Extended(142) = Arch!EdGroup(2, 1, 6)
        /\ Extended(143) = Arch!EdGroup(2, 1, 7)
    BY SMT DEF Extended, EdRows40, EdNegRet, EdRows60, EdBlocks,
        One, On, Of, Instr, Arch!EdGroup, Arch!Eight, Arch!Instr
  <2> QED
    BY <2>1, <2>2, EightNumbers
<1>3. \A z \in 0 .. 7 : Extended(144 + z) = Arch!EdGroup(2, 2, z)
  <2>1. /\ Extended(144) = Arch!EdGroup(2, 2, 0)
        /\ Extended(145) = Arch!EdGroup(2, 2, 1)
        /\ Extended(146) = Arch!EdGroup(2, 2, 2)
        /\ Extended(147) = Arch!EdGroup(2, 2, 3)
    BY SMT DEF Extended, EdRows40, EdNegRet, EdRows60, EdBlocks,
        One, On, Of, Instr, Arch!EdGroup, Arch!Eight, Arch!Instr
  <2>2. /\ Extended(148) = Arch!EdGroup(2, 2, 4)
        /\ Extended(149) = Arch!EdGroup(2, 2, 5)
        /\ Extended(150) = Arch!EdGroup(2, 2, 6)
        /\ Extended(151) = Arch!EdGroup(2, 2, 7)
    BY SMT DEF Extended, EdRows40, EdNegRet, EdRows60, EdBlocks,
        One, On, Of, Instr, Arch!EdGroup, Arch!Eight, Arch!Instr
  <2> QED
    BY <2>1, <2>2, EightNumbers
<1>4. \A z \in 0 .. 7 : Extended(152 + z) = Arch!EdGroup(2, 3, z)
  <2>1. /\ Extended(152) = Arch!EdGroup(2, 3, 0)
        /\ Extended(153) = Arch!EdGroup(2, 3, 1)
        /\ Extended(154) = Arch!EdGroup(2, 3, 2)
        /\ Extended(155) = Arch!EdGroup(2, 3, 3)
    BY SMT DEF Extended, EdRows40, EdNegRet, EdRows60, EdBlocks,
        One, On, Of, Instr, Arch!EdGroup, Arch!Eight, Arch!Instr
  <2>2. /\ Extended(156) = Arch!EdGroup(2, 3, 4)
        /\ Extended(157) = Arch!EdGroup(2, 3, 5)
        /\ Extended(158) = Arch!EdGroup(2, 3, 6)
        /\ Extended(159) = Arch!EdGroup(2, 3, 7)
    BY SMT DEF Extended, EdRows40, EdNegRet, EdRows60, EdBlocks,
        One, On, Of, Instr, Arch!EdGroup, Arch!Eight, Arch!Instr
  <2> QED
    BY <2>1, <2>2, EightNumbers
<1>5. \A z \in 0 .. 7 : Extended(160 + z) = Arch!EdGroup(2, 4, z)
  <2>1. /\ Extended(160) = Arch!EdGroup(2, 4, 0)
        /\ Extended(161) = Arch!EdGroup(2, 4, 1)
        /\ Extended(162) = Arch!EdGroup(2, 4, 2)
        /\ Extended(163) = Arch!EdGroup(2, 4, 3)
    BY SMT DEF Extended, EdRows40, EdNegRet, EdRows60, EdBlocks,
        One, On, Of, Instr, Arch!EdGroup, Arch!Eight, Arch!Instr
  <2>2. /\ Extended(164) = Arch!EdGroup(2, 4, 4)
        /\ Extended(165) = Arch!EdGroup(2, 4, 5)
        /\ Extended(166) = Arch!EdGroup(2, 4, 6)
        /\ Extended(167) = Arch!EdGroup(2, 4, 7)
    BY SMT DEF Extended, EdRows40, EdNegRet, EdRows60, EdBlocks,
        One, On, Of, Instr, Arch!EdGroup, Arch!Eight, Arch!Instr
  <2> QED
    BY <2>1, <2>2, EightNumbers
<1>6. \A z \in 0 .. 7 : Extended(168 + z) = Arch!EdGroup(2, 5, z)
  <2>1. /\ Extended(168) = Arch!EdGroup(2, 5, 0)
        /\ Extended(169) = Arch!EdGroup(2, 5, 1)
        /\ Extended(170) = Arch!EdGroup(2, 5, 2)
        /\ Extended(171) = Arch!EdGroup(2, 5, 3)
    BY SMT DEF Extended, EdRows40, EdNegRet, EdRows60, EdBlocks,
        One, On, Of, Instr, Arch!EdGroup, Arch!Eight, Arch!Instr
  <2>2. /\ Extended(172) = Arch!EdGroup(2, 5, 4)
        /\ Extended(173) = Arch!EdGroup(2, 5, 5)
        /\ Extended(174) = Arch!EdGroup(2, 5, 6)
        /\ Extended(175) = Arch!EdGroup(2, 5, 7)
    BY SMT DEF Extended, EdRows40, EdNegRet, EdRows60, EdBlocks,
        One, On, Of, Instr, Arch!EdGroup, Arch!Eight, Arch!Instr
  <2> QED
    BY <2>1, <2>2, EightNumbers
<1>7. \A z \in 0 .. 7 : Extended(176 + z) = Arch!EdGroup(2, 6, z)
  <2>1. /\ Extended(176) = Arch!EdGroup(2, 6, 0)
        /\ Extended(177) = Arch!EdGroup(2, 6, 1)
        /\ Extended(178) = Arch!EdGroup(2, 6, 2)
        /\ Extended(179) = Arch!EdGroup(2, 6, 3)
    BY SMT DEF Extended, EdRows40, EdNegRet, EdRows60, EdBlocks,
        One, On, Of, Instr, Arch!EdGroup, Arch!Eight, Arch!Instr
  <2>2. /\ Extended(180) = Arch!EdGroup(2, 6, 4)
        /\ Extended(181) = Arch!EdGroup(2, 6, 5)
        /\ Extended(182) = Arch!EdGroup(2, 6, 6)
        /\ Extended(183) = Arch!EdGroup(2, 6, 7)
    BY SMT DEF Extended, EdRows40, EdNegRet, EdRows60, EdBlocks,
        One, On, Of, Instr, Arch!EdGroup, Arch!Eight, Arch!Instr
  <2> QED
    BY <2>1, <2>2, EightNumbers
<1>8. \A z \in 0 .. 7 : Extended(184 + z) = Arch!EdGroup(2, 7, z)
  <2>1. /\ Extended(184) = Arch!EdGroup(2, 7, 0)
        /\ Extended(185) = Arch!EdGroup(2, 7, 1)
        /\ Extended(186) = Arch!EdGroup(2, 7, 2)
        /\ Extended(187) = Arch!EdGroup(2, 7, 3)
    BY SMT DEF Extended, EdRows40, EdNegRet, EdRows60, EdBlocks,
        One, On, Of, Instr, Arch!EdGroup, Arch!Eight, Arch!Instr
  <2>2. /\ Extended(188) = Arch!EdGroup(2, 7, 4)
        /\ Extended(189) = Arch!EdGroup(2, 7, 5)
        /\ Extended(190) = Arch!EdGroup(2, 7, 6)
        /\ Extended(191) = Arch!EdGroup(2, 7, 7)
    BY SMT DEF Extended, EdRows40, EdNegRet, EdRows60, EdBlocks,
        One, On, Of, Instr, Arch!EdGroup, Arch!Eight, Arch!Instr
  <2> QED
    BY <2>1, <2>2, EightNumbers
<1> QED
  BY <1>1, <1>2, <1>3, <1>4, <1>5, <1>6, <1>7, <1>8, EightNumbers

\* An operand with HL, its halves or the memory at HL replaced by those of an
\* index register, and what an opcode means behind the prefix of that
\* register: nothing, where it names none of these.
Rename(o, x, y, I) ==
    CASE o = "HL" -> I
      [] o = "(HL)" -> (IF I = "IX" THEN "(IX)" ELSE "(IY)")
      [] o = "H" /\ "(HL)" \notin {x, y} -> (IF I = "IX" THEN "IXH" ELSE "IYH")
      [] o = "L" /\ "(HL)" \notin {x, y} -> (IF I = "IX" THEN "IXL" ELSE "IYL")
      [] OTHER -> o
Indexed(plain, I) ==
    IF plain.op = "prefix" \/ Arch!InPlaceOfHL(plain, I) = plain
    THEN Instr("NOP", "", "", 0, 0) ELSE Arch!InPlaceOfHL(plain, I)

\* The parts of an instruction put together from them.
LEMMA InstrFields ==
    ASSUME NEW op, NEW x, NEW y, NEW d, NEW n
    PROVE  LET i == Instr(op, x, y, d, n)
           IN  i.op = op /\ i.x = x /\ i.y = y /\ i.d = d /\ i.n = n
BY DEF Instr

\* The manual's replacement of HL, operand by operand.
LEMMA SameRename ==
    ASSUME NEW op, NEW x, NEW y, NEW n, NEW I \in {"IX", "IY"}
    PROVE  Arch!InPlaceOfHL(Instr(op, x, y, 0, n), I)
             = IF op = "EX" /\ x = "DE" THEN Instr(op, x, y, 0, n)
               ELSE Instr(op, Rename(x, x, y, I), Rename(y, x, y, I), 0, n)
<1> DEFINE j == Instr(op, x, y, 0, n)
           half == [h \in {"H", "L"} |-> IF I = "IX" THEN IF h = "H" THEN "IXH" ELSE "IXL"
                                                     ELSE IF h = "H" THEN "IYH" ELSE "IYL"]
           pointed == IF I = "IX" THEN "(IX)" ELSE "(IY)"
           Named(o) == CASE o = "HL" -> I
                      [] o = "(HL)" -> pointed
                      [] o \in {"H", "L"} /\ "(HL)" \notin {j.x, j.y} -> half[o]
                      [] OTHER -> o
<1>1. j.op = op /\ j.x = x /\ j.y = y
  BY InstrFields
<1>2. Arch!InPlaceOfHL(j, I) = IF j.op = "EX" /\ j.x = "DE" THEN j
                               ELSE [j EXCEPT !.x = Named(j.x), !.y = Named(j.y)]
  BY DEF Arch!InPlaceOfHL
<1> HIDE DEF j
<1>3. half["H"] = (IF I = "IX" THEN "IXH" ELSE "IYH") /\ half["L"] = (IF I = "IX" THEN "IXL" ELSE "IYL")
  OBVIOUS
<1> HIDE DEF half
<1>4. ASSUME NEW o PROVE Named(o) = Rename(o, x, y, I)
  BY <1>1, <1>3 DEF Rename
<1> HIDE DEF Named
<1>5. ASSUME NEW a, NEW b
      PROVE  [j EXCEPT !.x = a, !.y = b] = Instr(op, a, b, 0, n)
  <2> DEFINE k == [j EXCEPT !.x = a]
  <2>1. k = Instr(op, a, y, 0, n)
    BY DEF j, Instr
  <2>2. [j EXCEPT !.x = a, !.y = b] = [k EXCEPT !.y = b]
    OBVIOUS
  <2> HIDE DEF k
  <2>3. [k EXCEPT !.y = b] = Instr(op, a, b, 0, n)
    BY <2>1 DEF Instr
  <2> QED
    BY <2>2, <2>3
<1>6. Arch!InPlaceOfHL(j, I) = IF op = "EX" /\ x = "DE" THEN j
                               ELSE [j EXCEPT !.x = Named(x), !.y = Named(y)]
  BY <1>1, <1>2
<1>7. [j EXCEPT !.x = Named(x), !.y = Named(y)]
        = Instr(op, Rename(x, x, y, I), Rename(y, x, y, I), 0, n)
  BY <1>4, <1>5
<1> QED
  BY <1>6, <1>7 DEF j

\* Two instructions with the same operation are the same when their operands
\* are.
LEMMA SameInstr ==
    ASSUME NEW op, NEW x, NEW y, NEW n, NEW x2, NEW y2
    PROVE  Instr(op, x, y, 0, n) = Instr(op, x2, y2, 0, n) <=> x = x2 /\ y = y2
<1>1. ASSUME Instr(op, x, y, 0, n) = Instr(op, x2, y2, 0, n) PROVE x = x2 /\ y = y2
  BY <1>1, InstrFields
<1> QED BY <1>1

\* A plain instruction whose operands are taken for a and b.
LEMMA Taken ==
    ASSUME NEW op, NEW x, NEW y, NEW n, NEW I \in {"IX", "IY"}, NEW a, NEW b,
           a = Rename(x, x, y, I), b = Rename(y, x, y, I), op # "prefix", ~ (op = "EX" /\ x = "DE"),
           ~ (a = x /\ b = y)
    PROVE  Indexed(Instr(op, x, y, 0, n), I) = Instr(op, a, b, 0, n)
<1> DEFINE j == Instr(op, x, y, 0, n)
           k == Arch!InPlaceOfHL(j, I)
           new == Instr(op, a, b, 0, n)
<1>1. j.op = op
  BY InstrFields
<1>2. k = new
  BY SameRename
<1>3. new # j
  BY SameInstr
<1>4. Indexed(j, I) = IF j.op = "prefix" \/ k = j THEN Instr("NOP", "", "", 0, 0) ELSE k
  BY DEF Indexed
<1> HIDE DEF j, k, new
<1>5. Indexed(j, I) = new
  BY <1>1, <1>2, <1>3, <1>4
<1> QED
  BY <1>5 DEF j, new

\* The operands an index prefix replaces.
Moved == {"HL", "(HL)", "H", "L"}

\* An instruction that names none of them is none behind the prefix.
LEMMA TakenNot ==
    ASSUME NEW op, NEW x, NEW y, NEW n, NEW I \in {"IX", "IY"}, x \notin Moved, y \notin Moved
    PROVE  Indexed(Instr(op, x, y, 0, n), I) = Instr("NOP", "", "", 0, 0)
<1> DEFINE j == Instr(op, x, y, 0, n)
           k == Arch!InPlaceOfHL(j, I)
           nothing == Instr("NOP", "", "", 0, 0)
<1>1. x = Rename(x, x, y, I) /\ y = Rename(y, x, y, I)
  BY DEF Moved, Rename
<1>2. k = j
  BY <1>1, SameRename
<1>4. Indexed(j, I) = IF j.op = "prefix" \/ k = j THEN nothing ELSE k
  BY DEF Indexed
<1> HIDE DEF j, k, nothing
<1>5. Indexed(j, I) = nothing
  BY <1>2, <1>4
<1> QED
  BY <1>5 DEF j, nothing

\* Nor are the prefixes and EX DE,HL, which knows no index register.
LEMMA TakenNever ==
    ASSUME NEW op, NEW x, NEW y, NEW n, NEW I \in {"IX", "IY"}, op = "prefix" \/ (op = "EX" /\ x = "DE")
    PROVE  Indexed(Instr(op, x, y, 0, n), I) = Instr("NOP", "", "", 0, 0)
<1> DEFINE j == Instr(op, x, y, 0, n)
           k == Arch!InPlaceOfHL(j, I)
           nothing == Instr("NOP", "", "", 0, 0)
<1>1. j.op = op
  BY InstrFields
<1>2. op = "EX" /\ x = "DE" => k = j
  BY SameRename
<1>4. Indexed(j, I) = IF j.op = "prefix" \/ k = j THEN nothing ELSE k
  BY DEF Indexed
<1> HIDE DEF j, k, nothing
<1>5. Indexed(j, I) = nothing
  BY <1>1, <1>2, <1>4
<1> QED
  BY <1>5 DEF j, nothing

\* The memory at an index register, and its halves.
Pointed(I) == IF I = "IX" THEN "(IX)" ELSE "(IY)"
HalfOf(z, I) == IF I = "IX" THEN IF z = "H" THEN "IXH" ELSE "IXL"
                            ELSE IF z = "H" THEN "IYH" ELSE "IYL"

\* A prefix behind a prefix is none.
LEMMA TakenPrefix ==
    ASSUME NEW x, NEW y, NEW n, NEW I \in {"IX", "IY"}
    PROVE  Indexed(Instr("prefix", x, y, 0, n), I) = Instr("NOP", "", "", 0, 0)
<1> DEFINE j == Instr("prefix", x, y, 0, n)
           k == Arch!InPlaceOfHL(j, I)
           nothing == Instr("NOP", "", "", 0, 0)
<1>1. j.op = "prefix"
  BY InstrFields
<1>2. Indexed(j, I) = IF j.op = "prefix" \/ k = j THEN nothing ELSE k
  BY DEF Indexed
<1> HIDE DEF j, k, nothing
<1>3. Indexed(j, I) = nothing
  BY <1>1, <1>2
<1> QED
  BY <1>3 DEF j, nothing

\* HL on the left becomes the index register,
LEMMA TakenFirst ==
    ASSUME NEW op, NEW z, NEW n, NEW I \in {"IX", "IY"}, z \notin Moved, op # "prefix"
    PROVE  Indexed(Instr(op, "HL", z, 0, n), I) = Instr(op, I, z, 0, n)
<1>1. I = Rename("HL", "HL", z, I) /\ z = Rename(z, "HL", z, I)
  BY DEF Rename, Moved
<1> QED
  BY <1>1, Taken

\* and on the right,
LEMMA TakenLast ==
    ASSUME NEW op, NEW z, NEW n, NEW I \in {"IX", "IY"}, z \notin Moved, op # "prefix", z # "DE"
    PROVE  Indexed(Instr(op, z, "HL", 0, n), I) = Instr(op, z, I, 0, n)
<1>1. z = Rename(z, z, "HL", I) /\ I = Rename("HL", z, "HL", I)
  BY DEF Rename, Moved
<1> QED
  BY <1>1, Taken

\* and on both sides.
LEMMA TakenBoth ==
    ASSUME NEW op, NEW n, NEW I \in {"IX", "IY"}, op # "prefix"
    PROVE  Indexed(Instr(op, "HL", "HL", 0, n), I) = Instr(op, I, I, 0, n)
<1>1. I = Rename("HL", "HL", "HL", I)
  BY DEF Rename
<1> QED
  BY <1>1, Taken

\* (HL) becomes the memory at the index register.
LEMMA TakenAt ==
    ASSUME NEW op, NEW z, NEW n, NEW I \in {"IX", "IY"}, z \notin Moved, op \notin {"prefix", "EX"}
    PROVE  Indexed(Instr(op, "(HL)", z, 0, n), I) = Instr(op, Pointed(I), z, 0, n)
<1>1. Pointed(I) = Rename("(HL)", "(HL)", z, I) /\ z = Rename(z, "(HL)", z, I) /\ Pointed(I) # "(HL)"
  BY DEF Rename, Pointed, Moved
<1> QED
  BY <1>1, Taken

\* H and L become its halves.
LEMMA TakenHalf ==
    ASSUME NEW op, NEW z, NEW n, NEW I \in {"IX", "IY"}, NEW r \in {"H", "L"}, z \notin Moved,
           op \notin {"prefix", "EX"}
    PROVE  Indexed(Instr(op, r, z, 0, n), I) = Instr(op, HalfOf(r, I), z, 0, n)
<1>1. HalfOf(r, I) = Rename(r, r, z, I) /\ z = Rename(z, r, z, I) /\ HalfOf(r, I) # r
  BY DEF Rename, HalfOf, Moved
<1> QED
  BY <1>1, Taken

\* The cases of Z80run behind DD and FD, for one index register.
IndexTable(b, I) ==
    IndexWords(b, I, HalfOf("H", I), HalfOf("L", I), Pointed(I),
        IndexLoads(b, HalfOf("H", I), HalfOf("L", I), Pointed(I),
            IndexOnA(b, HalfOf("H", I), HalfOf("L", I), Pointed(I),
                IndexStack(b, I, One("NOP")))))

\* The two switches behind DD and FD are that table, once for IX and once for
\* IY.
LEMMA TwoTables ==
    ASSUME NEW b
    PROVE  DdTable(b) = IndexTable(b, "IX") /\ FdTable(b) = IndexTable(b, "IY")
<1>1. /\ HalfOf("H", "IX") = "IXH" /\ HalfOf("L", "IX") = "IXL" /\ Pointed("IX") = "(IX)"
      /\ HalfOf("H", "IY") = "IYH" /\ HalfOf("L", "IY") = "IYL" /\ Pointed("IY") = "(IY)"
  BY DEF HalfOf, Pointed
<1> QED
  BY <1>1, Zenon DEF IndexTable, DdTable, FdTable, DdWords, DdLoads, DdOnA, DdStack,
     FdWords, FdLoads, FdOnA, FdStack

\* The instruction an unknown opcode is run as.
Nothing == Instr("NOP", "", "", 0, 0)

\* Each row of opcodes behind an index prefix is the same row with the index
\* register for HL.
LEMMA Row00Taken ==
    ASSUME NEW I \in {"IX", "IY"}
    PROVE  \A k \in 1 .. 16 : Indexed(Row00[k], I) = IndexTable(k - 1, I)
<1>1. /\ Row00[1] = Instr("NOP", "", "", 0, 0)
      /\ Row00[2] = Instr("LDW", "BC", "nn", 0, 0)
      /\ Row00[3] = Instr("LD", "(BC)", "A", 0, 0)
      /\ Row00[4] = Instr("INCW", "BC", "", 0, 0)
  BY DEF Row00, One, On, Of, Restart
<1>2. /\ IndexTable(0, I) = Nothing
      /\ IndexTable(1, I) = Nothing
      /\ IndexTable(2, I) = Nothing
      /\ IndexTable(3, I) = Nothing
  BY SMT DEF IndexTable, IndexWords, IndexLoads, IndexOnA, IndexStack, Low3, Nothing, One, On, Of
<1>3. /\ Row00[5] = Instr("INC", "B", "", 0, 0)
      /\ Row00[6] = Instr("DEC", "B", "", 0, 0)
      /\ Row00[7] = Instr("LD", "B", "n", 0, 0)
      /\ Row00[8] = Instr("RLCA", "", "", 0, 0)
  BY DEF Row00, One, On, Of, Restart
<1>4. /\ IndexTable(4, I) = Nothing
      /\ IndexTable(5, I) = Nothing
      /\ IndexTable(6, I) = Nothing
      /\ IndexTable(7, I) = Nothing
  BY SMT DEF IndexTable, IndexWords, IndexLoads, IndexOnA, IndexStack, Low3, Nothing, One, On, Of
<1>5. /\ Row00[9] = Instr("EX", "AF", "", 0, 0)
      /\ Row00[10] = Instr("ADDW", "HL", "BC", 0, 0)
      /\ Row00[11] = Instr("LD", "A", "(BC)", 0, 0)
      /\ Row00[12] = Instr("DECW", "BC", "", 0, 0)
  BY DEF Row00, One, On, Of, Restart
<1>6. /\ IndexTable(8, I) = Nothing
      /\ IndexTable(9, I) = Instr("ADDW", I, "BC", 0, 0)
      /\ IndexTable(10, I) = Nothing
      /\ IndexTable(11, I) = Nothing
  BY SMT DEF IndexTable, IndexWords, IndexLoads, IndexOnA, IndexStack, Low3, Nothing, One, On, Of
<1>7. /\ Row00[13] = Instr("INC", "C", "", 0, 0)
      /\ Row00[14] = Instr("DEC", "C", "", 0, 0)
      /\ Row00[15] = Instr("LD", "C", "n", 0, 0)
      /\ Row00[16] = Instr("RRCA", "", "", 0, 0)
  BY DEF Row00, One, On, Of, Restart
<1>8. /\ IndexTable(12, I) = Nothing
      /\ IndexTable(13, I) = Nothing
      /\ IndexTable(14, I) = Nothing
      /\ IndexTable(15, I) = Nothing
  BY SMT DEF IndexTable, IndexWords, IndexLoads, IndexOnA, IndexStack, Low3, Nothing, One, On, Of
<1>9. /\ Indexed(Instr("DEC", "B", "", 0, 0), I) = Nothing
      /\ Indexed(Instr("DEC", "C", "", 0, 0), I) = Nothing
      /\ Indexed(Instr("DECW", "BC", "", 0, 0), I) = Nothing
      /\ Indexed(Instr("EX", "AF", "", 0, 0), I) = Nothing
  BY TakenNot DEF Moved, Nothing
<1>10. /\ Indexed(Instr("INC", "B", "", 0, 0), I) = Nothing
      /\ Indexed(Instr("INC", "C", "", 0, 0), I) = Nothing
      /\ Indexed(Instr("INCW", "BC", "", 0, 0), I) = Nothing
      /\ Indexed(Instr("LD", "(BC)", "A", 0, 0), I) = Nothing
  BY TakenNot DEF Moved, Nothing
<1>11. /\ Indexed(Instr("LD", "A", "(BC)", 0, 0), I) = Nothing
      /\ Indexed(Instr("LD", "B", "n", 0, 0), I) = Nothing
      /\ Indexed(Instr("LD", "C", "n", 0, 0), I) = Nothing
      /\ Indexed(Instr("LDW", "BC", "nn", 0, 0), I) = Nothing
  BY TakenNot DEF Moved, Nothing
<1>12. /\ Indexed(Instr("NOP", "", "", 0, 0), I) = Nothing
      /\ Indexed(Instr("RLCA", "", "", 0, 0), I) = Nothing
      /\ Indexed(Instr("RRCA", "", "", 0, 0), I) = Nothing
  BY TakenNot DEF Moved, Nothing
<1>13. Indexed(Instr("ADDW", "HL", "BC", 0, 0), I) = Instr("ADDW", I, "BC", 0, 0)
  BY TakenFirst DEF Moved
<1>14. /\ Indexed(Row00[1], I) = IndexTable(0, I)
      /\ Indexed(Row00[2], I) = IndexTable(1, I)
      /\ Indexed(Row00[3], I) = IndexTable(2, I)
      /\ Indexed(Row00[4], I) = IndexTable(3, I)
  BY <1>1, <1>2, <1>9, <1>10, <1>11, <1>12, <1>13
<1>15. /\ Indexed(Row00[5], I) = IndexTable(4, I)
      /\ Indexed(Row00[6], I) = IndexTable(5, I)
      /\ Indexed(Row00[7], I) = IndexTable(6, I)
      /\ Indexed(Row00[8], I) = IndexTable(7, I)
  BY <1>3, <1>4, <1>9, <1>10, <1>11, <1>12, <1>13
<1>16. /\ Indexed(Row00[9], I) = IndexTable(8, I)
      /\ Indexed(Row00[10], I) = IndexTable(9, I)
      /\ Indexed(Row00[11], I) = IndexTable(10, I)
      /\ Indexed(Row00[12], I) = IndexTable(11, I)
  BY <1>5, <1>6, <1>9, <1>10, <1>11, <1>12, <1>13
<1>17. /\ Indexed(Row00[13], I) = IndexTable(12, I)
      /\ Indexed(Row00[14], I) = IndexTable(13, I)
      /\ Indexed(Row00[15], I) = IndexTable(14, I)
      /\ Indexed(Row00[16], I) = IndexTable(15, I)
  BY <1>7, <1>8, <1>9, <1>10, <1>11, <1>12, <1>13
<1> QED
  BY <1>14, <1>15, <1>16, <1>17, SixteenNumbers

\* The row from 0x10.
LEMMA Row10Taken ==
    ASSUME NEW I \in {"IX", "IY"}
    PROVE  \A k \in 1 .. 16 : Indexed(Row10[k], I) = IndexTable(15 + k, I)
<1>1. /\ Row10[1] = Instr("DJNZ", "", "e", 0, 0)
      /\ Row10[2] = Instr("LDW", "DE", "nn", 0, 0)
      /\ Row10[3] = Instr("LD", "(DE)", "A", 0, 0)
      /\ Row10[4] = Instr("INCW", "DE", "", 0, 0)
  BY DEF Row10, One, On, Of, Restart
<1>2. /\ IndexTable(16, I) = Nothing
      /\ IndexTable(17, I) = Nothing
      /\ IndexTable(18, I) = Nothing
      /\ IndexTable(19, I) = Nothing
  BY SMT DEF IndexTable, IndexWords, IndexLoads, IndexOnA, IndexStack, Low3, Nothing, One, On, Of
<1>3. /\ Row10[5] = Instr("INC", "D", "", 0, 0)
      /\ Row10[6] = Instr("DEC", "D", "", 0, 0)
      /\ Row10[7] = Instr("LD", "D", "n", 0, 0)
      /\ Row10[8] = Instr("RLA", "", "", 0, 0)
  BY DEF Row10, One, On, Of, Restart
<1>4. /\ IndexTable(20, I) = Nothing
      /\ IndexTable(21, I) = Nothing
      /\ IndexTable(22, I) = Nothing
      /\ IndexTable(23, I) = Nothing
  BY SMT DEF IndexTable, IndexWords, IndexLoads, IndexOnA, IndexStack, Low3, Nothing, One, On, Of
<1>5. /\ Row10[9] = Instr("JR", "", "e", 0, 0)
      /\ Row10[10] = Instr("ADDW", "HL", "DE", 0, 0)
      /\ Row10[11] = Instr("LD", "A", "(DE)", 0, 0)
      /\ Row10[12] = Instr("DECW", "DE", "", 0, 0)
  BY DEF Row10, One, On, Of, Restart
<1>6. /\ IndexTable(24, I) = Nothing
      /\ IndexTable(25, I) = Instr("ADDW", I, "DE", 0, 0)
      /\ IndexTable(26, I) = Nothing
      /\ IndexTable(27, I) = Nothing
  BY SMT DEF IndexTable, IndexWords, IndexLoads, IndexOnA, IndexStack, Low3, Nothing, One, On, Of
<1>7. /\ Row10[13] = Instr("INC", "E", "", 0, 0)
      /\ Row10[14] = Instr("DEC", "E", "", 0, 0)
      /\ Row10[15] = Instr("LD", "E", "n", 0, 0)
      /\ Row10[16] = Instr("RRA", "", "", 0, 0)
  BY DEF Row10, One, On, Of, Restart
<1>8. /\ IndexTable(28, I) = Nothing
      /\ IndexTable(29, I) = Nothing
      /\ IndexTable(30, I) = Nothing
      /\ IndexTable(31, I) = Nothing
  BY SMT DEF IndexTable, IndexWords, IndexLoads, IndexOnA, IndexStack, Low3, Nothing, One, On, Of
<1>9. /\ Indexed(Instr("DEC", "D", "", 0, 0), I) = Nothing
      /\ Indexed(Instr("DEC", "E", "", 0, 0), I) = Nothing
      /\ Indexed(Instr("DECW", "DE", "", 0, 0), I) = Nothing
      /\ Indexed(Instr("DJNZ", "", "e", 0, 0), I) = Nothing
  BY TakenNot DEF Moved, Nothing
<1>10. /\ Indexed(Instr("INC", "D", "", 0, 0), I) = Nothing
      /\ Indexed(Instr("INC", "E", "", 0, 0), I) = Nothing
      /\ Indexed(Instr("INCW", "DE", "", 0, 0), I) = Nothing
      /\ Indexed(Instr("JR", "", "e", 0, 0), I) = Nothing
  BY TakenNot DEF Moved, Nothing
<1>11. /\ Indexed(Instr("LD", "(DE)", "A", 0, 0), I) = Nothing
      /\ Indexed(Instr("LD", "A", "(DE)", 0, 0), I) = Nothing
      /\ Indexed(Instr("LD", "D", "n", 0, 0), I) = Nothing
      /\ Indexed(Instr("LD", "E", "n", 0, 0), I) = Nothing
  BY TakenNot DEF Moved, Nothing
<1>12. /\ Indexed(Instr("LDW", "DE", "nn", 0, 0), I) = Nothing
      /\ Indexed(Instr("RLA", "", "", 0, 0), I) = Nothing
      /\ Indexed(Instr("RRA", "", "", 0, 0), I) = Nothing
  BY TakenNot DEF Moved, Nothing
<1>13. Indexed(Instr("ADDW", "HL", "DE", 0, 0), I) = Instr("ADDW", I, "DE", 0, 0)
  BY TakenFirst DEF Moved
<1>14. /\ Indexed(Row10[1], I) = IndexTable(16, I)
      /\ Indexed(Row10[2], I) = IndexTable(17, I)
      /\ Indexed(Row10[3], I) = IndexTable(18, I)
      /\ Indexed(Row10[4], I) = IndexTable(19, I)
  BY <1>1, <1>2, <1>9, <1>10, <1>11, <1>12, <1>13
<1>15. /\ Indexed(Row10[5], I) = IndexTable(20, I)
      /\ Indexed(Row10[6], I) = IndexTable(21, I)
      /\ Indexed(Row10[7], I) = IndexTable(22, I)
      /\ Indexed(Row10[8], I) = IndexTable(23, I)
  BY <1>3, <1>4, <1>9, <1>10, <1>11, <1>12, <1>13
<1>16. /\ Indexed(Row10[9], I) = IndexTable(24, I)
      /\ Indexed(Row10[10], I) = IndexTable(25, I)
      /\ Indexed(Row10[11], I) = IndexTable(26, I)
      /\ Indexed(Row10[12], I) = IndexTable(27, I)
  BY <1>5, <1>6, <1>9, <1>10, <1>11, <1>12, <1>13
<1>17. /\ Indexed(Row10[13], I) = IndexTable(28, I)
      /\ Indexed(Row10[14], I) = IndexTable(29, I)
      /\ Indexed(Row10[15], I) = IndexTable(30, I)
      /\ Indexed(Row10[16], I) = IndexTable(31, I)
  BY <1>7, <1>8, <1>9, <1>10, <1>11, <1>12, <1>13
<1> QED
  BY <1>14, <1>15, <1>16, <1>17, SixteenNumbers

\* The row from 0x20.
LEMMA Row20Taken ==
    ASSUME NEW I \in {"IX", "IY"}
    PROVE  \A k \in 1 .. 16 : Indexed(Row20[k], I) = IndexTable(31 + k, I)
<1>1. /\ Row20[1] = Instr("JR", "NZ", "e", 0, 0)
      /\ Row20[2] = Instr("LDW", "HL", "nn", 0, 0)
      /\ Row20[3] = Instr("LDW", "(nn)", "HL", 0, 0)
      /\ Row20[4] = Instr("INCW", "HL", "", 0, 0)
  BY DEF Row20, One, On, Of, Restart
<1>2. /\ IndexTable(32, I) = Nothing
      /\ IndexTable(33, I) = Instr("LDW", I, "nn", 0, 0)
      /\ IndexTable(34, I) = Instr("LDW", "(nn)", I, 0, 0)
      /\ IndexTable(35, I) = Instr("INCW", I, "", 0, 0)
  BY SMT DEF IndexTable, IndexWords, IndexLoads, IndexOnA, IndexStack, Low3, Nothing, One, On, Of
<1>3. /\ Row20[5] = Instr("INC", "H", "", 0, 0)
      /\ Row20[6] = Instr("DEC", "H", "", 0, 0)
      /\ Row20[7] = Instr("LD", "H", "n", 0, 0)
      /\ Row20[8] = Instr("DAA", "", "", 0, 0)
  BY DEF Row20, One, On, Of, Restart
<1>4. /\ IndexTable(36, I) = Instr("INC", HalfOf("H", I), "", 0, 0)
      /\ IndexTable(37, I) = Instr("DEC", HalfOf("H", I), "", 0, 0)
      /\ IndexTable(38, I) = Instr("LD", HalfOf("H", I), "n", 0, 0)
      /\ IndexTable(39, I) = Nothing
  BY SMT DEF IndexTable, IndexWords, IndexLoads, IndexOnA, IndexStack, Low3, Nothing, One, On, Of
<1>5. /\ Row20[9] = Instr("JR", "Z", "e", 0, 0)
      /\ Row20[10] = Instr("ADDW", "HL", "HL", 0, 0)
      /\ Row20[11] = Instr("LDW", "HL", "(nn)", 0, 0)
      /\ Row20[12] = Instr("DECW", "HL", "", 0, 0)
  BY DEF Row20, One, On, Of, Restart
<1>6. /\ IndexTable(40, I) = Nothing
      /\ IndexTable(41, I) = Instr("ADDW", I, I, 0, 0)
      /\ IndexTable(42, I) = Instr("LDW", I, "(nn)", 0, 0)
      /\ IndexTable(43, I) = Instr("DECW", I, "", 0, 0)
  BY SMT DEF IndexTable, IndexWords, IndexLoads, IndexOnA, IndexStack, Low3, Nothing, One, On, Of
<1>7. /\ Row20[13] = Instr("INC", "L", "", 0, 0)
      /\ Row20[14] = Instr("DEC", "L", "", 0, 0)
      /\ Row20[15] = Instr("LD", "L", "n", 0, 0)
      /\ Row20[16] = Instr("CPL", "", "", 0, 0)
  BY DEF Row20, One, On, Of, Restart
<1>8. /\ IndexTable(44, I) = Instr("INC", HalfOf("L", I), "", 0, 0)
      /\ IndexTable(45, I) = Instr("DEC", HalfOf("L", I), "", 0, 0)
      /\ IndexTable(46, I) = Instr("LD", HalfOf("L", I), "n", 0, 0)
      /\ IndexTable(47, I) = Nothing
  BY SMT DEF IndexTable, IndexWords, IndexLoads, IndexOnA, IndexStack, Low3, Nothing, One, On, Of
<1>9. /\ Indexed(Instr("CPL", "", "", 0, 0), I) = Nothing
      /\ Indexed(Instr("DAA", "", "", 0, 0), I) = Nothing
      /\ Indexed(Instr("JR", "NZ", "e", 0, 0), I) = Nothing
      /\ Indexed(Instr("JR", "Z", "e", 0, 0), I) = Nothing
  BY TakenNot DEF Moved, Nothing
<1>10. Indexed(Instr("LDW", "HL", "nn", 0, 0), I) = Instr("LDW", I, "nn", 0, 0)
  BY TakenFirst DEF Moved
<1>11. Indexed(Instr("LDW", "(nn)", "HL", 0, 0), I) = Instr("LDW", "(nn)", I, 0, 0)
  BY TakenLast DEF Moved
<1>12. Indexed(Instr("INCW", "HL", "", 0, 0), I) = Instr("INCW", I, "", 0, 0)
  BY TakenFirst DEF Moved
<1>13. Indexed(Instr("INC", "H", "", 0, 0), I) = Instr("INC", HalfOf("H", I), "", 0, 0)
  BY TakenHalf DEF Moved
<1>14. Indexed(Instr("DEC", "H", "", 0, 0), I) = Instr("DEC", HalfOf("H", I), "", 0, 0)
  BY TakenHalf DEF Moved
<1>15. Indexed(Instr("LD", "H", "n", 0, 0), I) = Instr("LD", HalfOf("H", I), "n", 0, 0)
  BY TakenHalf DEF Moved
<1>16. Indexed(Instr("ADDW", "HL", "HL", 0, 0), I) = Instr("ADDW", I, I, 0, 0)
  BY TakenBoth DEF Moved
<1>17. Indexed(Instr("LDW", "HL", "(nn)", 0, 0), I) = Instr("LDW", I, "(nn)", 0, 0)
  BY TakenFirst DEF Moved
<1>18. Indexed(Instr("DECW", "HL", "", 0, 0), I) = Instr("DECW", I, "", 0, 0)
  BY TakenFirst DEF Moved
<1>19. Indexed(Instr("INC", "L", "", 0, 0), I) = Instr("INC", HalfOf("L", I), "", 0, 0)
  BY TakenHalf DEF Moved
<1>20. Indexed(Instr("DEC", "L", "", 0, 0), I) = Instr("DEC", HalfOf("L", I), "", 0, 0)
  BY TakenHalf DEF Moved
<1>21. Indexed(Instr("LD", "L", "n", 0, 0), I) = Instr("LD", HalfOf("L", I), "n", 0, 0)
  BY TakenHalf DEF Moved
<1>22. /\ Indexed(Row20[1], I) = IndexTable(32, I)
      /\ Indexed(Row20[2], I) = IndexTable(33, I)
      /\ Indexed(Row20[3], I) = IndexTable(34, I)
      /\ Indexed(Row20[4], I) = IndexTable(35, I)
  BY <1>1, <1>2, <1>9, <1>10, <1>11, <1>12, <1>13, <1>14, <1>15, <1>16, <1>17, <1>18, <1>19, <1>20, <1>21
<1>23. /\ Indexed(Row20[5], I) = IndexTable(36, I)
      /\ Indexed(Row20[6], I) = IndexTable(37, I)
      /\ Indexed(Row20[7], I) = IndexTable(38, I)
      /\ Indexed(Row20[8], I) = IndexTable(39, I)
  BY <1>3, <1>4, <1>9, <1>10, <1>11, <1>12, <1>13, <1>14, <1>15, <1>16, <1>17, <1>18, <1>19, <1>20, <1>21
<1>24. /\ Indexed(Row20[9], I) = IndexTable(40, I)
      /\ Indexed(Row20[10], I) = IndexTable(41, I)
      /\ Indexed(Row20[11], I) = IndexTable(42, I)
      /\ Indexed(Row20[12], I) = IndexTable(43, I)
  BY <1>5, <1>6, <1>9, <1>10, <1>11, <1>12, <1>13, <1>14, <1>15, <1>16, <1>17, <1>18, <1>19, <1>20, <1>21
<1>25. /\ Indexed(Row20[13], I) = IndexTable(44, I)
      /\ Indexed(Row20[14], I) = IndexTable(45, I)
      /\ Indexed(Row20[15], I) = IndexTable(46, I)
      /\ Indexed(Row20[16], I) = IndexTable(47, I)
  BY <1>7, <1>8, <1>9, <1>10, <1>11, <1>12, <1>13, <1>14, <1>15, <1>16, <1>17, <1>18, <1>19, <1>20, <1>21
<1> QED
  BY <1>22, <1>23, <1>24, <1>25, SixteenNumbers

\* The row from 0x30.
LEMMA Row30Taken ==
    ASSUME NEW I \in {"IX", "IY"}
    PROVE  \A k \in 1 .. 16 : Indexed(Row30[k], I) = IndexTable(47 + k, I)
<1>1. /\ Row30[1] = Instr("JR", "NC", "e", 0, 0)
      /\ Row30[2] = Instr("LDW", "SP", "nn", 0, 0)
      /\ Row30[3] = Instr("LD", "(nn)", "A", 0, 0)
      /\ Row30[4] = Instr("INCW", "SP", "", 0, 0)
  BY DEF Row30, One, On, Of, Restart
<1>2. /\ IndexTable(48, I) = Nothing
      /\ IndexTable(49, I) = Nothing
      /\ IndexTable(50, I) = Nothing
      /\ IndexTable(51, I) = Nothing
  BY SMT DEF IndexTable, IndexWords, IndexLoads, IndexOnA, IndexStack, Low3, Nothing, One, On, Of
<1>3. /\ Row30[5] = Instr("INC", "(HL)", "", 0, 0)
      /\ Row30[6] = Instr("DEC", "(HL)", "", 0, 0)
      /\ Row30[7] = Instr("LD", "(HL)", "n", 0, 0)
      /\ Row30[8] = Instr("SCF", "", "", 0, 0)
  BY DEF Row30, One, On, Of, Restart
<1>4. /\ IndexTable(52, I) = Instr("INC", Pointed(I), "", 0, 0)
      /\ IndexTable(53, I) = Instr("DEC", Pointed(I), "", 0, 0)
      /\ IndexTable(54, I) = Instr("LD", Pointed(I), "n", 0, 0)
      /\ IndexTable(55, I) = Nothing
  BY SMT DEF IndexTable, IndexWords, IndexLoads, IndexOnA, IndexStack, Low3, Nothing, One, On, Of
<1>5. /\ Row30[9] = Instr("JR", "C", "e", 0, 0)
      /\ Row30[10] = Instr("ADDW", "HL", "SP", 0, 0)
      /\ Row30[11] = Instr("LD", "A", "(nn)", 0, 0)
      /\ Row30[12] = Instr("DECW", "SP", "", 0, 0)
  BY DEF Row30, One, On, Of, Restart
<1>6. /\ IndexTable(56, I) = Nothing
      /\ IndexTable(57, I) = Instr("ADDW", I, "SP", 0, 0)
      /\ IndexTable(58, I) = Nothing
      /\ IndexTable(59, I) = Nothing
  BY SMT DEF IndexTable, IndexWords, IndexLoads, IndexOnA, IndexStack, Low3, Nothing, One, On, Of
<1>7. /\ Row30[13] = Instr("INC", "A", "", 0, 0)
      /\ Row30[14] = Instr("DEC", "A", "", 0, 0)
      /\ Row30[15] = Instr("LD", "A", "n", 0, 0)
      /\ Row30[16] = Instr("CCF", "", "", 0, 0)
  BY DEF Row30, One, On, Of, Restart
<1>8. /\ IndexTable(60, I) = Nothing
      /\ IndexTable(61, I) = Nothing
      /\ IndexTable(62, I) = Nothing
      /\ IndexTable(63, I) = Nothing
  BY SMT DEF IndexTable, IndexWords, IndexLoads, IndexOnA, IndexStack, Low3, Nothing, One, On, Of
<1>9. /\ Indexed(Instr("CCF", "", "", 0, 0), I) = Nothing
      /\ Indexed(Instr("DEC", "A", "", 0, 0), I) = Nothing
      /\ Indexed(Instr("DECW", "SP", "", 0, 0), I) = Nothing
      /\ Indexed(Instr("INC", "A", "", 0, 0), I) = Nothing
  BY TakenNot DEF Moved, Nothing
<1>10. /\ Indexed(Instr("INCW", "SP", "", 0, 0), I) = Nothing
      /\ Indexed(Instr("JR", "C", "e", 0, 0), I) = Nothing
      /\ Indexed(Instr("JR", "NC", "e", 0, 0), I) = Nothing
      /\ Indexed(Instr("LD", "(nn)", "A", 0, 0), I) = Nothing
  BY TakenNot DEF Moved, Nothing
<1>11. /\ Indexed(Instr("LD", "A", "(nn)", 0, 0), I) = Nothing
      /\ Indexed(Instr("LD", "A", "n", 0, 0), I) = Nothing
      /\ Indexed(Instr("LDW", "SP", "nn", 0, 0), I) = Nothing
      /\ Indexed(Instr("SCF", "", "", 0, 0), I) = Nothing
  BY TakenNot DEF Moved, Nothing
<1>12. Indexed(Instr("INC", "(HL)", "", 0, 0), I) = Instr("INC", Pointed(I), "", 0, 0)
  BY TakenAt DEF Moved
<1>13. Indexed(Instr("DEC", "(HL)", "", 0, 0), I) = Instr("DEC", Pointed(I), "", 0, 0)
  BY TakenAt DEF Moved
<1>14. Indexed(Instr("LD", "(HL)", "n", 0, 0), I) = Instr("LD", Pointed(I), "n", 0, 0)
  BY TakenAt DEF Moved
<1>15. Indexed(Instr("ADDW", "HL", "SP", 0, 0), I) = Instr("ADDW", I, "SP", 0, 0)
  BY TakenFirst DEF Moved
<1>16. /\ Indexed(Row30[1], I) = IndexTable(48, I)
      /\ Indexed(Row30[2], I) = IndexTable(49, I)
      /\ Indexed(Row30[3], I) = IndexTable(50, I)
      /\ Indexed(Row30[4], I) = IndexTable(51, I)
  BY <1>1, <1>2, <1>9, <1>10, <1>11, <1>12, <1>13, <1>14, <1>15
<1>17. /\ Indexed(Row30[5], I) = IndexTable(52, I)
      /\ Indexed(Row30[6], I) = IndexTable(53, I)
      /\ Indexed(Row30[7], I) = IndexTable(54, I)
      /\ Indexed(Row30[8], I) = IndexTable(55, I)
  BY <1>3, <1>4, <1>9, <1>10, <1>11, <1>12, <1>13, <1>14, <1>15
<1>18. /\ Indexed(Row30[9], I) = IndexTable(56, I)
      /\ Indexed(Row30[10], I) = IndexTable(57, I)
      /\ Indexed(Row30[11], I) = IndexTable(58, I)
      /\ Indexed(Row30[12], I) = IndexTable(59, I)
  BY <1>5, <1>6, <1>9, <1>10, <1>11, <1>12, <1>13, <1>14, <1>15
<1>19. /\ Indexed(Row30[13], I) = IndexTable(60, I)
      /\ Indexed(Row30[14], I) = IndexTable(61, I)
      /\ Indexed(Row30[15], I) = IndexTable(62, I)
      /\ Indexed(Row30[16], I) = IndexTable(63, I)
  BY <1>7, <1>8, <1>9, <1>10, <1>11, <1>12, <1>13, <1>14, <1>15
<1> QED
  BY <1>16, <1>17, <1>18, <1>19, SixteenNumbers

\* The row from 0xC0.
LEMMA RowC0Taken ==
    ASSUME NEW I \in {"IX", "IY"}
    PROVE  \A k \in 1 .. 16 : Indexed(RowC0[k], I) = IndexTable(191 + k, I)
<1>1. /\ RowC0[1] = Instr("RET", "NZ", "", 0, 0)
      /\ RowC0[2] = Instr("POP", "BC", "", 0, 0)
      /\ RowC0[3] = Instr("JP", "NZ", "nn", 0, 0)
      /\ RowC0[4] = Instr("JP", "", "nn", 0, 0)
  BY DEF RowC0, One, On, Of, Restart
<1>2. /\ IndexTable(192, I) = Nothing
      /\ IndexTable(193, I) = Nothing
      /\ IndexTable(194, I) = Nothing
      /\ IndexTable(195, I) = Nothing
  BY SMT DEF IndexTable, IndexWords, IndexLoads, IndexOnA, IndexStack, Low3, Nothing, One, On, Of
<1>3. /\ RowC0[5] = Instr("CALL", "NZ", "nn", 0, 0)
      /\ RowC0[6] = Instr("PUSH", "BC", "", 0, 0)
      /\ RowC0[7] = Instr("ADD", "A", "n", 0, 0)
      /\ RowC0[8] = Instr("RST", "", "", 0, 0)
  BY DEF RowC0, One, On, Of, Restart
<1>4. /\ IndexTable(196, I) = Nothing
      /\ IndexTable(197, I) = Nothing
      /\ IndexTable(198, I) = Nothing
      /\ IndexTable(199, I) = Nothing
  BY SMT DEF IndexTable, IndexWords, IndexLoads, IndexOnA, IndexStack, Low3, Nothing, One, On, Of
<1>5. /\ RowC0[9] = Instr("RET", "Z", "", 0, 0)
      /\ RowC0[10] = Instr("RET", "", "", 0, 0)
      /\ RowC0[11] = Instr("JP", "Z", "nn", 0, 0)
      /\ RowC0[12] = Instr("prefix", "", "", 0, 0)
  BY DEF RowC0, One, On, Of, Restart
<1>6. /\ IndexTable(200, I) = Nothing
      /\ IndexTable(201, I) = Nothing
      /\ IndexTable(202, I) = Nothing
      /\ IndexTable(203, I) = Nothing
  BY SMT DEF IndexTable, IndexWords, IndexLoads, IndexOnA, IndexStack, Low3, Nothing, One, On, Of
<1>7. /\ RowC0[13] = Instr("CALL", "Z", "nn", 0, 0)
      /\ RowC0[14] = Instr("CALL", "", "nn", 0, 0)
      /\ RowC0[15] = Instr("ADC", "A", "n", 0, 0)
      /\ RowC0[16] = Instr("RST", "", "", 0, 8)
  BY DEF RowC0, One, On, Of, Restart
<1>8. /\ IndexTable(204, I) = Nothing
      /\ IndexTable(205, I) = Nothing
      /\ IndexTable(206, I) = Nothing
      /\ IndexTable(207, I) = Nothing
  BY SMT DEF IndexTable, IndexWords, IndexLoads, IndexOnA, IndexStack, Low3, Nothing, One, On, Of
<1>9. /\ Indexed(Instr("ADC", "A", "n", 0, 0), I) = Nothing
      /\ Indexed(Instr("ADD", "A", "n", 0, 0), I) = Nothing
      /\ Indexed(Instr("CALL", "", "nn", 0, 0), I) = Nothing
      /\ Indexed(Instr("CALL", "NZ", "nn", 0, 0), I) = Nothing
  BY TakenNot DEF Moved, Nothing
<1>10. /\ Indexed(Instr("CALL", "Z", "nn", 0, 0), I) = Nothing
      /\ Indexed(Instr("JP", "", "nn", 0, 0), I) = Nothing
      /\ Indexed(Instr("JP", "NZ", "nn", 0, 0), I) = Nothing
      /\ Indexed(Instr("JP", "Z", "nn", 0, 0), I) = Nothing
  BY TakenNot DEF Moved, Nothing
<1>11. /\ Indexed(Instr("POP", "BC", "", 0, 0), I) = Nothing
      /\ Indexed(Instr("PUSH", "BC", "", 0, 0), I) = Nothing
      /\ Indexed(Instr("RET", "", "", 0, 0), I) = Nothing
      /\ Indexed(Instr("RET", "NZ", "", 0, 0), I) = Nothing
  BY TakenNot DEF Moved, Nothing
<1>12. /\ Indexed(Instr("RET", "Z", "", 0, 0), I) = Nothing
      /\ Indexed(Instr("RST", "", "", 0, 0), I) = Nothing
      /\ Indexed(Instr("RST", "", "", 0, 8), I) = Nothing
  BY TakenNot DEF Moved, Nothing
<1>13. Indexed(Instr("prefix", "", "", 0, 0), I) = Nothing
  BY TakenPrefix DEF Nothing
<1>14. /\ Indexed(RowC0[1], I) = IndexTable(192, I)
      /\ Indexed(RowC0[2], I) = IndexTable(193, I)
      /\ Indexed(RowC0[3], I) = IndexTable(194, I)
      /\ Indexed(RowC0[4], I) = IndexTable(195, I)
  BY <1>1, <1>2, <1>9, <1>10, <1>11, <1>12, <1>13
<1>15. /\ Indexed(RowC0[5], I) = IndexTable(196, I)
      /\ Indexed(RowC0[6], I) = IndexTable(197, I)
      /\ Indexed(RowC0[7], I) = IndexTable(198, I)
      /\ Indexed(RowC0[8], I) = IndexTable(199, I)
  BY <1>3, <1>4, <1>9, <1>10, <1>11, <1>12, <1>13
<1>16. /\ Indexed(RowC0[9], I) = IndexTable(200, I)
      /\ Indexed(RowC0[10], I) = IndexTable(201, I)
      /\ Indexed(RowC0[11], I) = IndexTable(202, I)
      /\ Indexed(RowC0[12], I) = IndexTable(203, I)
  BY <1>5, <1>6, <1>9, <1>10, <1>11, <1>12, <1>13
<1>17. /\ Indexed(RowC0[13], I) = IndexTable(204, I)
      /\ Indexed(RowC0[14], I) = IndexTable(205, I)
      /\ Indexed(RowC0[15], I) = IndexTable(206, I)
      /\ Indexed(RowC0[16], I) = IndexTable(207, I)
  BY <1>7, <1>8, <1>9, <1>10, <1>11, <1>12, <1>13
<1> QED
  BY <1>14, <1>15, <1>16, <1>17, SixteenNumbers

\* The row from 0xD0.
LEMMA RowD0Taken ==
    ASSUME NEW I \in {"IX", "IY"}
    PROVE  \A k \in 1 .. 16 : Indexed(RowD0[k], I) = IndexTable(207 + k, I)
<1>1. /\ RowD0[1] = Instr("RET", "NC", "", 0, 0)
      /\ RowD0[2] = Instr("POP", "DE", "", 0, 0)
      /\ RowD0[3] = Instr("JP", "NC", "nn", 0, 0)
      /\ RowD0[4] = Instr("OUT", "n", "A", 0, 0)
  BY DEF RowD0, One, On, Of, Restart
<1>2. /\ IndexTable(208, I) = Nothing
      /\ IndexTable(209, I) = Nothing
      /\ IndexTable(210, I) = Nothing
      /\ IndexTable(211, I) = Nothing
  BY SMT DEF IndexTable, IndexWords, IndexLoads, IndexOnA, IndexStack, Low3, Nothing, One, On, Of
<1>3. /\ RowD0[5] = Instr("CALL", "NC", "nn", 0, 0)
      /\ RowD0[6] = Instr("PUSH", "DE", "", 0, 0)
      /\ RowD0[7] = Instr("SUB", "A", "n", 0, 0)
      /\ RowD0[8] = Instr("RST", "", "", 0, 16)
  BY DEF RowD0, One, On, Of, Restart
<1>4. /\ IndexTable(212, I) = Nothing
      /\ IndexTable(213, I) = Nothing
      /\ IndexTable(214, I) = Nothing
      /\ IndexTable(215, I) = Nothing
  BY SMT DEF IndexTable, IndexWords, IndexLoads, IndexOnA, IndexStack, Low3, Nothing, One, On, Of
<1>5. /\ RowD0[9] = Instr("RET", "C", "", 0, 0)
      /\ RowD0[10] = Instr("EXX", "", "", 0, 0)
      /\ RowD0[11] = Instr("JP", "C", "nn", 0, 0)
      /\ RowD0[12] = Instr("IN", "A", "n", 0, 0)
  BY DEF RowD0, One, On, Of, Restart
<1>6. /\ IndexTable(216, I) = Nothing
      /\ IndexTable(217, I) = Nothing
      /\ IndexTable(218, I) = Nothing
      /\ IndexTable(219, I) = Nothing
  BY SMT DEF IndexTable, IndexWords, IndexLoads, IndexOnA, IndexStack, Low3, Nothing, One, On, Of
<1>7. /\ RowD0[13] = Instr("CALL", "C", "nn", 0, 0)
      /\ RowD0[14] = Instr("prefix", "", "", 0, 0)
      /\ RowD0[15] = Instr("SBC", "A", "n", 0, 0)
      /\ RowD0[16] = Instr("RST", "", "", 0, 24)
  BY DEF RowD0, One, On, Of, Restart
<1>8. /\ IndexTable(220, I) = Nothing
      /\ IndexTable(221, I) = Nothing
      /\ IndexTable(222, I) = Nothing
      /\ IndexTable(223, I) = Nothing
  BY SMT DEF IndexTable, IndexWords, IndexLoads, IndexOnA, IndexStack, Low3, Nothing, One, On, Of
<1>9. /\ Indexed(Instr("CALL", "C", "nn", 0, 0), I) = Nothing
      /\ Indexed(Instr("CALL", "NC", "nn", 0, 0), I) = Nothing
      /\ Indexed(Instr("EXX", "", "", 0, 0), I) = Nothing
      /\ Indexed(Instr("IN", "A", "n", 0, 0), I) = Nothing
  BY TakenNot DEF Moved, Nothing
<1>10. /\ Indexed(Instr("JP", "C", "nn", 0, 0), I) = Nothing
      /\ Indexed(Instr("JP", "NC", "nn", 0, 0), I) = Nothing
      /\ Indexed(Instr("OUT", "n", "A", 0, 0), I) = Nothing
      /\ Indexed(Instr("POP", "DE", "", 0, 0), I) = Nothing
  BY TakenNot DEF Moved, Nothing
<1>11. /\ Indexed(Instr("PUSH", "DE", "", 0, 0), I) = Nothing
      /\ Indexed(Instr("RET", "C", "", 0, 0), I) = Nothing
      /\ Indexed(Instr("RET", "NC", "", 0, 0), I) = Nothing
      /\ Indexed(Instr("RST", "", "", 0, 16), I) = Nothing
  BY TakenNot DEF Moved, Nothing
<1>12. /\ Indexed(Instr("RST", "", "", 0, 24), I) = Nothing
      /\ Indexed(Instr("SBC", "A", "n", 0, 0), I) = Nothing
      /\ Indexed(Instr("SUB", "A", "n", 0, 0), I) = Nothing
  BY TakenNot DEF Moved, Nothing
<1>13. Indexed(Instr("prefix", "", "", 0, 0), I) = Nothing
  BY TakenPrefix DEF Nothing
<1>14. /\ Indexed(RowD0[1], I) = IndexTable(208, I)
      /\ Indexed(RowD0[2], I) = IndexTable(209, I)
      /\ Indexed(RowD0[3], I) = IndexTable(210, I)
      /\ Indexed(RowD0[4], I) = IndexTable(211, I)
  BY <1>1, <1>2, <1>9, <1>10, <1>11, <1>12, <1>13
<1>15. /\ Indexed(RowD0[5], I) = IndexTable(212, I)
      /\ Indexed(RowD0[6], I) = IndexTable(213, I)
      /\ Indexed(RowD0[7], I) = IndexTable(214, I)
      /\ Indexed(RowD0[8], I) = IndexTable(215, I)
  BY <1>3, <1>4, <1>9, <1>10, <1>11, <1>12, <1>13
<1>16. /\ Indexed(RowD0[9], I) = IndexTable(216, I)
      /\ Indexed(RowD0[10], I) = IndexTable(217, I)
      /\ Indexed(RowD0[11], I) = IndexTable(218, I)
      /\ Indexed(RowD0[12], I) = IndexTable(219, I)
  BY <1>5, <1>6, <1>9, <1>10, <1>11, <1>12, <1>13
<1>17. /\ Indexed(RowD0[13], I) = IndexTable(220, I)
      /\ Indexed(RowD0[14], I) = IndexTable(221, I)
      /\ Indexed(RowD0[15], I) = IndexTable(222, I)
      /\ Indexed(RowD0[16], I) = IndexTable(223, I)
  BY <1>7, <1>8, <1>9, <1>10, <1>11, <1>12, <1>13
<1> QED
  BY <1>14, <1>15, <1>16, <1>17, SixteenNumbers

\* The row from 0xE0.
LEMMA RowE0Taken ==
    ASSUME NEW I \in {"IX", "IY"}
    PROVE  \A k \in 1 .. 16 : Indexed(RowE0[k], I) = IndexTable(223 + k, I)
<1>1. /\ RowE0[1] = Instr("RET", "PO", "", 0, 0)
      /\ RowE0[2] = Instr("POP", "HL", "", 0, 0)
      /\ RowE0[3] = Instr("JP", "PO", "nn", 0, 0)
      /\ RowE0[4] = Instr("EX", "(SP)", "HL", 0, 0)
  BY DEF RowE0, One, On, Of, Restart
<1>2. /\ IndexTable(224, I) = Nothing
      /\ IndexTable(225, I) = Instr("POP", I, "", 0, 0)
      /\ IndexTable(226, I) = Nothing
      /\ IndexTable(227, I) = Instr("EX", "(SP)", I, 0, 0)
  BY SMT DEF IndexTable, IndexWords, IndexLoads, IndexOnA, IndexStack, Low3, Nothing, One, On, Of
<1>3. /\ RowE0[5] = Instr("CALL", "PO", "nn", 0, 0)
      /\ RowE0[6] = Instr("PUSH", "HL", "", 0, 0)
      /\ RowE0[7] = Instr("AND", "A", "n", 0, 0)
      /\ RowE0[8] = Instr("RST", "", "", 0, 32)
  BY DEF RowE0, One, On, Of, Restart
<1>4. /\ IndexTable(228, I) = Nothing
      /\ IndexTable(229, I) = Instr("PUSH", I, "", 0, 0)
      /\ IndexTable(230, I) = Nothing
      /\ IndexTable(231, I) = Nothing
  BY SMT DEF IndexTable, IndexWords, IndexLoads, IndexOnA, IndexStack, Low3, Nothing, One, On, Of
<1>5. /\ RowE0[9] = Instr("RET", "PE", "", 0, 0)
      /\ RowE0[10] = Instr("JP(rr)", "HL", "", 0, 0)
      /\ RowE0[11] = Instr("JP", "PE", "nn", 0, 0)
      /\ RowE0[12] = Instr("EX", "DE", "HL", 0, 0)
  BY DEF RowE0, One, On, Of, Restart
<1>6. /\ IndexTable(232, I) = Nothing
      /\ IndexTable(233, I) = Instr("JP(rr)", I, "", 0, 0)
      /\ IndexTable(234, I) = Nothing
      /\ IndexTable(235, I) = Nothing
  BY SMT DEF IndexTable, IndexWords, IndexLoads, IndexOnA, IndexStack, Low3, Nothing, One, On, Of
<1>7. /\ RowE0[13] = Instr("CALL", "PE", "nn", 0, 0)
      /\ RowE0[14] = Instr("prefix", "", "", 0, 0)
      /\ RowE0[15] = Instr("XOR", "A", "n", 0, 0)
      /\ RowE0[16] = Instr("RST", "", "", 0, 40)
  BY DEF RowE0, One, On, Of, Restart
<1>8. /\ IndexTable(236, I) = Nothing
      /\ IndexTable(237, I) = Nothing
      /\ IndexTable(238, I) = Nothing
      /\ IndexTable(239, I) = Nothing
  BY SMT DEF IndexTable, IndexWords, IndexLoads, IndexOnA, IndexStack, Low3, Nothing, One, On, Of
<1>9. /\ Indexed(Instr("AND", "A", "n", 0, 0), I) = Nothing
      /\ Indexed(Instr("CALL", "PE", "nn", 0, 0), I) = Nothing
      /\ Indexed(Instr("CALL", "PO", "nn", 0, 0), I) = Nothing
      /\ Indexed(Instr("JP", "PE", "nn", 0, 0), I) = Nothing
  BY TakenNot DEF Moved, Nothing
<1>10. /\ Indexed(Instr("JP", "PO", "nn", 0, 0), I) = Nothing
      /\ Indexed(Instr("RET", "PE", "", 0, 0), I) = Nothing
      /\ Indexed(Instr("RET", "PO", "", 0, 0), I) = Nothing
      /\ Indexed(Instr("RST", "", "", 0, 32), I) = Nothing
  BY TakenNot DEF Moved, Nothing
<1>11. /\ Indexed(Instr("RST", "", "", 0, 40), I) = Nothing
      /\ Indexed(Instr("XOR", "A", "n", 0, 0), I) = Nothing
  BY TakenNot DEF Moved, Nothing
<1>12. Indexed(Instr("POP", "HL", "", 0, 0), I) = Instr("POP", I, "", 0, 0)
  BY TakenFirst DEF Moved
<1>13. Indexed(Instr("EX", "(SP)", "HL", 0, 0), I) = Instr("EX", "(SP)", I, 0, 0)
  BY TakenLast DEF Moved
<1>14. Indexed(Instr("PUSH", "HL", "", 0, 0), I) = Instr("PUSH", I, "", 0, 0)
  BY TakenFirst DEF Moved
<1>15. Indexed(Instr("JP(rr)", "HL", "", 0, 0), I) = Instr("JP(rr)", I, "", 0, 0)
  BY TakenFirst DEF Moved
<1>16. Indexed(Instr("EX", "DE", "HL", 0, 0), I) = Nothing
  BY TakenNever DEF Nothing
<1>17. Indexed(Instr("prefix", "", "", 0, 0), I) = Nothing
  BY TakenPrefix DEF Nothing
<1>18. /\ Indexed(RowE0[1], I) = IndexTable(224, I)
      /\ Indexed(RowE0[2], I) = IndexTable(225, I)
      /\ Indexed(RowE0[3], I) = IndexTable(226, I)
      /\ Indexed(RowE0[4], I) = IndexTable(227, I)
  BY <1>1, <1>2, <1>9, <1>10, <1>11, <1>12, <1>13, <1>14, <1>15, <1>16, <1>17
<1>19. /\ Indexed(RowE0[5], I) = IndexTable(228, I)
      /\ Indexed(RowE0[6], I) = IndexTable(229, I)
      /\ Indexed(RowE0[7], I) = IndexTable(230, I)
      /\ Indexed(RowE0[8], I) = IndexTable(231, I)
  BY <1>3, <1>4, <1>9, <1>10, <1>11, <1>12, <1>13, <1>14, <1>15, <1>16, <1>17
<1>20. /\ Indexed(RowE0[9], I) = IndexTable(232, I)
      /\ Indexed(RowE0[10], I) = IndexTable(233, I)
      /\ Indexed(RowE0[11], I) = IndexTable(234, I)
      /\ Indexed(RowE0[12], I) = IndexTable(235, I)
  BY <1>5, <1>6, <1>9, <1>10, <1>11, <1>12, <1>13, <1>14, <1>15, <1>16, <1>17
<1>21. /\ Indexed(RowE0[13], I) = IndexTable(236, I)
      /\ Indexed(RowE0[14], I) = IndexTable(237, I)
      /\ Indexed(RowE0[15], I) = IndexTable(238, I)
      /\ Indexed(RowE0[16], I) = IndexTable(239, I)
  BY <1>7, <1>8, <1>9, <1>10, <1>11, <1>12, <1>13, <1>14, <1>15, <1>16, <1>17
<1> QED
  BY <1>18, <1>19, <1>20, <1>21, SixteenNumbers

\* The row from 0xF0.
LEMMA RowF0Taken ==
    ASSUME NEW I \in {"IX", "IY"}
    PROVE  \A k \in 1 .. 16 : Indexed(RowF0[k], I) = IndexTable(239 + k, I)
<1>1. /\ RowF0[1] = Instr("RET", "P", "", 0, 0)
      /\ RowF0[2] = Instr("POP", "AF", "", 0, 0)
      /\ RowF0[3] = Instr("JP", "P", "nn", 0, 0)
      /\ RowF0[4] = Instr("DI", "", "", 0, 0)
  BY DEF RowF0, One, On, Of, Restart
<1>2. /\ IndexTable(240, I) = Nothing
      /\ IndexTable(241, I) = Nothing
      /\ IndexTable(242, I) = Nothing
      /\ IndexTable(243, I) = Nothing
  BY SMT DEF IndexTable, IndexWords, IndexLoads, IndexOnA, IndexStack, Low3, Nothing, One, On, Of
<1>3. /\ RowF0[5] = Instr("CALL", "P", "nn", 0, 0)
      /\ RowF0[6] = Instr("PUSH", "AF", "", 0, 0)
      /\ RowF0[7] = Instr("OR", "A", "n", 0, 0)
      /\ RowF0[8] = Instr("RST", "", "", 0, 48)
  BY DEF RowF0, One, On, Of, Restart
<1>4. /\ IndexTable(244, I) = Nothing
      /\ IndexTable(245, I) = Nothing
      /\ IndexTable(246, I) = Nothing
      /\ IndexTable(247, I) = Nothing
  BY SMT DEF IndexTable, IndexWords, IndexLoads, IndexOnA, IndexStack, Low3, Nothing, One, On, Of
<1>5. /\ RowF0[9] = Instr("RET", "M", "", 0, 0)
      /\ RowF0[10] = Instr("LDW", "SP", "HL", 0, 0)
      /\ RowF0[11] = Instr("JP", "M", "nn", 0, 0)
      /\ RowF0[12] = Instr("EI", "", "", 0, 0)
  BY DEF RowF0, One, On, Of, Restart
<1>6. /\ IndexTable(248, I) = Nothing
      /\ IndexTable(249, I) = Instr("LDW", "SP", I, 0, 0)
      /\ IndexTable(250, I) = Nothing
      /\ IndexTable(251, I) = Nothing
  BY SMT DEF IndexTable, IndexWords, IndexLoads, IndexOnA, IndexStack, Low3, Nothing, One, On, Of
<1>7. /\ RowF0[13] = Instr("CALL", "M", "nn", 0, 0)
      /\ RowF0[14] = Instr("prefix", "", "", 0, 0)
      /\ RowF0[15] = Instr("CP", "A", "n", 0, 0)
      /\ RowF0[16] = Instr("RST", "", "", 0, 56)
  BY DEF RowF0, One, On, Of, Restart
<1>8. /\ IndexTable(252, I) = Nothing
      /\ IndexTable(253, I) = Nothing
      /\ IndexTable(254, I) = Nothing
      /\ IndexTable(255, I) = Nothing
  BY SMT DEF IndexTable, IndexWords, IndexLoads, IndexOnA, IndexStack, Low3, Nothing, One, On, Of
<1>9. /\ Indexed(Instr("CALL", "M", "nn", 0, 0), I) = Nothing
      /\ Indexed(Instr("CALL", "P", "nn", 0, 0), I) = Nothing
      /\ Indexed(Instr("CP", "A", "n", 0, 0), I) = Nothing
      /\ Indexed(Instr("DI", "", "", 0, 0), I) = Nothing
  BY TakenNot DEF Moved, Nothing
<1>10. /\ Indexed(Instr("EI", "", "", 0, 0), I) = Nothing
      /\ Indexed(Instr("JP", "M", "nn", 0, 0), I) = Nothing
      /\ Indexed(Instr("JP", "P", "nn", 0, 0), I) = Nothing
      /\ Indexed(Instr("OR", "A", "n", 0, 0), I) = Nothing
  BY TakenNot DEF Moved, Nothing
<1>11. /\ Indexed(Instr("POP", "AF", "", 0, 0), I) = Nothing
      /\ Indexed(Instr("PUSH", "AF", "", 0, 0), I) = Nothing
      /\ Indexed(Instr("RET", "M", "", 0, 0), I) = Nothing
      /\ Indexed(Instr("RET", "P", "", 0, 0), I) = Nothing
  BY TakenNot DEF Moved, Nothing
<1>12. /\ Indexed(Instr("RST", "", "", 0, 48), I) = Nothing
      /\ Indexed(Instr("RST", "", "", 0, 56), I) = Nothing
  BY TakenNot DEF Moved, Nothing
<1>13. Indexed(Instr("LDW", "SP", "HL", 0, 0), I) = Instr("LDW", "SP", I, 0, 0)
  BY TakenLast DEF Moved
<1>14. Indexed(Instr("prefix", "", "", 0, 0), I) = Nothing
  BY TakenPrefix DEF Nothing
<1>15. /\ Indexed(RowF0[1], I) = IndexTable(240, I)
      /\ Indexed(RowF0[2], I) = IndexTable(241, I)
      /\ Indexed(RowF0[3], I) = IndexTable(242, I)
      /\ Indexed(RowF0[4], I) = IndexTable(243, I)
  BY <1>1, <1>2, <1>9, <1>10, <1>11, <1>12, <1>13, <1>14
<1>16. /\ Indexed(RowF0[5], I) = IndexTable(244, I)
      /\ Indexed(RowF0[6], I) = IndexTable(245, I)
      /\ Indexed(RowF0[7], I) = IndexTable(246, I)
      /\ Indexed(RowF0[8], I) = IndexTable(247, I)
  BY <1>3, <1>4, <1>9, <1>10, <1>11, <1>12, <1>13, <1>14
<1>17. /\ Indexed(RowF0[9], I) = IndexTable(248, I)
      /\ Indexed(RowF0[10], I) = IndexTable(249, I)
      /\ Indexed(RowF0[11], I) = IndexTable(250, I)
      /\ Indexed(RowF0[12], I) = IndexTable(251, I)
  BY <1>5, <1>6, <1>9, <1>10, <1>11, <1>12, <1>13, <1>14
<1>18. /\ Indexed(RowF0[13], I) = IndexTable(252, I)
      /\ Indexed(RowF0[14], I) = IndexTable(253, I)
      /\ Indexed(RowF0[15], I) = IndexTable(254, I)
      /\ Indexed(RowF0[16], I) = IndexTable(255, I)
  BY <1>7, <1>8, <1>9, <1>10, <1>11, <1>12, <1>13, <1>14
<1> QED
  BY <1>15, <1>16, <1>17, <1>18, SixteenNumbers

\* Beside (HL) any other operand, H and L too, stays as it is.
LEMMA TakenPointed ==
    ASSUME NEW op, NEW z, NEW n, NEW I \in {"IX", "IY"}, z \notin {"HL", "(HL)"}, op \notin {"prefix", "EX"}
    PROVE  /\ Indexed(Instr(op, "(HL)", z, 0, n), I) = Instr(op, Pointed(I), z, 0, n)
           /\ Indexed(Instr(op, z, "(HL)", 0, n), I) = Instr(op, z, Pointed(I), 0, n)
<1>1. Indexed(Instr(op, "(HL)", z, 0, n), I) = Instr(op, Pointed(I), z, 0, n)
  <2>1. Pointed(I) = Rename("(HL)", "(HL)", z, I) /\ z = Rename(z, "(HL)", z, I) /\ Pointed(I) # "(HL)"
    BY DEF Rename, Pointed
  <2> QED
    BY <2>1, Taken
<1>2. Indexed(Instr(op, z, "(HL)", 0, n), I) = Instr(op, z, Pointed(I), 0, n)
  <2>1. z = Rename(z, z, "(HL)", I) /\ Pointed(I) = Rename("(HL)", z, "(HL)", I) /\ Pointed(I) # "(HL)"
    BY DEF Rename, Pointed
  <2> QED
    BY <2>1, Taken
<1> QED
  BY <1>1, <1>2

\* H and L on the right become halves of the index register,
LEMMA TakenHalfLast ==
    ASSUME NEW op, NEW z, NEW n, NEW I \in {"IX", "IY"}, NEW r \in {"H", "L"}, z \notin Moved,
           op \notin {"prefix", "EX"}
    PROVE  Indexed(Instr(op, z, r, 0, n), I) = Instr(op, z, HalfOf(r, I), 0, n)
<1>1. HalfOf(r, I) = Rename(r, z, r, I) /\ z = Rename(z, z, r, I) /\ HalfOf(r, I) # r
  BY DEF Rename, HalfOf, Moved
<1> QED
  BY <1>1, Taken

\* and on both sides.
LEMMA TakenHalves ==
    ASSUME NEW op, NEW n, NEW I \in {"IX", "IY"}, NEW r \in {"H", "L"}, NEW s \in {"H", "L"},
           op \notin {"prefix", "EX"}
    PROVE  Indexed(Instr(op, r, s, 0, n), I) = Instr(op, HalfOf(r, I), HalfOf(s, I), 0, n)
<1>1. HalfOf(r, I) = Rename(r, r, s, I) /\ HalfOf(s, I) = Rename(s, r, s, I) /\ HalfOf(r, I) # r
  BY DEF Rename, HalfOf
<1> QED
  BY <1>1, Taken

\* The column of a row behind a prefix.
Beside(I, k) == <<"B", "C", "D", "E", HalfOf("H", I), HalfOf("L", I), Pointed(I), "A">>[k]

\* The columns behind an index prefix, and which of them the prefix replaces.
LEMMA BesideColumn ==
    ASSUME NEW I \in {"IX", "IY"}, NEW k \in 1 .. 8
    PROVE  /\ k \notin {5, 6, 7} => Column[k] \notin Moved /\ Beside(I, k) = Column[k]
           /\ k \in {5, 6} => Column[k] \in {"H", "L"} /\ Beside(I, k) = HalfOf(Column[k], I)
           /\ k = 7 => Column[k] = "(HL)" /\ Beside(I, k) = Pointed(I)
           /\ Beside(I, k) = Pointed(I) <=> k = 7
           /\ k # 7 => Column[k] \notin {"HL", "(HL)"}
<1>1. k = 1 \/ k = 2 \/ k = 3 \/ k = 4 \/ k = 5 \/ k = 6 \/ k = 7 \/ k = 8
  OBVIOUS
<1> QED
  BY <1>1 DEF Column, Beside, Moved, Pointed, HalfOf

\* The parts of the opcode of a load between registers.
LEMMA LoadOpcode ==
    ASSUME NEW y \in 0 .. 7, NEW z \in 0 .. 7
    PROVE  LET b == 64 + 8 * y + z
           IN  /\ b \div 8 - 7 = y + 1 /\ Low3(b) = z
               /\ b \in 64 .. 127
               /\ b = 118 <=> y = 6 /\ z = 6
               /\ b \in 96 .. 119 <=> y \in {4, 5, 6}
<1>1. (64 + 8 * y + z) \div 8 = 8 + y /\ (64 + 8 * y + z) % 8 = z
  BY SMT
<1> QED
  BY <1>1 DEF Low3

\* The load behind an index prefix that the code's switch names.
LEMMA LoadBehind ==
    ASSUME NEW y \in 0 .. 7, NEW z \in 0 .. 7, NEW I \in {"IX", "IY"}, ~ (y = 6 /\ z = 6)
    PROVE  IndexTable(64 + 8 * y + z, I)
             = IF y \in {4, 5, 6} \/ z \in {4, 5, 6}
               THEN IF y = 6 \/ z = 6
                    THEN Instr("LD", IF y = 6 THEN Pointed(I) ELSE Column[y + 1],
                                     IF z = 6 THEN Pointed(I) ELSE Column[z + 1], 0, 0)
                    ELSE Instr("LD", Beside(I, y + 1), Beside(I, z + 1), 0, 0)
               ELSE Nothing
<1> DEFINE b == 64 + 8 * y + z
           h == HalfOf("H", I)
           l == HalfOf("L", I)
           m == Pointed(I)
           after == IndexOnA(b, h, l, m, IndexStack(b, I, One("NOP")))
<1>1. /\ b \in Int /\ b \div 8 - 7 = y + 1 /\ Low3(b) = z
      /\ b \in 64 .. 127 /\ b # 118
      /\ b \in 96 .. 119 <=> y \in {4, 5, 6}
  BY LoadOpcode
<1>2. Beside(I, y + 1) = Pointed(I) <=> y = 6
  BY BesideColumn
<1>3. Beside(I, z + 1) = Pointed(I) <=> z = 6
  BY BesideColumn
<1> HIDE DEF b, h, l, m
<1>4. after = Nothing
  <2>1. after = IndexOnA(b, h, l, m, IndexStack(b, I, Nothing))
    BY DEF One, Nothing
  <2>2. IndexStack(b, I, Nothing) = Nothing
    BY <1>1 DEF IndexStack
  <2>3. IndexOnA(b, h, l, m, Nothing) = Nothing
    BY <1>1 DEF IndexOnA
  <2> QED
    BY <2>1, <2>2, <2>3
<1> HIDE DEF after
<1>5. IndexTable(b, I) = IndexLoads(b, h, l, m, after)
  <2>1. IndexTable(b, I) = IndexWords(b, I, h, l, m, IndexLoads(b, h, l, m, after))
    BY Zenon DEF IndexTable, h, l, m, after
  <2> DEFINE loads == IndexLoads(b, h, l, m, after)
  <2> HIDE DEF loads
  <2>2. IndexWords(b, I, h, l, m, loads) = loads
    BY <1>1 DEF IndexWords
  <2> QED
    BY <2>1, <2>2 DEF loads
<1>6. Beside(I, y + 1) = <<"B", "C", "D", "E", h, l, m, "A">>[y + 1]
  BY DEF Beside, h, l, m
<1>7. Beside(I, z + 1) = <<"B", "C", "D", "E", h, l, m, "A">>[z + 1]
  BY DEF Beside, h, l, m
<1>8. b \in (64 .. 127) \ {118} /\ (Low3(b) \in {4, 5, 6} \/ b \in 96 .. 119)
        <=> y \in {4, 5, 6} \/ z \in {4, 5, 6}
  BY <1>1
<1>9. IndexLoads(b, h, l, m, after)
        = IF y \in {4, 5, 6} \/ z \in {4, 5, 6}
          THEN IF m \in {Beside(I, y + 1), Beside(I, z + 1)}
               THEN Instr("LD", IF y + 1 = 7 THEN m ELSE Column[y + 1],
                                IF z + 1 = 7 THEN m ELSE Column[z + 1], 0, 0)
               ELSE Instr("LD", Beside(I, y + 1), Beside(I, z + 1), 0, 0)
          ELSE after
  BY <1>1, <1>6, <1>7, <1>8, ZenonT(60) DEF IndexLoads, Of
<1>10. /\ m \in {Beside(I, y + 1), Beside(I, z + 1)} <=> y = 6 \/ z = 6
       /\ y + 1 = 7 <=> y = 6
       /\ z + 1 = 7 <=> z = 6
  BY <1>2, <1>3 DEF m
<1> QED
  BY <1>4, <1>5, <1>9, <1>10 DEF b, m

\* It is the load with the index register for HL.
LEMMA LoadsTaken ==
    ASSUME NEW y \in 0 .. 7, NEW z \in 0 .. 7, NEW I \in {"IX", "IY"}, ~ (y = 6 /\ z = 6)
    PROVE  Indexed(Instr("LD", Column[y + 1], Column[z + 1], 0, 0), I) = IndexTable(64 + 8 * y + z, I)
<1> DEFINE u == Column[y + 1]
           v == Column[z + 1]
           bu == Beside(I, y + 1)
           bv == Beside(I, z + 1)
<1>1. /\ y + 1 \notin {5, 6, 7} => u \notin Moved /\ bu = u
      /\ y + 1 \in {5, 6} => u \in {"H", "L"} /\ bu = HalfOf(u, I)
      /\ y + 1 = 7 => u = "(HL)" /\ bu = Pointed(I)
      /\ y + 1 # 7 => u \notin {"HL", "(HL)"}
  BY BesideColumn
<1>2. /\ z + 1 \notin {5, 6, 7} => v \notin Moved /\ bv = v
      /\ z + 1 \in {5, 6} => v \in {"H", "L"} /\ bv = HalfOf(v, I)
      /\ z + 1 = 7 => v = "(HL)" /\ bv = Pointed(I)
      /\ z + 1 # 7 => v \notin {"HL", "(HL)"}
  BY BesideColumn
<1>3. IndexTable(64 + 8 * y + z, I)
        = IF y \in {4, 5, 6} \/ z \in {4, 5, 6}
          THEN IF y = 6 \/ z = 6
               THEN Instr("LD", IF y = 6 THEN Pointed(I) ELSE u, IF z = 6 THEN Pointed(I) ELSE v, 0, 0)
               ELSE Instr("LD", bu, bv, 0, 0)
          ELSE Nothing
  BY LoadBehind
<1> HIDE DEF u, v, bu, bv
<1>4. CASE y \notin {4, 5, 6} /\ z \notin {4, 5, 6}
  <2>1. u \notin Moved /\ v \notin Moved
    BY <1>1, <1>2, <1>4
  <2>2. Indexed(Instr("LD", u, v, 0, 0), I) = Nothing
    BY <2>1, TakenNot DEF Nothing
  <2> QED
    BY <1>3, <1>4, <2>2 DEF u, v
<1>5. CASE y = 6
  <2>1. Indexed(Instr("LD", "(HL)", v, 0, 0), I) = Instr("LD", Pointed(I), v, 0, 0)
    BY <1>2, <1>5, TakenPointed
  <2>2. IndexTable(64 + 8 * y + z, I) = Instr("LD", Pointed(I), v, 0, 0)
    BY <1>3, <1>5
  <2> QED
    BY <1>1, <1>5, <2>1, <2>2 DEF u, v
<1>6. CASE z = 6
  <2>1. Indexed(Instr("LD", u, "(HL)", 0, 0), I) = Instr("LD", u, Pointed(I), 0, 0)
    BY <1>1, <1>6, TakenPointed
  <2>2. IndexTable(64 + 8 * y + z, I) = Instr("LD", u, Pointed(I), 0, 0)
    BY <1>3, <1>6
  <2> QED
    BY <1>2, <1>6, <2>1, <2>2 DEF u, v
<1>7. CASE (y \in {4, 5} \/ z \in {4, 5}) /\ y # 6 /\ z # 6
  <2>1. IndexTable(64 + 8 * y + z, I) = Instr("LD", bu, bv, 0, 0)
    BY <1>3, <1>7
  <2>2. CASE y \in {4, 5} /\ z \in {4, 5}
    <3>1. u \in {"H", "L"} /\ v \in {"H", "L"} /\ bu = HalfOf(u, I) /\ bv = HalfOf(v, I)
      BY <1>1, <1>2, <2>2
    <3>2. Indexed(Instr("LD", u, v, 0, 0), I) = Instr("LD", bu, bv, 0, 0)
      BY <3>1, TakenHalves
    <3> QED
      BY <2>1, <3>2 DEF u, v
  <2>3. CASE y \in {4, 5} /\ z \notin {4, 5}
    <3>1. u \in {"H", "L"} /\ v \notin Moved /\ bu = HalfOf(u, I) /\ bv = v
      BY <1>1, <1>2, <1>7, <2>3
    <3>2. Indexed(Instr("LD", u, v, 0, 0), I) = Instr("LD", bu, bv, 0, 0)
      BY <3>1, TakenHalf
    <3> QED
      BY <2>1, <3>2 DEF u, v
  <2>4. CASE y \notin {4, 5} /\ z \in {4, 5}
    <3>1. u \notin Moved /\ v \in {"H", "L"} /\ bu = u /\ bv = HalfOf(v, I)
      BY <1>1, <1>2, <1>7, <2>4
    <3>2. Indexed(Instr("LD", u, v, 0, 0), I) = Instr("LD", bu, bv, 0, 0)
      BY <3>1, TakenHalfLast
    <3> QED
      BY <2>1, <3>2 DEF u, v
  <2> QED
    BY <1>7, <2>2, <2>3, <2>4
<1> QED
  BY <1>4, <1>5, <1>6, <1>7

\* And so is the operation on A.
LEMMA OnATaken ==
    ASSUME NEW y \in 0 .. 7, NEW z \in 0 .. 7, NEW I \in {"IX", "IY"}
    PROVE  Indexed(Instr(Operations8[y + 1], "A", Column[z + 1], 0, 0), I) = IndexTable(128 + 8 * y + z, I)
<1> DEFINE b == 128 + 8 * y + z
           op == Operations8[y + 1]
           h == HalfOf("H", I)
           l == HalfOf("L", I)
           m == Pointed(I)
           after == IndexStack(b, I, One("NOP"))
<1>1. b \in Int /\ b \div 8 - 15 = y + 1 /\ Low3(b) = z /\ b \in 128 .. 191
  <2>1. b \div 8 = 16 + y /\ b % 8 = z
    BY SMT
  <2> QED
    BY <2>1 DEF Low3
<1>2. op \notin {"prefix", "EX"}
  <2>1. y = 0 \/ y = 1 \/ y = 2 \/ y = 3 \/ y = 4 \/ y = 5 \/ y = 6 \/ y = 7
    OBVIOUS
  <2> QED
    BY <2>1 DEF Operations8
<1>3. /\ z + 1 \notin {5, 6, 7} => Column[z + 1] \notin Moved
  BY BesideColumn
<1> HIDE DEF b, h, l, m
<1>4. after = Nothing
  <2>1. after = IndexStack(b, I, Nothing)
    BY DEF One, Nothing
  <2>2. IndexStack(b, I, Nothing) = Nothing
    BY <1>1 DEF IndexStack
  <2> QED
    BY <2>1, <2>2
<1> HIDE DEF after
<1>5. IndexTable(b, I) = IndexOnA(b, h, l, m, after)
  <2> DEFINE onA == IndexOnA(b, h, l, m, after)
  <2>1. IndexTable(b, I) = IndexWords(b, I, h, l, m, IndexLoads(b, h, l, m, onA))
    BY Zenon DEF IndexTable, h, l, m, after
  <2> HIDE DEF onA
  <2>2. IndexLoads(b, h, l, m, onA) = onA
    <3>1. b \notin (64 .. 127) \ {118}
      BY <1>1
    <3> QED
      BY <3>1, Zenon DEF IndexLoads
  <2>3. IndexWords(b, I, h, l, m, onA) = onA
    BY <1>1 DEF IndexWords
  <2> QED
    BY <2>1, <2>2, <2>3 DEF onA
<1>6. IndexOnA(b, h, l, m, after)
        = IF z \in {4, 5, 6} THEN Instr(op, "A", <<h, l, m>>[z - 3], 0, 0) ELSE after
  BY <1>1, Zenon DEF IndexOnA, Of
<1> HIDE DEF op
<1>7. CASE z \notin {4, 5, 6}
  <2>1. Indexed(Instr(op, "A", Column[z + 1], 0, 0), I) = Nothing
    <3>1. Column[z + 1] \notin Moved /\ "A" \notin Moved
      BY <1>3, <1>7 DEF Moved
    <3> QED
      BY <3>1, TakenNot DEF Nothing
  <2> QED
    BY <1>4, <1>5, <1>6, <1>7, <2>1 DEF b, op
<1>8. CASE z = 4
  <2>1. Column[z + 1] = "H" /\ <<h, l, m>>[z - 3] = HalfOf("H", I)
    BY <1>8 DEF Column, h
  <2>2. Indexed(Instr(op, "A", "H", 0, 0), I) = Instr(op, "A", HalfOf("H", I), 0, 0)
    BY <1>2, TakenHalfLast DEF Moved
  <2> QED
    BY <1>5, <1>6, <1>8, <2>1, <2>2 DEF b, op
<1>9. CASE z = 5
  <2>1. Column[z + 1] = "L" /\ <<h, l, m>>[z - 3] = HalfOf("L", I)
    BY <1>9 DEF Column, l
  <2>2. Indexed(Instr(op, "A", "L", 0, 0), I) = Instr(op, "A", HalfOf("L", I), 0, 0)
    BY <1>2, TakenHalfLast DEF Moved
  <2> QED
    BY <1>5, <1>6, <1>9, <2>1, <2>2 DEF b, op
<1>10. CASE z = 6
  <2>1. Column[z + 1] = "(HL)" /\ <<h, l, m>>[z - 3] = Pointed(I)
    BY <1>10 DEF Column, m
  <2>2. Indexed(Instr(op, "A", "(HL)", 0, 0), I) = Instr(op, "A", Pointed(I), 0, 0)
    BY <1>2, TakenPointed
  <2> QED
    BY <1>5, <1>6, <1>10, <2>1, <2>2 DEF b, op
<1> QED
  BY <1>7, <1>8, <1>9, <1>10

\* The manual's three parts of an opcode, from its row and its place there.
LEMMA RowParts ==
    ASSUME NEW r \in 0 .. 15, NEW k \in 1 .. 16
    PROVE  LET b == 16 * r + k - 1
           IN  /\ Arch!Group(b) = r \div 4
               /\ Arch!Y(b) = (k - 1) \div 8 + 2 * (r % 4)
               /\ Arch!Z(b) = (k - 1) % 8
<1> DEFINE b == 16 * r + k - 1
           h == (k - 1) \div 8
           z == (k - 1) % 8
           g == r \div 4
           q == r % 4
<1>1. h \in 0 .. 1 /\ z \in 0 .. 7 /\ k - 1 = 8 * h + z
  OBVIOUS
<1>2. g \in 0 .. 3 /\ q \in 0 .. 3 /\ r = 4 * g + q
  OBVIOUS
<1> HIDE DEF h, z, g, q
<1>3. b = 64 * g + 8 * (2 * q + h) + z
  BY <1>1, <1>2
<1> HIDE DEF b
<1>4. b \div 64 = g
  BY <1>1, <1>2, <1>3
<1>5. b \div 8 = 8 * g + 2 * q + h /\ b % 8 = z
  BY <1>1, <1>2, <1>3
<1>6. (8 * g + 2 * q + h) % 8 = 2 * q + h
  BY <1>1, <1>2
<1> QED
  BY <1>1, <1>2, <1>4, <1>5, <1>6 DEF Arch!Group, Arch!Y, Arch!Z, b, h, z, g, q

\* The same, from its quarter and its columns.
LEMMA ColumnParts ==
    ASSUME NEW g \in 0 .. 3, NEW y \in 0 .. 7, NEW z \in 0 .. 7
    PROVE  LET b == 64 * g + 8 * y + z
           IN  /\ Arch!Group(b) = g /\ Arch!Y(b) = y /\ Arch!Z(b) = z
               /\ Low3(b) = z /\ b \div 8 = 8 * g + y
<1> DEFINE b == 64 * g + 8 * y + z
<1>1. b \in Int
  OBVIOUS
<1>2. b \div 64 = g
  OBVIOUS
<1>3. b \div 8 = 8 * g + y /\ b % 8 = z
  OBVIOUS
<1>4. (8 * g + y) % 8 = y
  OBVIOUS
<1> HIDE DEF b
<1> QED
  BY <1>1, <1>2, <1>3, <1>4 DEF Arch!Group, Arch!Y, Arch!Z, Low3, b

\* Every opcode of a quarter has such columns.
LEMMA ByteColumn ==
    ASSUME NEW b \in Byte, NEW g \in 0 .. 3, b \in 64 * g .. 64 * g + 63
    PROVE  \E y, z \in 0 .. 7 : b = 64 * g + 8 * y + z
<1> DEFINE c == b - 64 * g
           y == c \div 8
           z == c % 8
<1>1. c \in Int /\ 0 <= c /\ c < 64
  BY DEF Byte
<1> HIDE DEF c
<1>2. y \in 0 .. 7 /\ z \in 0 .. 7 /\ c = 8 * y + z
  BY <1>1
<1> HIDE DEF y, z
<1>3. b = 64 * g + 8 * y + z
  BY <1>2 DEF c, Byte
<1> QED
  BY <1>2, <1>3

\* The code and the manual number the eight operands alike.
LEMMA SameColumn == Column = Arch!Eight
BY DEF Column, Arch!Eight

\* And the operations on A.
LEMMA SameOperations ==
    \A y \in 0 .. 7 :
        Operations8[y + 1] = <<"ADD", "ADC", "SUB", "SBC", "AND", "XOR", "OR", "CP">>[y + 1]
BY DEF Operations8

\* For each opcode of a row: it is what the manual says, alone and behind an
\* index prefix.
LEMMA PlainRow00 ==
    ASSUME NEW b \in Byte, b \div 16 = 0
    PROVE  /\ Plain[b] = Arch!Unprefixed(Arch!Group(b), Arch!Y(b), Arch!Z(b))
           /\ \A I \in {"IX", "IY"} : Indexed(Plain[b], I) = IndexTable(b, I)
<1> DEFINE k == (b % 16) + 1
<1>1. k \in 1 .. 16 /\ b = 16 * 0 + k - 1 /\ b \in 0 .. 255
  BY DEF Byte
<1>2. Plain[b] = Row00[k]
  BY <1>1 DEF Plain
<1> HIDE DEF k
<1>3. /\ Arch!Group(b) = 0 /\ Arch!Y(b) = (k - 1) \div 8 + 0
      /\ Arch!Z(b) = (k - 1) % 8
  <2>1. 0 \in 0 .. 15 /\ 0 \div 4 = 0 /\ 2 * (0 % 4) = 0
    OBVIOUS
  <2> QED
    BY <1>1, <2>1, RowParts
<1>4. Row00[k] = Arch!Unprefixed(0, (k - 1) \div 8 + 0, (k - 1) % 8)
  BY <1>1, SameRow00
<1>5. ASSUME NEW I \in {"IX", "IY"}
      PROVE  Indexed(Row00[k], I) = IndexTable(b, I)
  <2>1. b = k - 1
    BY <1>1
  <2> QED
    BY <1>1, <2>1, Row00Taken
<1> QED
  BY <1>2, <1>3, <1>4, <1>5

\* The row from 0x10.
LEMMA PlainRow10 ==
    ASSUME NEW b \in Byte, b \div 16 = 1
    PROVE  /\ Plain[b] = Arch!Unprefixed(Arch!Group(b), Arch!Y(b), Arch!Z(b))
           /\ \A I \in {"IX", "IY"} : Indexed(Plain[b], I) = IndexTable(b, I)
<1> DEFINE k == (b % 16) + 1
<1>1. k \in 1 .. 16 /\ b = 16 * 1 + k - 1 /\ b \in 0 .. 255
  BY DEF Byte
<1>2. Plain[b] = Row10[k]
  BY <1>1 DEF Plain
<1> HIDE DEF k
<1>3. /\ Arch!Group(b) = 0 /\ Arch!Y(b) = (k - 1) \div 8 + 2
      /\ Arch!Z(b) = (k - 1) % 8
  <2>1. 1 \in 0 .. 15 /\ 1 \div 4 = 0 /\ 2 * (1 % 4) = 2
    OBVIOUS
  <2> QED
    BY <1>1, <2>1, RowParts
<1>4. Row10[k] = Arch!Unprefixed(0, (k - 1) \div 8 + 2, (k - 1) % 8)
  BY <1>1, SameRow10
<1>5. ASSUME NEW I \in {"IX", "IY"}
      PROVE  Indexed(Row10[k], I) = IndexTable(b, I)
  <2>1. b = 15 + k
    BY <1>1
  <2> QED
    BY <1>1, <2>1, Row10Taken
<1> QED
  BY <1>2, <1>3, <1>4, <1>5

\* The row from 0x20.
LEMMA PlainRow20 ==
    ASSUME NEW b \in Byte, b \div 16 = 2
    PROVE  /\ Plain[b] = Arch!Unprefixed(Arch!Group(b), Arch!Y(b), Arch!Z(b))
           /\ \A I \in {"IX", "IY"} : Indexed(Plain[b], I) = IndexTable(b, I)
<1> DEFINE k == (b % 16) + 1
<1>1. k \in 1 .. 16 /\ b = 16 * 2 + k - 1 /\ b \in 0 .. 255
  BY DEF Byte
<1>2. Plain[b] = Row20[k]
  BY <1>1 DEF Plain
<1> HIDE DEF k
<1>3. /\ Arch!Group(b) = 0 /\ Arch!Y(b) = (k - 1) \div 8 + 4
      /\ Arch!Z(b) = (k - 1) % 8
  <2>1. 2 \in 0 .. 15 /\ 2 \div 4 = 0 /\ 2 * (2 % 4) = 4
    OBVIOUS
  <2> QED
    BY <1>1, <2>1, RowParts
<1>4. Row20[k] = Arch!Unprefixed(0, (k - 1) \div 8 + 4, (k - 1) % 8)
  BY <1>1, SameRow20
<1>5. ASSUME NEW I \in {"IX", "IY"}
      PROVE  Indexed(Row20[k], I) = IndexTable(b, I)
  <2>1. b = 31 + k
    BY <1>1
  <2> QED
    BY <1>1, <2>1, Row20Taken
<1> QED
  BY <1>2, <1>3, <1>4, <1>5

\* The row from 0x30.
LEMMA PlainRow30 ==
    ASSUME NEW b \in Byte, b \div 16 = 3
    PROVE  /\ Plain[b] = Arch!Unprefixed(Arch!Group(b), Arch!Y(b), Arch!Z(b))
           /\ \A I \in {"IX", "IY"} : Indexed(Plain[b], I) = IndexTable(b, I)
<1> DEFINE k == (b % 16) + 1
<1>1. k \in 1 .. 16 /\ b = 16 * 3 + k - 1 /\ b \in 0 .. 255
  BY DEF Byte
<1>2. Plain[b] = Row30[k]
  BY <1>1 DEF Plain
<1> HIDE DEF k
<1>3. /\ Arch!Group(b) = 0 /\ Arch!Y(b) = (k - 1) \div 8 + 6
      /\ Arch!Z(b) = (k - 1) % 8
  <2>1. 3 \in 0 .. 15 /\ 3 \div 4 = 0 /\ 2 * (3 % 4) = 6
    OBVIOUS
  <2> QED
    BY <1>1, <2>1, RowParts
<1>4. Row30[k] = Arch!Unprefixed(0, (k - 1) \div 8 + 6, (k - 1) % 8)
  BY <1>1, SameRow30
<1>5. ASSUME NEW I \in {"IX", "IY"}
      PROVE  Indexed(Row30[k], I) = IndexTable(b, I)
  <2>1. b = 47 + k
    BY <1>1
  <2> QED
    BY <1>1, <2>1, Row30Taken
<1> QED
  BY <1>2, <1>3, <1>4, <1>5

\* The row from 0xC0.
LEMMA PlainRowC0 ==
    ASSUME NEW b \in Byte, b \div 16 = 12
    PROVE  /\ Plain[b] = Arch!Unprefixed(Arch!Group(b), Arch!Y(b), Arch!Z(b))
           /\ \A I \in {"IX", "IY"} : Indexed(Plain[b], I) = IndexTable(b, I)
<1> DEFINE k == (b % 16) + 1
<1>1. k \in 1 .. 16 /\ b = 16 * 12 + k - 1 /\ b \in 0 .. 255
  BY DEF Byte
<1>2. Plain[b] = RowC0[k]
  BY <1>1 DEF Plain
<1> HIDE DEF k
<1>3. /\ Arch!Group(b) = 3 /\ Arch!Y(b) = (k - 1) \div 8 + 0
      /\ Arch!Z(b) = (k - 1) % 8
  <2>1. 12 \in 0 .. 15 /\ 12 \div 4 = 3 /\ 2 * (12 % 4) = 0
    OBVIOUS
  <2> QED
    BY <1>1, <2>1, RowParts
<1>4. RowC0[k] = Arch!Unprefixed(3, (k - 1) \div 8 + 0, (k - 1) % 8)
  BY <1>1, SameRowC0
<1>5. ASSUME NEW I \in {"IX", "IY"}
      PROVE  Indexed(RowC0[k], I) = IndexTable(b, I)
  <2>1. b = 191 + k
    BY <1>1
  <2> QED
    BY <1>1, <2>1, RowC0Taken
<1> QED
  BY <1>2, <1>3, <1>4, <1>5

\* The row from 0xD0.
LEMMA PlainRowD0 ==
    ASSUME NEW b \in Byte, b \div 16 = 13
    PROVE  /\ Plain[b] = Arch!Unprefixed(Arch!Group(b), Arch!Y(b), Arch!Z(b))
           /\ \A I \in {"IX", "IY"} : Indexed(Plain[b], I) = IndexTable(b, I)
<1> DEFINE k == (b % 16) + 1
<1>1. k \in 1 .. 16 /\ b = 16 * 13 + k - 1 /\ b \in 0 .. 255
  BY SMTT(30) DEF Byte
<1>2. Plain[b] = RowD0[k]
  BY <1>1 DEF Plain
<1> HIDE DEF k
<1>3. /\ Arch!Group(b) = 3 /\ Arch!Y(b) = (k - 1) \div 8 + 2
      /\ Arch!Z(b) = (k - 1) % 8
  <2>1. 13 \in 0 .. 15 /\ 13 \div 4 = 3 /\ 2 * (13 % 4) = 2
    OBVIOUS
  <2> QED
    BY <1>1, <2>1, RowParts
<1>4. RowD0[k] = Arch!Unprefixed(3, (k - 1) \div 8 + 2, (k - 1) % 8)
  BY <1>1, SameRowD0
<1>5. ASSUME NEW I \in {"IX", "IY"}
      PROVE  Indexed(RowD0[k], I) = IndexTable(b, I)
  <2>1. b = 207 + k
    BY <1>1
  <2> QED
    BY <1>1, <2>1, RowD0Taken
<1> QED
  BY <1>2, <1>3, <1>4, <1>5

\* The row from 0xE0.
LEMMA PlainRowE0 ==
    ASSUME NEW b \in Byte, b \div 16 = 14
    PROVE  /\ Plain[b] = Arch!Unprefixed(Arch!Group(b), Arch!Y(b), Arch!Z(b))
           /\ \A I \in {"IX", "IY"} : Indexed(Plain[b], I) = IndexTable(b, I)
<1> DEFINE k == (b % 16) + 1
<1>1. k \in 1 .. 16 /\ b = 16 * 14 + k - 1 /\ b \in 0 .. 255
  BY DEF Byte
<1>2. Plain[b] = RowE0[k]
  BY <1>1 DEF Plain
<1> HIDE DEF k
<1>3. /\ Arch!Group(b) = 3 /\ Arch!Y(b) = (k - 1) \div 8 + 4
      /\ Arch!Z(b) = (k - 1) % 8
  <2>1. 14 \in 0 .. 15 /\ 14 \div 4 = 3 /\ 2 * (14 % 4) = 4
    OBVIOUS
  <2> QED
    BY <1>1, <2>1, RowParts
<1>4. RowE0[k] = Arch!Unprefixed(3, (k - 1) \div 8 + 4, (k - 1) % 8)
  BY <1>1, SameRowE0
<1>5. ASSUME NEW I \in {"IX", "IY"}
      PROVE  Indexed(RowE0[k], I) = IndexTable(b, I)
  <2>1. b = 223 + k
    BY <1>1
  <2> QED
    BY <1>1, <2>1, RowE0Taken
<1> QED
  BY <1>2, <1>3, <1>4, <1>5

\* The row from 0xF0.
LEMMA PlainRowF0 ==
    ASSUME NEW b \in Byte, b \div 16 = 15
    PROVE  /\ Plain[b] = Arch!Unprefixed(Arch!Group(b), Arch!Y(b), Arch!Z(b))
           /\ \A I \in {"IX", "IY"} : Indexed(Plain[b], I) = IndexTable(b, I)
<1> DEFINE k == (b % 16) + 1
<1>1. k \in 1 .. 16 /\ b = 16 * 15 + k - 1 /\ b \in 0 .. 255
  BY SMTT(30) DEF Byte
<1>2. Plain[b] = RowF0[k]
  BY <1>1 DEF Plain
<1> HIDE DEF k
<1>3. /\ Arch!Group(b) = 3 /\ Arch!Y(b) = (k - 1) \div 8 + 6
      /\ Arch!Z(b) = (k - 1) % 8
  <2>1. 15 \in 0 .. 15 /\ 15 \div 4 = 3 /\ 2 * (15 % 4) = 6
    OBVIOUS
  <2> QED
    BY <1>1, <2>1, RowParts
<1>4. RowF0[k] = Arch!Unprefixed(3, (k - 1) \div 8 + 6, (k - 1) % 8)
  BY <1>1, SameRowF0
<1>5. ASSUME NEW I \in {"IX", "IY"}
      PROVE  Indexed(RowF0[k], I) = IndexTable(b, I)
  <2>1. b = 239 + k
    BY <1>1
  <2> QED
    BY <1>1, <2>1, RowF0Taken
<1> QED
  BY <1>2, <1>3, <1>4, <1>5

\* The loads between registers, 0x40 to 0x7F.
LEMMA PlainLoads ==
    ASSUME NEW b \in Byte, b \in 64 .. 127
    PROVE  /\ Plain[b] = Arch!Unprefixed(Arch!Group(b), Arch!Y(b), Arch!Z(b))
           /\ \A I \in {"IX", "IY"} : Indexed(Plain[b], I) = IndexTable(b, I)
<1>1. PICK y \in 0 .. 7, z \in 0 .. 7 : b = 64 + 8 * y + z
  <2>1. 1 \in 0 .. 3 /\ 64 * 1 = 64 /\ 64 * 1 + 63 = 127
    OBVIOUS
  <2>2. \E y, z \in 0 .. 7 : b = 64 * 1 + 8 * y + z
    BY <2>1, ByteColumn
  <2> QED
    BY <2>2
<1>2. Arch!Group(b) = 1 /\ Arch!Y(b) = y /\ Arch!Z(b) = z /\ Low3(b) = z
  <2>1. 1 \in 0 .. 3 /\ b = 64 * 1 + 8 * y + z
    BY <1>1
  <2> QED
    BY <2>1, ColumnParts
<1>3. Plain[b] = IF y = 6 /\ z = 6 THEN Instr("HALT", "", "", 0, 0)
                 ELSE Instr("LD", Column[y + 1], Column[z + 1], 0, 0)
  <2>1. CASE y < 4
    <3> DEFINE c == b - 64
    <3>1. Plain[b] = LoadsToBCDE[c] /\ c \in 0 .. 31
      <4>1. b \in 0 .. 255 /\ b \div 16 \in {4, 5} /\ b \in 64 .. 95
        BY <1>1, <2>1
      <4> QED
        BY <4>1 DEF Plain
    <3>2. c \div 8 = y /\ Low3(c) = z
      BY <1>1, <2>1 DEF Low3
    <3> HIDE DEF c
    <3>3. Plain[b] = Of("LD", Column[y + 1], Column[z + 1])
      BY <3>1, <3>2 DEF LoadsToBCDE
    <3>4. y # 6
      BY <2>1
    <3> QED
      BY <3>3, <3>4, Zenon DEF Of
  <2>2. CASE y >= 4
    <3> DEFINE c == b - 96
    <3>1. Plain[b] = LoadsToHLMA[c] /\ c \in 0 .. 31
      <4>1. b \in 0 .. 255 /\ b \div 16 \in {6, 7} /\ b \in 96 .. 127
        BY <1>1, <2>2
      <4> QED
        BY <4>1 DEF Plain
    <3>2. c \div 8 + 5 = y + 1 /\ Low3(c) = z /\ (c = 22 <=> y = 6 /\ z = 6)
      BY <1>1, <2>2 DEF Low3
    <3> HIDE DEF c
    <3> QED
      BY <3>1, <3>2 DEF LoadsToHLMA, Of, One
  <2>3. y < 4 \/ y >= 4
    OBVIOUS
  <2> QED
    BY <2>1, <2>2, <2>3, Zenon
<1>4. Arch!Unprefixed(1, y, z) = IF y = 6 /\ z = 6 THEN Instr("HALT", "", "", 0, 0)
                                ELSE Instr("LD", Arch!Eight[y + 1], Arch!Eight[z + 1], 0, 0)
  BY DEF Arch!Unprefixed, Arch!Instr, Instr
<1>5. ASSUME NEW I \in {"IX", "IY"}
      PROVE  Indexed(Plain[b], I) = IndexTable(b, I)
  <2>1. CASE y = 6 /\ z = 6
    <3>1. b = 118
      BY <1>1, <2>1
    <3>2. IndexTable(118, I) = Nothing
      BY SMT DEF IndexTable, IndexWords, IndexLoads, IndexOnA, IndexStack, Low3, Nothing, One, On, Of
    <3>3. Indexed(Instr("HALT", "", "", 0, 0), I) = Nothing
      BY TakenNot DEF Moved, Nothing
    <3> QED
      BY <1>3, <2>1, <3>1, <3>2, <3>3
  <2>2. CASE ~ (y = 6 /\ z = 6)
    <3>1. Plain[b] = Instr("LD", Column[y + 1], Column[z + 1], 0, 0)
      BY <1>3, <2>2
    <3>2. Indexed(Instr("LD", Column[y + 1], Column[z + 1], 0, 0), I) = IndexTable(64 + 8 * y + z, I)
      BY <2>2, LoadsTaken
    <3> QED
      BY <1>1, <3>1, <3>2
  <2> QED
    BY <2>1, <2>2
<1> QED
  BY <1>2, <1>3, <1>4, <1>5, SameColumn

\* The operations on A, 0x80 to 0xBF.
LEMMA PlainOnA ==
    ASSUME NEW b \in Byte, b \in 128 .. 191
    PROVE  /\ Plain[b] = Arch!Unprefixed(Arch!Group(b), Arch!Y(b), Arch!Z(b))
           /\ \A I \in {"IX", "IY"} : Indexed(Plain[b], I) = IndexTable(b, I)
<1>1. PICK y \in 0 .. 7, z \in 0 .. 7 : b = 128 + 8 * y + z
  <2>1. 2 \in 0 .. 3 /\ 64 * 2 = 128 /\ 64 * 2 + 63 = 191
    OBVIOUS
  <2>2. \E y, z \in 0 .. 7 : b = 64 * 2 + 8 * y + z
    BY <2>1, ByteColumn
  <2> QED
    BY <2>2
<1>2. Arch!Group(b) = 2 /\ Arch!Y(b) = y /\ Arch!Z(b) = z /\ Low3(b) = z
  <2>1. 2 \in 0 .. 3 /\ b = 64 * 2 + 8 * y + z
    BY <1>1
  <2> QED
    BY <2>1, ColumnParts
<1>3. Plain[b] = Instr(Operations8[y + 1], "A", Column[z + 1], 0, 0)
  <2> DEFINE c == b - 128
  <2>1. Plain[b] = OnA[c] /\ c \in 0 .. 63
    <3>1. b \in 0 .. 255 /\ b \div 16 \in {8, 9, 10, 11} /\ b \in 128 .. 191
      BY <1>1
    <3> QED
      BY <3>1 DEF Plain
  <2>2. c \div 8 = y /\ Low3(c) = z
    BY <1>1 DEF Low3
  <2> HIDE DEF c
  <2> QED
    BY <2>1, <2>2 DEF OnA, Of
<1>4. Arch!Unprefixed(2, y, z)
        = Instr(<<"ADD", "ADC", "SUB", "SBC", "AND", "XOR", "OR", "CP">>[y + 1], "A", Arch!Eight[z + 1], 0, 0)
  BY DEF Arch!Unprefixed, Arch!Instr, Instr
<1>5. ASSUME NEW I \in {"IX", "IY"}
      PROVE  Indexed(Plain[b], I) = IndexTable(b, I)
  BY <1>1, <1>3, OnATaken
<1> QED
  BY <1>2, <1>3, <1>4, <1>5, SameColumn, SameOperations

\* Every opcode means what the manual says, alone and behind an index prefix.
LEMMA PlainCorrect ==
    ASSUME NEW b \in Byte
    PROVE  /\ Plain[b] = Arch!Unprefixed(Arch!Group(b), Arch!Y(b), Arch!Z(b))
           /\ \A I \in {"IX", "IY"} : Indexed(Plain[b], I) = IndexTable(b, I)
<1>1. \/ b \div 16 \in {0, 1, 2, 3, 12, 13, 14, 15}
      \/ b \in 64 .. 127 \/ b \in 128 .. 191
  BY DEF Byte
<1> QED
  BY <1>1, PlainRow00, PlainRow10, PlainRow20, PlainRow30, PlainRowC0, PlainRowD0, PlainRowE0,
     PlainRowF0, PlainLoads, PlainOnA

\* Outside its two groups, ED introduces no instruction.
LEMMA EdNothing ==
    ASSUME NEW b \in Byte, b < 64 \/ b > 191
    PROVE  Extended(b) = Instr("ED NOP", "", "", 0, 0)
<1> DEFINE nothing == One("ED NOP")
<1>1. b \in Int
  BY DEF Byte
<1> HIDE DEF nothing
<1>2. EdBlocks(b, nothing) = nothing
  BY <1>1 DEF EdBlocks
<1>3. EdRows60(b, nothing) = nothing
  <2>1. /\ b # 96 /\ b # 97 /\ b # 98 /\ b # 99 /\ b # 103 /\ b # 104 /\ b # 105 /\ b # 106 /\ b # 107 /\ b # 111
      /\ b # 112 /\ b # 113 /\ b # 114 /\ b # 115 /\ b # 120 /\ b # 121 /\ b # 122 /\ b # 123
    BY <1>1
  <2> QED
    BY <2>1, Zenon DEF EdRows60
<1>4. EdNegRet(b, nothing) = nothing
  BY <1>1 DEF EdNegRet
<1>5. EdRows40(b, nothing) = nothing
  <2>1. /\ b # 64 /\ b # 65 /\ b # 66 /\ b # 67 /\ b # 70 /\ b # 71 /\ b # 72 /\ b # 73 /\ b # 74 /\ b # 75
      /\ b # 79 /\ b # 80 /\ b # 81 /\ b # 82 /\ b # 83 /\ b # 86 /\ b # 87 /\ b # 88 /\ b # 89 /\ b # 90
      /\ b # 91 /\ b # 94 /\ b # 95
    BY <1>1
  <2> QED
    BY <2>1, Zenon DEF EdRows40
<1>6. Extended(b) = nothing
  BY <1>2, <1>3, <1>4, <1>5, Zenon DEF Extended, nothing
<1> QED
  BY <1>6 DEF nothing, One

\* The three parts the manual cuts every opcode into.
LEMMA OpcodeParts ==
    ASSUME NEW b \in Byte
    PROVE  \E g \in 0 .. 3, y \in 0 .. 7, z \in 0 .. 7 :
               /\ b = 64 * g + 8 * y + z
               /\ Arch!Group(b) = g /\ Arch!Y(b) = y /\ Arch!Z(b) = z
               /\ Low3(b) = z /\ b \div 8 = 8 * g + y
<1>1. PICK g \in 0 .. 3 : b \in 64 * g .. 64 * g + 63
  BY DEF Byte
<1>2. PICK y \in 0 .. 7, z \in 0 .. 7 : b = 64 * g + 8 * y + z
  BY <1>1, ByteColumn
<1> QED
  BY <1>2, ColumnParts

\* Every opcode behind ED means what the manual says.
LEMMA ExtendedCorrect ==
    ASSUME NEW b \in Byte
    PROVE  Extended(b) = Arch!EdGroup(Arch!Group(b), Arch!Y(b), Arch!Z(b))
<1>1. PICK g \in 0 .. 3, y \in 0 .. 7, z \in 0 .. 7 :
               /\ b = 64 * g + 8 * y + z
               /\ Arch!Group(b) = g /\ Arch!Y(b) = y /\ Arch!Z(b) = z
  BY OpcodeParts
<1>2. CASE g = 1
  <2>1. b = 64 + 8 * y + z
    BY <1>1, <1>2
  <2> QED
    BY <1>1, <1>2, <2>1, SameEd1
<1>3. CASE g = 2
  <2>1. b = 128 + 8 * y + z
    BY <1>1, <1>3
  <2> QED
    BY <1>1, <1>3, <2>1, SameEd2
<1>4. CASE g = 0 \/ g = 3
  <2>1. b < 64 \/ b > 191
    BY <1>1, <1>4
  <2>2. Extended(b) = Instr("ED NOP", "", "", 0, 0)
    BY <2>1, EdNothing
  <2>3. Arch!EdGroup(g, y, z) = Instr("ED NOP", "", "", 0, 0)
    <3>1. Arch!EdGroup(0, y, z) = Instr("ED NOP", "", "", 0, 0)
      BY SMT DEF Arch!EdGroup, Arch!Instr, Instr
    <3>2. Arch!EdGroup(3, y, z) = Instr("ED NOP", "", "", 0, 0)
      BY SMT DEF Arch!EdGroup, Arch!Instr, Instr
    <3> QED
      BY <1>4, <3>1, <3>2
  <2> QED
    BY <1>1, <2>2, <2>3
<1>5. g = 1 \/ g = 2 \/ g = 0 \/ g = 3
  OBVIOUS
<1> QED
  BY <1>2, <1>3, <1>4, <1>5, Zenon

\* The groups behind CB, from the parts of the opcode.
LEMMA BitsOfParts ==
    ASSUME NEW b \in Byte, NEW x, NEW y, NEW d, NEW g \in 0 .. 3, NEW v \in 0 .. 7, NEW z \in 0 .. 7,
           b = 64 * g + 8 * v + z, b \div 8 = 8 * g + v
    PROVE  BitsOf(b, x, y, d) = Arch!BitGroup(g, v, x, y, d)
<1>1. g \in 0 .. 3 /\ v \in 0 .. 7 /\ z \in 0 .. 7
  OBVIOUS
<1>2. (b \div 8) % 8 = v
  OBVIOUS
<1>3. /\ g = 0 => b < 64 /\ b \div 8 + 1 = v + 1
      /\ g = 1 => b \in 64 .. 127
      /\ g = 2 => b \in 128 .. 191
      /\ g = 3 => b > 191
  BY <1>1
<1> DEFINE shift == Instr(Shifts[v + 1], x, y, d, 0)
           ThatBit(op) == Instr(op, x, y, d, v)
<1>4. Arch!BitGroup(g, v, x, y, d) = IF g = 0 THEN shift ELSE ThatBit(<<"BIT", "RES", "SET">>[g])
  BY DEF Arch!BitGroup, Arch!Instr, Instr, Shifts
<1>5. /\ g = 0 => BitsOf(b, x, y, d) = shift
      /\ g = 1 => BitsOf(b, x, y, d) = ThatBit("BIT")
      /\ g = 2 => BitsOf(b, x, y, d) = ThatBit("RES")
      /\ g = 3 => BitsOf(b, x, y, d) = ThatBit("SET")
  BY <1>2, <1>3, BitsCases
<1> HIDE DEF shift, ThatBit
<1>6. g = 0 \/ g = 1 \/ g = 2 \/ g = 3
  OBVIOUS
<1>7. /\ <<"BIT", "RES", "SET">>[1] = "BIT" /\ <<"BIT", "RES", "SET">>[2] = "RES"
      /\ <<"BIT", "RES", "SET">>[3] = "SET"
  OBVIOUS
<1>8. BitsOf(b, x, y, d) = Arch!BitGroup(g, v, x, y, d)
  <2>1. CASE g = 0
    BY <1>4, <1>5, <2>1
  <2>2. CASE g = 1
    BY <1>4, <1>5, <1>7, <2>2
  <2>3. CASE g = 2
    BY <1>4, <1>5, <1>7, <2>3
  <2>4. CASE g = 3
    BY <1>4, <1>5, <1>7, <2>4
  <2> QED
    BY <1>6, <2>1, <2>2, <2>3, <2>4, Zenon
<1> QED
  BY <1>8

\* Every opcode behind CB means what the manual says.
LEMMA BitOpcodes ==
    ASSUME NEW b \in Byte, NEW x, NEW y, NEW d
    PROVE  BitsOf(b, x, y, d) = Arch!BitGroup(Arch!Group(b), Arch!Y(b), x, y, d)
<1>1. PICK g \in 0 .. 3, v \in 0 .. 7, z \in 0 .. 7 :
               /\ b = 64 * g + 8 * v + z
               /\ Arch!Group(b) = g /\ Arch!Y(b) = v /\ Arch!Z(b) = z
               /\ Low3(b) = z /\ b \div 8 = 8 * g + v
  BY OpcodeParts
<1>2. BitsOf(b, x, y, d) = Arch!BitGroup(g, v, x, y, d)
  BY <1>1, BitsOfParts
<1>3. Arch!Group(b) = g /\ Arch!Y(b) = v
  BY <1>1
<1> QED
  BY <1>2, <1>3

\* The code and the manual take the same bytes for the operands.
LEMMA OperandsCorrect ==
    ASSUME NEW j, NEW rest, rest[1] \in Int
    PROVE  WithOperands(j, rest) = Arch!Operands(j, rest)
<1> DEFINE k == Displacement(j)
           d == IF k = 1 THEN rest[1] ELSE 0
           n == CASE Immediate(j) = 2 -> rest[k + 1] + 256 * rest[k + 2]
                  [] Immediate(j) = 1 -> rest[k + 1]
                  [] OTHER -> j.n
           number == CASE Immediate(j) = 2 -> {rest[k + 1] + 256 * rest[k + 2]}
                    [] Immediate(j) = 1 -> {rest[k + 1]}
                    [] Immediate(j) = 0 -> {j.n}
           i == [j EXCEPT !.d = d, !.n = n]
<1>1. k \in {0, 1} /\ Immediate(j) \in {0, 1, 2}
  BY DEF Displacement, Immediate
<1>2. Arch!Displacement(j) = k /\ Arch!Immediate(j) = Immediate(j)
  BY DEF Arch!Displacement, Arch!Immediate, Displacement, Immediate
<1>3. WithOperands(j, rest) = i
  BY DEF WithOperands
<1>4. Arch!Operands(j, rest)
        = CHOOSE full \in {[j EXCEPT !.d = k * rest[1], !.n = a] : a \in number} : TRUE
  BY <1>2, Zenon DEF Arch!Operands
<1>5. k * rest[1] = d
  BY <1>1
<1>6. number = {n}
  BY <1>1
<1>7. Arch!Operands(j, rest) = CHOOSE full \in {[j EXCEPT !.d = d, !.n = a] : a \in {n}} : TRUE
  BY <1>4, <1>5, <1>6, ZenonT(60)
<1> HIDE DEF k, d, n, number
<1>8. {[j EXCEPT !.d = d, !.n = a] : a \in {n}} = {i}
  OBVIOUS
<1> HIDE DEF i
<1>9. (CHOOSE full \in {i} : TRUE) = i
  OBVIOUS
<1> QED
  BY <1>3, <1>7, <1>8, <1>9

\* An unknown opcode takes none.
LEMMA NothingTaken ==
    ASSUME NEW rest
    PROVE  WithOperands(Nothing, rest) = Nothing
<1>1. /\ Nothing.x = "" /\ Nothing.y = "" /\ Nothing.d = 0 /\ Nothing.n = 0
      /\ Nothing = [op |-> "NOP", x |-> "", y |-> "", d |-> 0, n |-> 0]
  BY DEF Nothing, Instr
<1>2. Displacement(Nothing) = 0 /\ Immediate(Nothing) = 0
  <2>1. {Nothing.x, Nothing.y} = {""}
    BY <1>1
  <2>2. {""} \cap {"(IX)", "(IY)", "e"} = {} /\ {""} \cap {"nn", "(nn)"} = {}
    OBVIOUS
  <2>3. "n" \notin {""}
    OBVIOUS
  <2>4. Displacement(Nothing) = IF {""} \cap {"(IX)", "(IY)", "e"} # {} THEN 1 ELSE 0
    BY <2>1, Zenon DEF Displacement
  <2>5. Immediate(Nothing) = IF {""} \cap {"nn", "(nn)"} # {} THEN 2 ELSE IF "n" \in {""} THEN 1 ELSE 0
    BY <2>1, Zenon DEF Immediate
  <2> QED
    BY <2>2, <2>3, <2>4, <2>5, Zenon
<1> DEFINE k == Displacement(Nothing)
           d == IF k = 1 THEN rest[1] ELSE 0
           n == CASE Immediate(Nothing) = 2 -> rest[k + 1] + 256 * rest[k + 2]
                  [] Immediate(Nothing) = 1 -> rest[k + 1]
                  [] OTHER -> Nothing.n
<1>3. WithOperands(Nothing, rest) = [Nothing EXCEPT !.d = d, !.n = n]
  BY DEF WithOperands
<1>4. d = 0 /\ n = 0
  <2>1. Nothing.n = 0
    BY <1>1
  <2>2. d = 0
    BY <1>2
  <2>3. n = Nothing.n
    BY <1>2
  <2> QED
    BY <2>1, <2>2, <2>3
<1> HIDE DEF d, n
<1>5. [Nothing EXCEPT !.d = d, !.n = n] = Nothing
  BY <1>1, <1>4
<1> QED
  BY <1>3, <1>5

\* What stands behind DD and FD means what the manual says, the fourth byte
\* of DD CB included.
LEMMA PrefixCorrect ==
    ASSUME NEW b \in [1 .. 4 -> Byte], NEW I \in {"IX", "IY"}
    PROVE  Arch!AfterIndexPrefix(b, I)
             = IF b[2] = 203 THEN IndexBits(b[4], Pointed(I), b[3])
               ELSE WithOperands(IndexTable(b[2], I), <<b[3], b[4]>>)
<1> DEFINE plain == Arch!Unprefixed(Arch!Group(b[2]), Arch!Y(b[2]), Arch!Z(b[2]))
           taken == Arch!InPlaceOfHL(plain, I)
           x == Column[Arch!Z(b[4]) + 1]
<1>1. b[2] \in Byte /\ b[3] \in Byte /\ b[4] \in Byte /\ b[3] \in Int
  BY DEF Byte
<1>2. plain = Plain[b[2]] /\ Indexed(plain, I) = IndexTable(b[2], I)
  BY <1>1, PlainCorrect
<1>3. Arch!AfterIndexPrefix(b, I)
        = IF b[2] = 203
          THEN IF Arch!Z(b[4]) = 6
               THEN Arch!BitGroup(Arch!Group(b[4]), Arch!Y(b[4]), Pointed(I), "", b[3])
               ELSE Arch!BitGroup(Arch!Group(b[4]), Arch!Y(b[4]), x, Pointed(I), b[3])
          ELSE IF plain.op = "prefix" \/ taken = plain THEN Nothing
               ELSE Arch!Operands(taken, <<b[3], b[4]>>)
  BY SameColumn, Zenon DEF Arch!AfterIndexPrefix, Nothing, Pointed, Arch!Instr, Instr
<1>4. IndexBits(b[4], Pointed(I), b[3])
        = IF Arch!Z(b[4]) = 6
          THEN Arch!BitGroup(Arch!Group(b[4]), Arch!Y(b[4]), Pointed(I), "", b[3])
          ELSE Arch!BitGroup(Arch!Group(b[4]), Arch!Y(b[4]), x, Pointed(I), b[3])
  <2>1. Low3(b[4]) = Arch!Z(b[4]) /\ Arch!Z(b[4]) + 1 \in 1 .. 8
    BY <1>1 DEF Low3, Arch!Z, Byte
  <2>2. x = "(HL)" <=> Arch!Z(b[4]) = 6
        <3> DEFINE z == Arch!Z(b[4])
    <3> SUFFICES x = "(HL)" <=> z = 6
      OBVIOUS
    <3>0. z + 1 \in 1 .. 8 /\ z \in Int
      BY <2>1 DEF Arch!Z, Byte
    <3> HIDE DEF z
    <3>1. z + 1 = 7 <=> z = 6
      BY <3>0
    <3> DEFINE k == z + 1
    <3>2. k \in 1 .. 8 /\ x = Column[k]
      BY <3>0 DEF z
    <3> HIDE DEF k, x
    <3>3. k = 7 => x = "(HL)"
      BY <3>2, BesideColumn
    <3>4. k # 7 => x \notin {"HL", "(HL)"}
      BY <3>2, BesideColumn
    <3>5. k = 7 <=> z = 6
      BY <3>1 DEF k
    <3> QED
      BY <3>3, <3>4, <3>5
  <2>3. IndexBits(b[4], Pointed(I), b[3])
          = IF x = "(HL)" THEN BitsOf(b[4], Pointed(I), "", b[3]) ELSE BitsOf(b[4], x, Pointed(I), b[3])
    BY <2>1, Zenon DEF IndexBits
  <2> HIDE DEF x
  <2> QED
    <3>1. BitsOf(b[4], Pointed(I), "", b[3])
            = Arch!BitGroup(Arch!Group(b[4]), Arch!Y(b[4]), Pointed(I), "", b[3])
      BY <1>1, BitOpcodes, Zenon
    <3>2. BitsOf(b[4], x, Pointed(I), b[3])
            = Arch!BitGroup(Arch!Group(b[4]), Arch!Y(b[4]), x, Pointed(I), b[3])
      BY <1>1, BitOpcodes, Zenon
    <3> QED
      BY <2>2, <2>3, <3>1, <3>2
<1> HIDE DEF plain, x
<1>5. Indexed(plain, I) = IF plain.op = "prefix" \/ taken = plain THEN Nothing ELSE taken
  BY DEF Indexed, Nothing
<1> HIDE DEF taken
<1> DEFINE rest == <<b[3], b[4]>>
<1>6. rest[1] \in Int
  BY <1>1
<1> HIDE DEF rest
<1>7. WithOperands(Indexed(plain, I), rest)
        = IF plain.op = "prefix" \/ taken = plain THEN Nothing ELSE Arch!Operands(taken, rest)
  BY <1>5, <1>6, NothingTaken, OperandsCorrect, Zenon
<1> QED
  BY <1>2, <1>3, <1>4, <1>7, ZenonT(60) DEF rest

\* The switches of Z80run find the instruction that the fields of the
\* processor's opcodes describe.
THEOREM DecodeCorrect ==
    ASSUME NEW b \in [1 .. 4 -> Byte]
    PROVE  Decode(b) = Arch!Decoded(b)
<1>1. b[1] \in Byte /\ b[2] \in Byte /\ b[3] \in Byte /\ b[4] \in Byte /\ b[2] \in Int /\ b[3] \in Int
  BY DEF Byte
<1> DEFINE first == b[1]
           short == <<b[3], b[4]>>
           long == <<b[2], b[3], b[4]>>
           bits == Bits[b[2]]
           extended == WithOperands(Extended(b[2]), short)
           dd == IF b[2] = 203 THEN DdBits(b[4], b[3]) ELSE WithOperands(DdTable(b[2]), short)
           fd == IF b[2] = 203 THEN FdBits(b[4], b[3]) ELSE WithOperands(FdTable(b[2]), short)
           plain == WithOperands(Plain[b[1]], long)
<1>2. Decode(b) = CASE first = 203 -> bits [] first = 237 -> extended
                    [] first = 221 -> dd [] first = 253 -> fd [] OTHER -> plain
  BY DEF Decode
<1>3. short[1] \in Int /\ long[1] \in Int
  BY <1>1
<1>4. bits = Arch!BitGroup(Arch!Group(b[2]), Arch!Y(b[2]), Arch!Eight[Arch!Z(b[2]) + 1], "", 0)
  <2>1. bits = BitsOf(b[2], Column[Low3(b[2]) + 1], "", 0)
    BY <1>1 DEF Bits, Byte
  <2>2. Low3(b[2]) = Arch!Z(b[2])
    BY DEF Low3, Arch!Z
  <2> QED
    <3> DEFINE x == Column[Low3(b[2]) + 1]
    <3>1. x = Arch!Eight[Arch!Z(b[2]) + 1]
      BY <2>2, SameColumn
    <3> HIDE DEF x
    <3>2. BitsOf(b[2], x, "", 0) = Arch!BitGroup(Arch!Group(b[2]), Arch!Y(b[2]), x, "", 0)
      BY <1>1, BitOpcodes, Zenon
    <3>3. bits = BitsOf(b[2], x, "", 0)
      BY <2>1 DEF x
    <3> QED
      BY <3>1, <3>2, <3>3
<1> HIDE DEF short, long
<1>5. extended = Arch!Operands(Arch!EdGroup(Arch!Group(b[2]), Arch!Y(b[2]), Arch!Z(b[2])), short)
  BY <1>1, <1>3, ExtendedCorrect, OperandsCorrect, Zenon
<1>6. plain = Arch!Operands(Arch!Unprefixed(Arch!Group(b[1]), Arch!Y(b[1]), Arch!Z(b[1])), long)
  BY <1>1, <1>3, PlainCorrect, OperandsCorrect, Zenon
<1>7. dd = Arch!AfterIndexPrefix(b, "IX")
  <2>1. "IX" \in {"IX", "IY"} /\ Pointed("IX") = "(IX)"
    BY DEF Pointed
  <2> QED
    <3>1. Arch!AfterIndexPrefix(b, "IX")
            = IF b[2] = 203 THEN IndexBits(b[4], Pointed("IX"), b[3])
              ELSE WithOperands(IndexTable(b[2], "IX"), short)
      BY <2>1, PrefixCorrect DEF short
    <3>2. DdBits(b[4], b[3]) = IndexBits(b[4], Pointed("IX"), b[3])
      BY <2>1, Zenon DEF DdBits
    <3>3. DdTable(b[2]) = IndexTable(b[2], "IX")
      BY TwoTables
    <3> QED
      BY <3>1, <3>2, <3>3, Zenon
<1>8. fd = Arch!AfterIndexPrefix(b, "IY")
  <2>1. "IY" \in {"IX", "IY"} /\ Pointed("IY") = "(IY)"
    BY DEF Pointed
  <2> QED
    <3>1. Arch!AfterIndexPrefix(b, "IY")
            = IF b[2] = 203 THEN IndexBits(b[4], Pointed("IY"), b[3])
              ELSE WithOperands(IndexTable(b[2], "IY"), short)
      BY <2>1, PrefixCorrect DEF short
    <3>2. FdBits(b[4], b[3]) = IndexBits(b[4], Pointed("IY"), b[3])
      BY <2>1, Zenon DEF FdBits
    <3>3. FdTable(b[2]) = IndexTable(b[2], "IY")
      BY TwoTables
    <3> QED
      BY <3>1, <3>2, <3>3, Zenon
<1> HIDE DEF bits, extended, dd, fd, plain, first
<1> DEFINE abits == Arch!BitGroup(Arch!Group(b[2]), Arch!Y(b[2]), Arch!Eight[Arch!Z(b[2]) + 1], "", 0)
           aext == Arch!Operands(Arch!EdGroup(Arch!Group(b[2]), Arch!Y(b[2]), Arch!Z(b[2])), short)
           aplain == Arch!Operands(Arch!Unprefixed(Arch!Group(b[1]), Arch!Y(b[1]), Arch!Z(b[1])), long)
           add == Arch!AfterIndexPrefix(b, "IX")
           afd == Arch!AfterIndexPrefix(b, "IY")
<1>9. Arch!Decoded(b) = CASE first = 203 -> abits [] first = 237 -> aext
                    [] first = 221 -> add [] first = 253 -> afd [] OTHER -> aplain
  BY Zenon DEF Arch!Decoded, short, long, first
<1>10. abits = bits /\ aext = extended /\ add = dd /\ afd = fd /\ aplain = plain
  BY <1>4, <1>5, <1>6, <1>7, <1>8
<1> HIDE DEF abits, aext, aplain, add, afd
<1> QED
  BY <1>2, <1>9, <1>10

-----------------------------------------------------------------------------
(* The processor implements the manual's.                                  *)

\* PC runs on above sixteen bits in the code and round at 65536 in the
\* manual: the bytes fetched are the same.
LEMMA NextByte ==
    ASSUME NEW x \in Int, NEW k \in 1 .. 4
    PROVE  ADDRMASK(x + k - 1) = Arch!Word(ADDRMASK(x) + k - 1)
BY SMT DEF ADDRMASK, Arch!Word

\* The part of the state that does not change, as the processor sees it.
LEMMA NothingElse ==
    ASSUME UNCHANGED <<reg, alt, IR, IFF, RAM>>
    PROVE  UNCHANGED <<[z \in Regs |-> Contents(reg, z)], F, [z \in MainRegs |-> Contents(alt, z)],
                       FlagsIn(LOW_REGISTER(alt["AF"])), ADDRMASK(reg["SP"]), ADDRMASK(reg["PC"]),
                       HIGH_REGISTER(IR), LOW_REGISTER(IR), IFF = 3, RAM>>
BY DEF F

\* A fetch decodes what the manual decodes.
LEMMA FetchCorrect ==
    ASSUME TypeOK, Fetch
    PROVE  Arch!Fetch
<1> DEFINE pc == reg["PC"]
           at == [k \in 1 .. 4 |-> ADDRMASK(pc + k - 1)]
           b == [k \in 1 .. 4 |-> RAM[at[k]]]
           a == [k \in 1 .. 4 |-> RAM[Arch!Word(ADDRMASK(pc) + k - 1)]]
<1>1. /\ code = <<>> /\ InWindow({at[k] : k \in 1 .. 4})
      /\ code' = <<Decode(b)>> /\ UNCHANGED <<reg, alt, IR, IFF, RAM>>
  BY DEF Fetch
<1>2. pc \in Int
  BY DEF TypeOK, Pairs
<1>3. \A k \in 1 .. 4 : at[k] \in DOMAIN RAM
  <2> HIDE DEF at
  <2> QED
    BY <1>1, Zenon DEF InWindow
<1>4. \A k \in 1 .. 4 : at[k] = Arch!Word(ADDRMASK(pc) + k - 1)
  <2> HIDE DEF pc
  <2> QED
    BY <1>2, NextByte
<1> HIDE DEF at
<1>5. b \in [1 .. 4 -> Byte]
  <2>1. \A k \in 1 .. 4 : RAM[at[k]] \in Byte
    BY <1>3, Zenon DEF TypeOK
  <2> QED
    BY <2>1
<1>6. a = b
  BY <1>4
<1> HIDE DEF b
<1>7. Decode(b) = Arch!Decoded(b)
  BY <1>5, DecodeCorrect
<1>8. Arch!Fetch <=> /\ code = <<>>
                     /\ code' = <<Arch!Decoded(a)>>
                     /\ UNCHANGED <<[z \in Regs |-> Contents(reg, z)], F, [z \in MainRegs |-> Contents(alt, z)],
                       FlagsIn(LOW_REGISTER(alt["AF"])), ADDRMASK(reg["SP"]), ADDRMASK(reg["PC"]),
                       HIGH_REGISTER(IR), LOW_REGISTER(IR), IFF = 3, RAM>>
  BY DEF Arch!Fetch
<1> QED
  BY <1>1, <1>6, <1>7, <1>8, NothingElse

\* A halt changes nothing but that the program has ended.
LEMMA HaltCorrect ==
    ASSUME Halt
    PROVE  Arch!Halt
<1>1. Arch!Halt <=> /\ ins.op = "HALT" /\ code' = Stopped
                    /\ UNCHANGED <<[z \in Regs |-> Contents(reg, z)], F, [z \in MainRegs |-> Contents(alt, z)],
                       FlagsIn(LOW_REGISTER(alt["AF"])), ADDRMASK(reg["SP"]), ADDRMASK(reg["PC"]),
                       HIGH_REGISTER(IR), LOW_REGISTER(IR), IFF = 3, RAM>>
  BY DEF Arch!Halt, Arch!ins, ins, Arch!Stopped, Stopped, Arch!Instr, Instr
<1>2. ins.op = "HALT" /\ code' = Stopped /\ UNCHANGED <<reg, alt, IR, IFF, RAM>>
  BY DEF Halt
<1> QED
  BY <1>1, <1>2, NothingElse

\* Every step of the code's processor is a step of the manual's, or changes
\* nothing the manual speaks of.
LEMMA StepCorrect ==
    ASSUME TypeOK, code # <<>> => Undisputed, [Next]_vars
    PROVE  [Arch!Next]_Arch!archVars
<1>1. CASE Fetch
  BY <1>1, FetchCorrect DEF Arch!Next
<1>2. CASE code # <<>> /\ Halt
  BY <1>2, HaltCorrect DEF Arch!Next
<1>3. CASE code # <<>> /\ Execute /\ UNCHANGED Status /\ code' = Tail(code)
  <2>1. ins \in Instructions /\ Undisputed
    BY <1>3, InstructionAtHand
  <2>2. Arch!Execute
    BY <1>3, <2>1, ExecuteCorrect
  <2> QED
    BY <1>3, <2>2 DEF Arch!Next
<1>4. CASE code # <<>> /\ Port /\ code' = Tail(code)
  <2>1. ins \in Instructions
    BY <1>4, InstructionAtHand
  <2>2. Arch!Port
    BY <1>4, <2>1, PortCorrect
  <2> QED
    BY <1>4, <2>2 DEF Arch!Next, Arch!Execute
<1>5. CASE UNCHANGED vars
  <2>1. UNCHANGED code /\ UNCHANGED <<reg, alt, IR, IFF, RAM>>
    BY <1>5 DEF vars
  <2> QED
    BY <2>1, NothingElse DEF Arch!archVars
<1> QED
  BY <1>1, <1>2, <1>3, <1>4, <1>5 DEF Next

\* The soft CPU implements the Z80, over every program, in any memory and
\* whatever the system calls answer, as long as no instruction is one of the
\* two the code is known to execute otherwise.
THEOREM Implements == Spec /\ [](code # <<>> => Undisputed) => ImplementsZ80
<1>1. Spec => []TypeOK
  BY TypeCorrect
<1> QED
  BY <1>1, StepCorrect, PTL DEF Spec, ImplementsZ80, Arch!Steps
=============================================================================
