-------------------------------- MODULE Z80Cpu --------------------------------
(***************************************************************************)
(* Z80run, the soft CPU of cpu.h, one action per group of instructions     *)
(* that share their code.                                                  *)
(*                                                                         *)
(* The register pairs are C ints that the code masks late or never: INC BC *)
(* is ++BC, INC B is BC += 0x100, LD B,D copies all but the low byte of    *)
(* DE, so a pair holds its 16 bits and whatever has run out above them.    *)
(* reg keeps that int; the low byte of reg["AF"] is the F register.        *)
(*                                                                         *)
(* The program is a stream of decoded instructions, and behind it what the *)
(* bytes at PC decode to.  RAM is the window of memory a run looks at; an  *)
(* instruction that would leave the window is not taken.                   *)
(*                                                                         *)
(* IN calls the BDOS and OUT the BIOS, whatever the port.  Here is what    *)
(* they make of the registers and of Status; what a call does to files,    *)
(* devices and its own buffers is in the modules on those calls.           *)
(***************************************************************************)
EXTENDS Z80Alu, Z80Decode

CONSTANTS
    Starts,     \* sets of states to enter Z80run in, each with a program
    Results     \* what a BDOS call may put in HL, and a BIOS call in A

Alternates == {"AF", "BC", "DE", "HL"}

ASSUME StartsAssumption ==
    \A family \in Starts : \A s \in family :
        /\ s.reg \in [Pairs -> Int]
        /\ s.alt \in [Alternates -> Int]
        /\ s.IR \in Int
        /\ s.IFF \in {0, 3}
        /\ DOMAIN s.RAM \subseteq Word16
        /\ s.RAM \in [DOMAIN s.RAM -> Byte]
        /\ s.code \in Seq(Instructions)

ASSUME ResultsAssumption == Results \subseteq Word16

VARIABLES
    reg,    \* AF, BC, DE, HL, IX, IY, SP, PC
    alt,    \* AF1, BC1, DE1, HL1
    IR,     \* interrupt register above, refresh register below
    IFF,    \* interrupt flip-flops
    RAM,
    Status, \* 0 running, 1 RunCPM ends, 2 back to the CCP, 3 a program returned
    code    \* the instructions to come; when there are none, those at PC

vars == <<reg, alt, IR, IFF, RAM, Status, code>>

TypeOK ==
    /\ reg \in [Pairs -> Int]
    /\ alt \in [Alternates -> Int]
    /\ IR \in Int
    /\ IFF \in {0, 3}
    /\ RAM \in [DOMAIN RAM -> Byte]
    /\ DOMAIN RAM \subseteq Word16
    /\ Status \in 0 .. 3
    /\ code \in Seq(Instructions)

Init ==
    \E family \in Starts : \E s \in family :
        /\ reg = s.reg
        /\ alt = s.alt
        /\ IR = s.IR
        /\ IFF = s.IFF
        /\ RAM = s.RAM
        /\ Status = 0
        /\ code = s.code

-----------------------------------------------------------------------------
(* The instruction being executed and its operands.                        *)

ins == Head(code)
F == FlagsIn(LOW_REGISTER(reg["AF"]))
Acu == HIGH_REGISTER(reg["AF"])
Carry == IF "C" \in F THEN 1 ELSE 0

ADDRMASK(a) == a % 65536

Adr(z) ==
    ADDRMASK(CASE z = "(HL)" -> reg["HL"]
               [] z = "(BC)" -> reg["BC"]
               [] z = "(DE)" -> reg["DE"]
               [] z = "(IX)" -> reg["IX"] + Int8(ins.d)
               [] z = "(IY)" -> reg["IY"] + Int8(ins.d)
               [] z = "(nn)" -> ins.n)

\* The window: an operand in memory has to be in it.
InWindow(addresses) == addresses \subseteq DOMAIN RAM
Reachable(z) == z \in Memory => InWindow({Adr(z)})

GET_BYTE(a) == RAM[ADDRMASK(a)]
GET_WORD(a) == GET_BYTE(a) + 256 * GET_BYTE(a + 1)

Value8(z) ==
    CASE z \in Memory -> GET_BYTE(Adr(z))
      [] z = "n" -> ins.n
      [] z \in HighRegs -> HIGH_REGISTER(reg[PairOf(z)])
      [] OTHER -> LOW_REGISTER(reg[PairOf(z)])

\* SET_HIGH_REGISTER and SET_LOW_REGISTER on the registers g.
SetReg(g, z, v) ==
    [g EXCEPT ![PairOf(z)] = IF z \in HighRegs
                             THEN LOW_REGISTER(@) + 256 * (v % 256)
                             ELSE 256 * HIGH_REGISTER(@) + (v % 256)]

\* The registers g with flags f and A as it is, and with AF set anew.
SetFlags(g, f) == [g EXCEPT !["AF"] = 256 * (@ \div 256) + FlagByte(f)]
SetAF(g, result) == [g EXCEPT !["AF"] = 256 * result.acu + FlagByte(result.f)]

\* The registers once the instruction's bytes are fetched by RAM_PP(PC).
Fetched == [reg EXCEPT !["PC"] = @ + Length(ins)]

\* A byte put in memory with what an addition carried out of it.
StoreUnmasked(g, z, v) ==
    IF z \in Memory
    THEN /\ RAM' = [RAM EXCEPT ![Adr(z)] = v]
         /\ reg' = g
    ELSE /\ reg' = SetReg(g, z, v)
         /\ UNCHANGED RAM

\* The registers become g and operand z the byte v.
Store(g, z, v) ==
    IF z \in Memory
    THEN /\ RAM' = [RAM EXCEPT ![Adr(z)] = v % 256]
         /\ reg' = g
    ELSE /\ reg' = SetReg(g, z, v)
         /\ UNCHANGED RAM

Registers(g) == reg' = g /\ UNCHANGED RAM
NoOthers == UNCHANGED <<alt, IR, IFF>>

-----------------------------------------------------------------------------
(* Loads, 8 bits.                                                          *)

\* Between A .. L the rest of the pair, above its 16 bits too, goes along; so
\* it does when a register is loaded with itself, and nothing is done.
InPairs == {ins.x, ins.y} \subseteq MainRegs \/ ins.x = ins.y

LoadReg ==
    /\ ins.op = "LD" /\ InPairs
    /\ LET source == reg[PairOf(ins.y)]
           high == IF ins.y \in HighRegs THEN source \div 256
                                         ELSE LOW_REGISTER(source)
       IN  Registers([Fetched EXCEPT ![PairOf(ins.x)] =
                          IF ins.x \in HighRegs
                          THEN 256 * high + LOW_REGISTER(@)
                          ELSE 256 * (@ \div 256) + Value8(ins.y)])
    /\ NoOthers

Load8 ==
    /\ ins.op = "LD" /\ ~InPairs
    /\ Reachable(ins.x) /\ Reachable(ins.y)
    /\ Store(Fetched, ins.x, Value8(ins.y))
    /\ NoOthers

LoadIR ==
    /\ Registers(Fetched)
    /\ \/ ins.op = "LD I,A" /\ IR' = 256 * (reg["AF"] \div 256) + LOW_REGISTER(IR)
       \/ ins.op = "LD R,A" /\ IR' = 256 * (IR \div 256) + Acu
    /\ UNCHANGED <<alt, IFF>>

\* The flags of a load from IR; FLAG_Z of I is that of all above R in IR.
SignsOfI == When("S", Bit(IR, 32768)) \cup When("Z", IR \div 256 = 0)
SignsOfR == When("S", Bit(IR, 128)) \cup When("Z", LOW_REGISTER(IR) = 0)
IRFlags(signs) == signs \cup When("P", IFF \div 2 = 1) \cup (F \cap {"Y", "X", "C"})

LoadFromIR ==
    /\ \/ /\ ins.op = "LD A,I"
          /\ Registers(SetAF(Fetched, Result(IR \div 256, IRFlags(SignsOfI))))
       \/ /\ ins.op = "LD A,R"
          /\ Registers(SetAF(Fetched, Result(LOW_REGISTER(IR), IRFlags(SignsOfR))))
    /\ NoOthers

-----------------------------------------------------------------------------
(* Loads, 16 bits.                                                         *)

LoadPair ==
    /\ ins.op = "LDW" /\ ins.y = "nn"
    /\ Registers([Fetched EXCEPT ![ins.x] = ins.n])
    /\ NoOthers

LoadPairDirect ==
    /\ ins.op \in {"LDW", "LDW ED"} /\ ins.y = "(nn)"
    /\ InWindow({ADDRMASK(ins.n), ADDRMASK(ins.n + 1)})
    /\ Registers([Fetched EXCEPT ![ins.x] = GET_WORD(ins.n)])
    /\ NoOthers

\* PUT_WORD does not mask its address: the second byte of a word put at the
\* last address falls behind RAM and not on its first byte.
PUT_WORD(a, v) ==
    RAM' = [x \in DOMAIN RAM |-> IF x = a THEN v % 256
                                 ELSE IF x = a + 1 THEN HIGH_REGISTER(v)
                                 ELSE RAM[x]]

StorePair ==
    /\ ins.op \in {"LDW", "LDW ED"} /\ ins.x = "(nn)"
    /\ InWindow({ADDRMASK(ins.n), ADDRMASK(ins.n + 1)})
    /\ PUT_WORD(ins.n, reg[ins.y])
    /\ reg' = Fetched
    /\ NoOthers

LoadSP ==
    /\ ins.op = "LDW" /\ ins.x = "SP" /\ ins.y \in {"HL", "IX", "IY"}
    /\ Registers([Fetched EXCEPT !["SP"] = reg[ins.y]])
    /\ NoOthers

-----------------------------------------------------------------------------
(* The stack.                                                              *)

StackInWindow(low, high) ==
    InWindow({ADDRMASK(a) : a \in reg["SP"] + low .. reg["SP"] + high})

Pushed(v) ==
    [RAM EXCEPT ![ADDRMASK(reg["SP"] - 1)] = HIGH_REGISTER(v),
                ![ADDRMASK(reg["SP"] - 2)] = LOW_REGISTER(v)]

POP(g, p) == [g EXCEPT !["SP"] = @ + 2, ![p] = GET_WORD(reg["SP"])]

Push ==
    /\ ins.op = "PUSH"
    /\ StackInWindow(-2, -1)
    /\ RAM' = Pushed(reg[ins.x])
    /\ reg' = [Fetched EXCEPT !["SP"] = @ - 2]
    /\ NoOthers

Pop ==
    /\ ins.op = "POP"
    /\ StackInWindow(0, 1)
    /\ Registers(POP(Fetched, ins.x))
    /\ NoOthers

ExchangeTop ==
    /\ ins.op = "EX" /\ ins.x = "(SP)"
    /\ StackInWindow(0, 1)
    /\ RAM' = [RAM EXCEPT ![ADDRMASK(reg["SP"] + 1)] = HIGH_REGISTER(reg[ins.y]),
                          ![ADDRMASK(reg["SP"])] = LOW_REGISTER(reg[ins.y])]
    /\ reg' = [Fetched EXCEPT ![ins.y] = GET_WORD(reg["SP"])]
    /\ NoOthers

-----------------------------------------------------------------------------
(* Exchanges.                                                              *)

Swap(ps) ==
    /\ reg' = [p \in Pairs |-> IF p \in ps THEN alt[p] ELSE Fetched[p]]
    /\ alt' = [p \in Alternates |-> IF p \in ps THEN reg[p] ELSE alt[p]]
    /\ UNCHANGED <<IR, IFF, RAM>>

Exchange ==
    \/ ins.op = "EX" /\ ins.x = "AF" /\ Swap({"AF"})
    \/ ins.op = "EXX" /\ Swap({"BC", "DE", "HL"})
    \/ /\ ins.op = "EX" /\ ins.x = "DE"
       /\ Registers([Fetched EXCEPT !["DE"] = reg["HL"], !["HL"] = reg["DE"]])
       /\ NoOthers

-----------------------------------------------------------------------------
(* Arithmetic, 8 bits.                                                     *)

Arithmetic ==
    /\ ins.op \in ArithOps
    /\ Reachable(ins.y)
    /\ LET result == IF ins.y = "A"
                     THEN Arith8Self(ins.op, Acu, Carry)
                     ELSE Arith8(ins.op, Acu, Value8(ins.y), Carry)
       IN  Registers(IF ins.op = "CP" THEN SetFlags(Fetched, result.f)
                                      ELSE SetAF(Fetched, result))
    /\ NoOthers

\* temp is not yet masked: 256 after 255, -1 after 0.
IncFlags(temp) == incZ80Table(temp) \cup (F \cap {"C"})
DecFlags(temp) == decZ80Table(temp % 256) \cup (F \cap {"C"})

\* A high register counts in its pair, in steps of 0x100; step is 1 or -1.
CountHigh(step, Flags(_)) ==
    /\ ins.x \in HighRegs
    /\ LET g == [Fetched EXCEPT ![PairOf(ins.x)] = @ + 256 * step]
       IN  Registers(SetFlags(g, Flags(HIGH_REGISTER(g[PairOf(ins.x)]))))

\* Low registers and memory go through temp, which may be 256 or -1.
CountLow(step, Flags(_)) ==
    /\ ins.x \notin HighRegs
    /\ Reachable(ins.x)
    /\ LET temp == Value8(ins.x) + step
       IN  Store(SetFlags(Fetched, Flags(temp)), ins.x, temp)

Inc8 == /\ ins.op = "INC"
        /\ CountHigh(1, IncFlags) \/ CountLow(1, IncFlags)
        /\ NoOthers

Dec8 == /\ ins.op = "DEC"
        /\ CountHigh(-1, DecFlags) \/ CountLow(-1, DecFlags)
        /\ NoOthers

DecimalAdjust ==
    /\ ins.op = "DAA"
    /\ Registers(SetAF(Fetched, Daa(Acu, F)))
    /\ NoOthers

Negate ==
    /\ ins.op = "NEG"
    /\ Registers(SetAF(Fetched,
           Result((-Acu) % 256, SZYX((-Acu) % 256) \cup negTable(Acu))))
    /\ NoOthers

\* CPL, SCF and CCF
Accumulator ==
    /\ \/ /\ ins.op = "CPL"
          /\ Registers(SetAF(Fetched, Result(-1 - reg["AF"] \div 256,
                 (F \cap {"S", "Z", "P", "C"}) \cup YX(-1 - Acu) \cup {"H", "N"})))
       \/ /\ ins.op = "SCF"
          /\ Registers(SetFlags(Fetched,
                 (F \cap {"S", "Z", "P"}) \cup YX(Acu) \cup {"C"}))
       \/ /\ ins.op = "CCF"
          /\ Registers(SetFlags(Fetched,
                 (F \cap {"S", "Z", "P"}) \cup YX(Acu)
                   \cup (IF "C" \in F THEN {"H"} ELSE {"C"})))
    /\ NoOthers

RotateA ==
    LET kept == F \cap {"S", "Z", "P"}
        Left(low) == LET a == 2 * (reg["AF"] \div 256) + low
                     IN  Result(a, kept \cup YX(a) \cup When("C", Bit(Acu, 128)))
        Right(table, high) == Result(table.acu + high, table.f \cup kept)
    IN  /\ \/ /\ ins.op = "RLCA"
              /\ Registers(SetAF(Fetched, Left(Acu \div 128)))
           \/ /\ ins.op = "RLA"
              /\ Registers(SetAF(Fetched, Left(Carry)))
           \/ /\ ins.op = "RRCA"
              /\ Registers(SetAF(Fetched, Right(rrcaTable(Acu), 0)))
           \/ /\ ins.op = "RRA"
              /\ Registers(SetAF(Fetched, Right(rraTable(Acu), 128 * Carry)))
        /\ NoOthers

\* RRD and RLD turn the low digit of A and the two digits of (HL).
RotateDigit ==
    /\ ins.op \in {"RRD", "RLD"}
    /\ Reachable("(HL)")
    /\ LET temp == Value8("(HL)")
           high == temp \div 16
           low == temp % 16
           right == ins.op = "RRD"
           a == 16 * (Acu \div 16) + (IF right THEN low ELSE high)
       IN  /\ RAM' = [RAM EXCEPT ![Adr("(HL)")] =
                          IF right THEN high + 16 * (Acu % 16)
                                   ELSE 16 * low + (Acu % 16)]
           /\ reg' = SetAF(Fetched, With(rrdrldTable(a), F \cap {"C"}))
    /\ NoOthers

-----------------------------------------------------------------------------
(* Arithmetic, 16 bits: the operands are masked, the result is not.        *)

Count16 ==
    /\ \/ ins.op = "INCW" /\ Registers([Fetched EXCEPT ![ins.x] = @ + 1])
       \/ ins.op = "DECW" /\ Registers([Fetched EXCEPT ![ins.x] = @ - 1])
    /\ NoOthers

Masked(g, ps) == [p \in Pairs |-> IF p \in ps THEN ADDRMASK(g[p]) ELSE g[p]]
High16Cbits(a, b, s) == Cbits(a \div 256, b \div 256, s \div 256)

Add16 ==
    /\ ins.op = "ADDW"
    /\ LET a == ADDRMASK(reg[ins.x])
           b == ADDRMASK(reg[ins.y])
           sum == a + b
           f == IF ins.x = ins.y
                THEN cbitsDup16Table(sum \div 256)
                ELSE YX(sum \div 256) \cup cbitsTable(High16Cbits(a, b, sum))
       IN  Registers([SetFlags(Masked(Fetched, {ins.x, ins.y}),
                               (F \cap {"S", "Z", "P"}) \cup f)
                          EXCEPT ![ins.x] = sum])
    /\ NoOthers

Carry16(op, sum, Own(_), Table(_)) ==
    LET a == ADDRMASK(reg["HL"])
        b == ADDRMASK(reg[ins.y])
        f == IF ins.y = "HL"
             THEN Own((sum \div 256) % 512)
             ELSE SYX(sum \div 256) \cup Table(High16Cbits(a, b, sum))
    IN  /\ ins.op = op
        /\ Registers([SetFlags(Masked(Fetched, {"HL", ins.y}),
                               f \cup When("Z", ADDRMASK(sum) = 0))
                          EXCEPT !["HL"] = sum])

AdcSbc16 ==
    /\ \/ Carry16("ADCW",
                  ADDRMASK(reg["HL"]) + ADDRMASK(reg[ins.y]) + Carry,
                  cbitsZ80DupTable, cbitsZ80Table)
       \/ Carry16("SBCW",
                  ADDRMASK(reg["HL"]) - ADDRMASK(reg[ins.y]) - Carry,
                  cbits2Z80DupTable, cbits2Z80Table)
    /\ NoOthers

-----------------------------------------------------------------------------
(* Jumps, calls and returns.                                               *)

Jump ==
    /\ ins.op = "JP"
    /\ Registers([Fetched EXCEPT !["PC"] = IF Holds(ins.x, F) THEN ins.n ELSE @])
    /\ NoOthers

JumpTo ==
    /\ ins.op = "JP(rr)"
    /\ Registers([Fetched EXCEPT !["PC"] = reg[ins.x]])
    /\ NoOthers

JumpRelative ==
    /\ ins.op = "JR"
    /\ Registers([Fetched EXCEPT !["PC"] =
                      @ + (IF Holds(ins.x, F) THEN Int8(ins.d) ELSE 0)])
    /\ NoOthers

\* B counts in BC: whether it is zero is read through a mask.
DecrementJump ==
    /\ ins.op = "DJNZ"
    /\ LET BC == reg["BC"] - 256
       IN  Registers([Fetched EXCEPT !["BC"] = BC,
                          !["PC"] = @ + (IF HIGH_REGISTER(BC) # 0
                                         THEN Int8(ins.d) ELSE 0)])
    /\ NoOthers

\* CALLC and the RST instructions: PC is past the instruction when pushed.
Call ==
    /\ ins.op \in {"CALL", "RST"}
    /\ IF Holds(ins.x, F)
       THEN /\ StackInWindow(-2, -1)
            /\ RAM' = Pushed(Fetched["PC"])
            /\ reg' = [Fetched EXCEPT !["SP"] = @ - 2, !["PC"] = ins.n]
       ELSE Registers(Fetched)
    /\ NoOthers

Return ==
    /\ ins.op = "RET"
    /\ IF Holds(ins.x, F)
       THEN StackInWindow(0, 1) /\ Registers(POP(Fetched, "PC"))
       ELSE Registers(Fetched)
    /\ NoOthers

\* RETN and RETI
ReturnInterrupt ==
    /\ ins.op = "RETN"
    /\ StackInWindow(0, 1)
    /\ Registers(POP(Fetched, "PC"))
    /\ IFF' = IF IFF \div 2 = 1 THEN 3 ELSE IFF
    /\ UNCHANGED <<alt, IR>>

-----------------------------------------------------------------------------
(* The CB prefix, and DD CB and FD CB with an operand in memory.           *)

ShiftBits ==
    /\ ins.op \in ShiftOps
    /\ Reachable(ins.x)
    /\ LET s == Shift(ins.op, Value8(ins.x), Carry)
           f == rotateShiftTable(s.temp) \cup When("C", s.cbits)
       IN  Store(SetFlags(Fetched, f), ins.x, s.temp)
    /\ NoOthers

\* BIT writes back the operand it read.
TestBit ==
    /\ ins.op = "BIT"
    /\ Reachable(ins.x)
    /\ LET acu == Value8(ins.x)
           f == IF Bit(acu, 2 ^ ins.n)
                THEN {"H"} \cup When("S", ins.n = 7) ELSE {"H", "Z", "P"}
           yx == IF ins.x \in Memory THEN {} ELSE YX(acu)
       IN  Store(SetFlags(Fetched, f \cup yx \cup (F \cap {"C"})), ins.x, acu)
    /\ NoOthers

ChangeBit ==
    /\ Reachable(ins.x)
    /\ LET acu == Value8(ins.x)
           w == 2 ^ ins.n
       IN  \/ /\ ins.op = "RES"
              /\ Store(Fetched, ins.x, IF Bit(acu, w) THEN acu - w ELSE acu)
           \/ /\ ins.op = "SET"
              /\ Store(Fetched, ins.x, IF Bit(acu, w) THEN acu ELSE acu + w)
    /\ NoOthers

-----------------------------------------------------------------------------
(* Blocks: dir is 1 for LDI, LDIR, CPI and CPIR, -1 for the others.        *)

Dir == IF ins.op \in {"LDI", "LDIR", "CPI", "CPIR"} THEN 1 ELSE -1

BlockFlags(acu) ==
    (F \cap {"S", "Z", "C"}) \cup When("X", Bit(acu, 8)) \cup When("Y", Bit(acu, 2))

\* BC of a repeated instruction: 0 stands for 0x10000.
Repeats == LET BC == ADDRMASK(reg["BC"]) IN IF BC = 0 THEN 65536 ELSE BC

\* The addresses p, p + dir, ... of n bytes.
Run(p, n) == {ADDRMASK(reg[p] + Dir * k) : k \in 0 .. n - 1}

\* A copy of the block as it was, as memmove makes it.
CopyAtOnce(n) ==
    [a \in DOMAIN RAM |->
        LET k == ADDRMASK(Dir * (a - reg["DE"]))
        IN  IF k < n THEN RAM[ADDRMASK(reg["HL"] + Dir * k)] ELSE RAM[a]]

\* RAM once the loop has copied n bytes, one by one.
CopyLoop(n) ==
    LET copied[k \in 0 .. n] ==
            IF k = 0 THEN RAM
            ELSE [copied[k - 1] EXCEPT
                      ![ADDRMASK(reg["DE"] + Dir * (k - 1))] =
                          copied[k - 1][ADDRMASK(reg["HL"] + Dir * (k - 1))]]
    IN  copied[n]

\* The last byte read is read before its copy is put: acu of the flags.
CopyBlock ==
    /\ ins.op \in {"LDI", "LDD", "LDIR", "LDDR"}
    /\ LET once == ins.op \in {"LDI", "LDD"}
           n == IF once THEN 1 ELSE Repeats
           BC == IF once THEN reg["BC"] - 1 ELSE 0
       IN  /\ InWindow(Run("HL", n) \cup Run("DE", n))
           /\ RAM' = CopyLoop(n)
           /\ reg' = SetFlags([Fetched EXCEPT !["HL"] = @ + Dir * n,
                                              !["DE"] = @ + Dir * n, !["BC"] = BC],
                  BlockFlags(RAM'[ADDRMASK(reg["DE"] + Dir * (n - 1))] + Acu)
                    \cup When("P", ADDRMASK(BC) # 0))
    /\ NoOthers

\* The repeated comparison stops at the first byte equal to A.
Compared(n) ==
    LET Last(k) == \/ k = n
                   \/ RAM[ADDRMASK(reg["HL"] + Dir * (k - 1))] = Acu
    IN  CHOOSE k \in 1 .. n : Last(k) /\ \A j \in 1 .. k - 1 : ~Last(j)

CompareBlock ==
    /\ ins.op \in {"CPI", "CPD", "CPIR", "CPDR"}
    /\ LET once == ins.op \in {"CPI", "CPD"}
           n == IF once THEN 1 ELSE Repeats
       IN  /\ InWindow(Run("HL", n))
           /\ LET k == Compared(n)
                  temp == RAM[ADDRMASK(reg["HL"] + Dir * (k - 1))]
                  sum == Acu - temp
                  half == Bit(Cbits(Acu, temp, sum), 16)
                  less == IF half THEN sum - 1 ELSE sum
                  BC == IF once THEN reg["BC"] - 1 ELSE Repeats - k
              IN  Registers(SetFlags([Fetched EXCEPT !["HL"] = @ + Dir * k,
                                                     !["BC"] = BC],
                      (F \cap {"C"}) \cup {"N"} \cup When("H", half)
                        \cup When("S", Bit(sum, 128)) \cup When("Z", sum % 256 = 0)
                        \cup When("Y", Bit(less, 2)) \cup When("X", Bit(less, 8))
                        \cup When("P", ADDRMASK(BC) # 0)))
    /\ NoOthers

-----------------------------------------------------------------------------
(* IN, OUT and their blocks.                                               *)

\* What a system call finds and leaves: the registers g, Status, memory m, and
\* the byte acu a block has just moved.
Now == [g |-> Fetched, st |-> Status, m |-> RAM, acu |-> 0]

WithHL(from, w) == [from EXCEPT !.g["HL"] = w]
WithA(from, a) == [from EXCEPT !.g["AF"] = 256 * a + LOW_REGISTER(@)]

\* The pages of the system at the end of 64 K, the TPA being of 60 K.
BIOSpage    == 65280
BIOSjmppage == BIOSpage - 256
BDOSpage    == 60 * 1024 - 768
BDOSjmppage == BDOSpage - 256
IOBYTE      == 3

\* Disk calls, which give up on a drive that is not there and on a read-only
\* one, and call 10, which gives up on ^C: back to the CCP.
DiskCalls == (14 .. 23) \cup (33 .. 36) \cup {40}

\* What call ch may return: a fixed word, a byte, a word of the system's state.
Returned(ch, from) ==
    LET known == [c \in {3, 12, 27, 31, 250, 251, 252, 253} |->
                     CASE c = 3 -> 26              [] c = 12 -> 34
                       [] c = 27 -> BDOSpage + 16  [] c = 31 -> BIOSpage + 64
                       [] c = 250 -> 2             [] c = 251 -> 68
                       [] c = 252 -> 21            [] c = 253 -> BDOSjmppage - 2048]
        asking == LOW_REGISTER(from.g["DE"]) = 255
    IN  CASE ch \in DOMAIN known -> {known[ch]}
          [] ch = 7 -> {from.m[IOBYTE]}
          [] ch \in {1, 11, 13, 25, 249} \cup DiskCalls -> {LOW_REGISTER(w) : w \in Results}
          [] ch \in {6, 32} -> IF asking THEN {LOW_REGISTER(w) : w \in Results} ELSE {0}
          [] ch \in {24, 29, 231} -> Results
          [] OTHER -> {0}

\* _Bdos.  The result is in HL, and in B and A; C ends up equal to E.  Call 9
\* counts in DE past the text it prints.
BdosAnswers(from) ==
    LET ch == LOW_REGISTER(from.g["BC"])
        E == LOW_REGISTER(from.g["DE"])
        Ends == CASE ch = 0 -> {2} [] ch \in DiskCalls \cup {10} -> {from.st, 2} [] OTHER -> {from.st}
    IN  IF ch \in {7, 8} /\ ~InWindow({IOBYTE}) THEN {}
        ELSE {[WithA(WithHL(from, hl), LOW_REGISTER(hl)) EXCEPT
                   !.g["BC"] = 256 * HIGH_REGISTER(hl) + E,
                   !.g["DE"] = IF ch = 9 THEN @ + 1 ELSE @,
                   !.m = IF ch = 8 THEN [@ EXCEPT ![IOBYTE] = E] ELSE @,
                   !.st = st] : hl \in Returned(ch, from), st \in Ends}

\* _Bios, by the byte ch.
BiosFunction(ch, from) ==
    CASE ch = 0 -> {[from EXCEPT !.st = 1]}
      [] ch = 3 -> {[from EXCEPT !.st = 2]}
      [] ch = 51 -> {[from EXCEPT !.st = 3]}
      [] ch = 6 -> {WithA(from, a) : a \in {0, 255}}
      [] ch = 9 -> {WithA(from, LOW_REGISTER(key)) : key \in Results}
      [] ch = 21 -> {WithA(from, 26)}
      [] ch = 27 -> {WithHL(from, 0)}
      [] ch \in {36, 48} -> {WithHL(from, from.g["BC"])}
      [] ch \in {39, 42} -> {WithA(from, 0)}
      [] ch = 45 -> {WithA(from, 255)}
      [] OTHER -> {from}

\* The byte is that of PCX, where the OUT is; after the fetch PC is past it.
BiosAnswersAtPC(from) == BiosFunction(LOW_REGISTER(from.g["PC"]), from)
BiosAnswers(from) == BiosFunction(LOW_REGISTER(reg["PC"]), from)

cpu_in(from) == BdosAnswers(from)
cpu_out(from) == BiosAnswers(from)

InPort ==
    /\ \E answer \in cpu_in(Now) :
         LET temp == HIGH_REGISTER(answer.g["AF"])
             g == IF ins.x = "F" THEN answer.g ELSE SetReg(answer.g, ins.x, temp)
         IN  /\ \/ ins.op = "IN" /\ reg' = g
                \/ ins.op = "IN(C)" /\ reg' = SetFlags(g, rotateShiftTable(temp) \cup (F \cap {"C"}))
             /\ RAM' = answer.m
             /\ Status' = answer.st
    /\ NoOthers

OutPort ==
    /\ ins.op \in {"OUT", "OUT(C)"}
    /\ \E answer \in cpu_out(Now) :
         reg' = answer.g /\ RAM' = answer.m /\ Status' = answer.st
    /\ NoOthers

\* One transfer of a block: to where HL points after the call that IN is, from
\* where it points before that of OUT.
Step == IF ins.op \in {"INI", "INIR", "OUTI", "OTIR"} THEN 1 ELSE -1
Onward(from) == [from EXCEPT !.g["HL"] = @ + Step]

Transfer(from) ==
    IF ins.op \in InBlockOps
    THEN {LET acu == HIGH_REGISTER(answer.g["AF"])
          IN  Onward([answer EXCEPT !.m[ADDRMASK(answer.g["HL"])] = acu, !.acu = acu]) :
             answer \in {answer \in cpu_in(from) : InWindow({ADDRMASK(answer.g["HL"])})}}
    ELSE {Onward([answer EXCEPT !.acu = from.m[ADDRMASK(from.g["HL"])]]) :
             answer \in (IF InWindow({ADDRMASK(from.g["HL"])}) THEN cpu_out(from) ELSE {})}

Transfers(n) ==
    LET after[k \in 0 .. n] ==
            IF k = 0 THEN {Now} ELSE UNION {Transfer(from) : from \in after[k - 1]}
    IN  after[n]

\* INOUTFLAGS: temp is B before it counts, x the other summand of the carries.
InOutFlags(syxz, acu, x, temp) ==
    syxz \cup When("N", Bit(acu, 128)) \cup parityTable(Xor((acu + x) % 8, temp))
      \cup (IF acu + x > 255 THEN {"C", "H"} ELSE {})

BlockPort ==
    LET single == ins.op \in {"INI", "IND", "OUTI", "OUTD"}
        B == HIGH_REGISTER(reg["BC"])
        n == IF single THEN 1 ELSE IF B = 0 THEN 256 ELSE B
    IN  /\ ins.op \in InBlockOps \cup OutBlockOps
        /\ \E last \in Transfers(n) :
             LET temp == HIGH_REGISTER(last.g["BC"])
                 g == IF single THEN [last.g EXCEPT !["BC"] = @ - 256]
                                ELSE SetReg(last.g, "B", 0)
                 x == IF ins.op \in InBlockOps THEN (LOW_REGISTER(g["BC"]) + Step) % 256
                                               ELSE LOW_REGISTER(g["HL"])
                 syxz == IF single THEN SZYX(HIGH_REGISTER(g["BC"])) ELSE {"Z"}
             IN  /\ reg' = SetFlags(Masked(g, {"AF"}), InOutFlags(syxz, last.acu, x, temp))
                 /\ RAM' = last.m
                 /\ Status' = last.st
        /\ NoOthers

Port == InPort \/ OutPort \/ BlockPort

-----------------------------------------------------------------------------
(* Control.                                                                *)

NoOperation == ins.op \in {"NOP", "IM", "ED NOP"} /\ Registers(Fetched) /\ NoOthers

InterruptFlags ==
    /\ ins.op \in {"DI", "EI"}
    /\ IFF' = IF ins.op = "EI" THEN 3 ELSE 0
    /\ Registers(Fetched)
    /\ UNCHANGED <<alt, IR>>

\* Z80run returns, with PC on the HALT; the program does not go on.
Halt ==
    /\ ins.op = "HALT"
    /\ code' = Stopped
    /\ UNCHANGED <<reg, alt, IR, IFF, RAM, Status>>

\* The switch on the byte at PC, and the ones behind a prefix.
Fetch ==
    LET at == [k \in 1 .. 4 |-> ADDRMASK(reg["PC"] + k - 1)]
    IN  /\ code = <<>>
        /\ InWindow({at[k] : k \in 1 .. 4})
        /\ code' = <<Decode([k \in 1 .. 4 |-> RAM[at[k]]])>>
        /\ UNCHANGED <<reg, alt, IR, IFF, RAM, Status>>

Execute ==
    \/ LoadReg \/ Load8 \/ LoadIR \/ LoadFromIR
    \/ LoadPair \/ LoadPairDirect \/ StorePair \/ LoadSP
    \/ Push \/ Pop \/ ExchangeTop \/ Exchange
    \/ Arithmetic \/ Inc8 \/ Dec8 \/ DecimalAdjust \/ Negate
    \/ Accumulator \/ RotateA \/ RotateDigit
    \/ Count16 \/ Add16 \/ AdcSbc16
    \/ Jump \/ JumpTo \/ JumpRelative \/ DecrementJump
    \/ Call \/ Return \/ ReturnInterrupt
    \/ ShiftBits \/ TestBit \/ ChangeBit
    \/ CopyBlock \/ CompareBlock
    \/ NoOperation \/ InterruptFlags

Next ==
    /\ Status = 0
    /\ \/ Fetch
       \/ code # <<>> /\ Halt
       \/ code # <<>> /\ Execute /\ UNCHANGED Status /\ code' = Tail(code)
       \/ code # <<>> /\ Port /\ code' = Tail(code)

Spec == Init /\ [][Next]_vars
=============================================================================
