-------------------------------- MODULE Z80Arch --------------------------------
(***************************************************************************)
(* The processor the soft CPU stands in for: the Z80 as its documentation  *)
(* describes it.  Every register is a byte of its own, PC and SP are 16    *)
(* bits and wrap, addresses wrap, and a flag says what it is documented to *)
(* say of the operands and the result.  Bits 5 and 3 of F, which are not   *)
(* documented, may become anything.                                        *)
(*                                                                         *)
(* Nothing here comes from cpu.h; it is what cpu.h has to implement.       *)
(***************************************************************************)
EXTENDS Z80Instructions

VARIABLES
    r,      \* the 8-bit registers
    f,      \* the flags that are set
    r2, f2, \* the alternate registers and flags
    sp, pc,
    i, rr,  \* interrupt and refresh registers
    iff,    \* interrupts are enabled
    mem,
    code    \* the instructions to come; when there are none, those at pc

ins == Head(code)

Documented == {"S", "Z", "H", "P", "N", "C"}
FlagsBecome(doc) == f' \in {doc \cup s : s \in SUBSET {"Y", "X"}}
KeepFlags == f' = f

Word(a) == a % 65536
Set(cond, flag) == IF cond THEN {flag} ELSE {}
Signed(b) == IF b > 127 THEN b - 256 ELSE b
Signed16(w) == IF w > 32767 THEN w - 65536 ELSE w
Ones(b) == LET d(w) == (b \div w) % 2
           IN  d(1) + d(2) + d(4) + d(8) + d(16) + d(32) + d(64) + d(128)

FByte == LET v(flag, w) == IF flag \in f THEN w ELSE 0
         IN  v("S", 128) + v("Z", 64) + v("Y", 32) + v("H", 16)
               + v("X", 8) + v("P", 4) + v("N", 2) + v("C", 1)
FOf(b) == {flag \in Documented \cup {"Y", "X"} :
             LET w == CASE flag = "S" -> 128 [] flag = "Z" -> 64 [] flag = "Y" -> 32
                        [] flag = "H" -> 16 [] flag = "X" -> 8 [] flag = "P" -> 4
                        [] flag = "N" -> 2 [] flag = "C" -> 1
             IN  (b \div w) % 2 = 1}

Halves(p) == CASE p = "BC" -> <<"B", "C">> [] p = "DE" -> <<"D", "E">>
               [] p = "HL" -> <<"H", "L">> [] p = "IX" -> <<"IXH", "IXL">>
               [] p = "IY" -> <<"IYH", "IYL">>

Pair(p) == CASE p = "SP" -> sp
             [] p = "AF" -> 256 * r["A"] + FByte
             [] OTHER -> 256 * r[Halves(p)[1]] + r[Halves(p)[2]]

\* The registers g with the pair p holding w.
InPair(g, p, w) == [g EXCEPT ![Halves(p)[1]] = w \div 256, ![Halves(p)[2]] = w % 256]

Address(z) ==
    Word(CASE z = "(HL)" -> Pair("HL") [] z = "(BC)" -> Pair("BC")
           [] z = "(DE)" -> Pair("DE") [] z = "(nn)" -> ins.n
           [] z = "(IX)" -> Pair("IX") + Signed(ins.d)
           [] z = "(IY)" -> Pair("IY") + Signed(ins.d))

Operand(z) == IF z \in Regs THEN r[z] ELSE IF z = "n" THEN ins.n ELSE mem[Address(z)]

\* What an instruction leaves alone.
Advance == pc' = Word(pc + Length(ins))
Alternate == UNCHANGED <<r2, f2>>
Special == UNCHANGED <<i, rr, iff>>
Rest == Advance /\ Alternate /\ Special

Place(z, v) ==
    IF z \in Regs THEN r' = [r EXCEPT ![z] = v] /\ UNCHANGED mem
                  ELSE mem' = [mem EXCEPT ![Address(z)] = v] /\ UNCHANGED r

PlaceWord(p, w) ==
    IF p = "SP" THEN sp' = w /\ UNCHANGED r
                ELSE r' = InPair(r, p, w) /\ UNCHANGED sp

WordAt(a) == mem[a] + 256 * mem[Word(a + 1)]
WordPut(a, w) == [mem EXCEPT ![a] = w % 256, ![Word(a + 1)] = w \div 256]

-----------------------------------------------------------------------------
(* Results and documented flags.                                           *)

SZ(b) == Set(b > 127, "S") \cup Set(b = 0, "Z")
Parity(b) == Set(Ones(b) % 2 = 0, "P")
Of(v, fl) == [v |-> v, fl |-> fl]

Sum(a, b, c) ==
    Of((a + b + c) % 256,
       SZ((a + b + c) % 256)
         \cup Set((a % 16) + (b % 16) + c > 15, "H")
         \cup Set(Signed(a) + Signed(b) + c \notin -128 .. 127, "P")
         \cup Set(a + b + c > 255, "C"))

Difference(a, b, c) ==
    Of((a - b - c) % 256,
       SZ((a - b - c) % 256) \cup {"N"}
         \cup Set((a % 16) - (b % 16) - c < 0, "H")
         \cup Set(Signed(a) - Signed(b) - c \notin -128 .. 127, "P")
         \cup Set(a - b - c < 0, "C"))

SZ16(w) == Set(w > 32767, "S") \cup Set(w = 0, "Z")

Sum16(a, b, c) ==
    Of(Word(a + b + c),
       SZ16(Word(a + b + c))
         \cup Set((a % 4096) + (b % 4096) + c > 4095, "H")
         \cup Set(\/ Signed16(a) + Signed16(b) + c < -32768
                  \/ Signed16(a) + Signed16(b) + c > 32767, "P")
         \cup Set(a + b + c > 65535, "C"))

Difference16(a, b, c) ==
    Of(Word(a - b - c),
       SZ16(Word(a - b - c)) \cup {"N"}
         \cup Set((a % 4096) < (b % 4096) + c, "H")
         \cup Set(\/ Signed16(a) - Signed16(b) - c < -32768
                  \/ Signed16(a) - Signed16(b) - c > 32767, "P")
         \cup Set(a < b + c, "C"))

\* Bit by bit: Op of the two bits of each weight.
Bitwise(a, b, Op(_, _)) ==
    LET d(w) == w * Op((a \div w) % 2, (b \div w) % 2)
    IN  d(1) + d(2) + d(4) + d(8) + d(16) + d(32) + d(64) + d(128)

Computed(op, a, b, c) ==
    LET Logic(Op(_, _), fl) == LET v == Bitwise(a, b, Op)
                               IN  Of(v, SZ(v) \cup Parity(v) \cup fl)
    IN  CASE op = "ADD" -> Sum(a, b, 0) [] op = "ADC" -> Sum(a, b, c)
          [] op = "SUB" -> Difference(a, b, 0) [] op = "SBC" -> Difference(a, b, c)
          [] op = "AND" -> Logic(LAMBDA p, q : p * q, {"H"})
          [] op = "XOR" -> Logic(LAMBDA p, q : (p + q) % 2, {})
          [] op = "OR"  -> Logic(LAMBDA p, q : p + q - p * q, {})
          [] op = "CP"  -> Of(a, Difference(a, b, 0).fl)

\* DAA: the correction that makes A two decimal digits again.
Adjusted(a) ==
    LET high == "C" \in f \/ a > 153
        low == "H" \in f \/ a % 16 > 9
        by == (IF low THEN 6 ELSE 0) + (IF high THEN 96 ELSE 0)
        v == (IF "N" \in f THEN a - by ELSE a + by) % 256
        half == IF "N" \in f THEN "H" \in f /\ a % 16 < 6 ELSE a % 16 > 9
    IN  Of(v, SZ(v) \cup Parity(v) \cup Set(high, "C") \cup Set(half, "H")
                \cup (f \cap {"N"}))

\* Shifts: out is the bit that leaves, in the one that comes in.
Shifted(op, a, c) ==
    LET left == op \in {"RLC", "RL", "SLA", "SLL"}
        out == IF left THEN a \div 128 ELSE a % 2
        in == CASE op \in {"RLC", "RRC"} -> out [] op \in {"RL", "RR"} -> c
                [] op = "SRA" -> a \div 128 [] op = "SLL" -> 1
                [] op \in {"SLA", "SRL"} -> 0
        v == IF left THEN ((2 * a) % 256) + in ELSE (a \div 2) + 128 * in
    IN  Of(v, SZ(v) \cup Parity(v) \cup Set(out = 1, "C"))

-----------------------------------------------------------------------------
(* Loads and exchanges.                                                    *)

c == IF "C" \in f THEN 1 ELSE 0
Put(g) == r' = g /\ UNCHANGED mem

Load ==
    /\ ins.op = "LD" /\ Place(ins.x, Operand(ins.y))
    /\ UNCHANGED sp /\ KeepFlags /\ Rest

LoadSpecial ==
    /\ \/ ins.op = "LD I,A" /\ i' = r["A"] /\ UNCHANGED <<rr, r>> /\ KeepFlags
       \/ ins.op = "LD R,A" /\ rr' = r["A"] /\ UNCHANGED <<i, r>> /\ KeepFlags
       \/ \E v \in (IF ins.op = "LD A,I" THEN {i}
                    ELSE IF ins.op = "LD A,R" THEN {rr} ELSE {}) :
            /\ r' = [r EXCEPT !["A"] = v]
            /\ FlagsBecome(SZ(v) \cup Set(iff, "P") \cup (f \cap {"C"}))
            /\ UNCHANGED <<i, rr>>
    /\ UNCHANGED <<mem, sp, iff>> /\ Advance /\ Alternate

LoadWord ==
    /\ ins.op \in {"LDW", "LDW ED"}
    /\ IF ins.x = "(nn)" THEN mem' = WordPut(ins.n, Pair(ins.y)) /\ UNCHANGED <<r, sp>>
       ELSE LET w == CASE ins.y = "nn" -> ins.n [] ins.y = "(nn)" -> WordAt(ins.n)
                       [] OTHER -> Pair(ins.y)
            IN  PlaceWord(ins.x, w) /\ UNCHANGED mem
    /\ KeepFlags /\ Rest

Push == ins.op = "PUSH" /\ mem' = WordPut(Word(sp - 2), Pair(ins.x))
          /\ sp' = Word(sp - 2) /\ UNCHANGED r /\ KeepFlags /\ Rest

Pop ==
    LET w == WordAt(sp)
    IN  /\ ins.op = "POP" /\ sp' = Word(sp + 2) /\ UNCHANGED mem
        /\ IF ins.x = "AF" THEN r' = [r EXCEPT !["A"] = w \div 256] /\ f' = FOf(w % 256)
                           ELSE r' = InPair(r, ins.x, w) /\ KeepFlags
        /\ Rest

Exchange ==
    /\ \/ /\ ins.op = "EX" /\ ins.x = "AF"
          /\ r' = [r EXCEPT !["A"] = r2["A"]] /\ f' = f2
          /\ r2' = [r2 EXCEPT !["A"] = r["A"]] /\ f2' = f /\ UNCHANGED mem
       \/ /\ ins.op = "EXX"
          /\ r' = [z \in Regs |-> IF z \in MainRegs \ {"A"} THEN r2[z] ELSE r[z]]
          /\ r2' = [z \in MainRegs |-> IF z = "A" THEN r2[z] ELSE r[z]]
          /\ UNCHANGED <<f, f2, mem>>
       \/ /\ ins.op = "EX" /\ ins.x = "DE"
          /\ Put(InPair(InPair(r, "DE", Pair("HL")), "HL", Pair("DE")))
          /\ KeepFlags /\ Alternate
       \/ /\ ins.op = "EX" /\ ins.x = "(SP)"
          /\ r' = InPair(r, ins.y, WordAt(sp)) /\ mem' = WordPut(sp, Pair(ins.y))
          /\ KeepFlags /\ Alternate
    /\ UNCHANGED sp /\ Advance /\ Special

-----------------------------------------------------------------------------
(* Arithmetic.                                                             *)

\* A and the flags become those of the result.
Accumulate(result) == Put([r EXCEPT !["A"] = result.v]) /\ FlagsBecome(result.fl)

Arithmetic ==
    /\ \/ ins.op \in ArithOps /\ Accumulate(Computed(ins.op, r["A"], Operand(ins.y), c))
       \/ ins.op = "DAA" /\ Accumulate(Adjusted(r["A"]))
       \/ ins.op = "NEG" /\ Accumulate(Difference(0, r["A"], 0))
       \/ ins.op = "CPL" /\ Accumulate(Of(255 - r["A"],
                                (f \cap {"S", "Z", "P", "C"}) \cup {"H", "N"}))
       \/ ins.op = "SCF" /\ Accumulate(Of(r["A"], (f \cap {"S", "Z", "P"}) \cup {"C"}))
       \/ ins.op = "CCF" /\ Accumulate(Of(r["A"], (f \cap {"S", "Z", "P"})
                                \cup Set(c = 1, "H") \cup Set(c = 0, "C")))
       \/ \E turn \in {<<"RLCA", "RLC">>, <<"RRCA", "RRC">>,
                        <<"RLA", "RL">>, <<"RRA", "RR">>} :
            /\ ins.op = turn[1]
            /\ LET s == Shifted(turn[2], r["A"], c)
               IN  Accumulate(Of(s.v, (f \cap {"S", "Z", "P"}) \cup (s.fl \cap {"C"})))
    /\ UNCHANGED sp /\ Rest

Count ==
    /\ \E result \in (IF ins.op = "INC" THEN {Sum(Operand(ins.x), 1, 0)}
                      ELSE IF ins.op = "DEC" THEN {Difference(Operand(ins.x), 1, 0)}
                      ELSE {}) :
         /\ Place(ins.x, result.v)
         /\ FlagsBecome((result.fl \ {"C"}) \cup (f \cap {"C"}))
    /\ UNCHANGED sp /\ Rest

\* RRD and RLD: three digits, the low one of A and the two of (HL).
RotateDigits ==
    LET m == Operand("(HL)")
        a == r["A"]
        three == IF ins.op = "RRD"
                 THEN <<m % 16, a % 16, m \div 16>> ELSE <<m \div 16, m % 16, a % 16>>
        v == 16 * (a \div 16) + three[1]
    IN  /\ ins.op \in {"RRD", "RLD"}
        /\ r' = [r EXCEPT !["A"] = v]
        /\ mem' = [mem EXCEPT ![Address("(HL)")] = 16 * three[2] + three[3]]
        /\ FlagsBecome(SZ(v) \cup Parity(v) \cup (f \cap {"C"}))
        /\ UNCHANGED sp /\ Rest

CountWord ==
    /\ ins.op \in {"INCW", "DECW"}
    /\ PlaceWord(ins.x, IF ins.op = "INCW" THEN Word(Pair(ins.x) + 1)
                                          ELSE Word(Pair(ins.x) - 1))
    /\ UNCHANGED mem /\ KeepFlags /\ Rest

\* ADD, ADC and SBC of 16 bits.
SumWord ==
    LET x == Pair(ins.x)
        y == Pair(ins.y)
        Becomes(result, fl) == PlaceWord(ins.x, result.v) /\ FlagsBecome(fl)
    IN  /\ \/ /\ ins.op = "ADDW"
              /\ Becomes(Sum16(x, y, 0), (f \cap {"S", "Z", "P"}) \cup (Sum16(x, y, 0).fl \cap {"H", "C"}))
           \/ ins.op = "ADCW" /\ Becomes(Sum16(x, y, c), Sum16(x, y, c).fl)
           \/ ins.op = "SBCW" /\ Becomes(Difference16(x, y, c), Difference16(x, y, c).fl)
        /\ UNCHANGED mem /\ Rest

Bits ==
    LET v == Operand(ins.x)
        one == (v \div 2 ^ ins.n) % 2
        s == Shifted(ins.op, v, c)
    IN  /\ \/ ins.op \in ShiftOps /\ Place(ins.x, s.v) /\ FlagsBecome(s.fl)
           \/ /\ ins.op = "BIT" /\ UNCHANGED <<r, mem>>
              /\ FlagsBecome({"H"} \cup (f \cap {"C"})
                     \cup (IF one = 0 THEN {"Z", "P"} ELSE Set(ins.n = 7, "S")))
           \/ ins.op = "RES" /\ Place(ins.x, v - one * 2 ^ ins.n) /\ KeepFlags
           \/ ins.op = "SET" /\ Place(ins.x, v + (1 - one) * 2 ^ ins.n) /\ KeepFlags
        /\ UNCHANGED sp /\ Rest

-----------------------------------------------------------------------------
(* Jumps.                                                                  *)

Go(to) == pc' = to /\ Alternate
Jump ==
    LET next == Word(pc + Length(ins))
        taken == Holds(ins.x, f)
    IN  /\ \/ ins.op = "JP" /\ Go(IF taken THEN ins.n ELSE next) /\ UNCHANGED <<mem, sp>>
           \/ ins.op = "JP(rr)" /\ Go(Pair(ins.x)) /\ UNCHANGED <<mem, sp>>
           \/ /\ ins.op = "JR" /\ UNCHANGED <<mem, sp>>
              /\ Go(IF taken THEN Word(next + Signed(ins.d)) ELSE next)
           \/ /\ ins.op \in {"CALL", "RST"}
              /\ IF taken THEN /\ Go(ins.n) /\ sp' = Word(sp - 2)
                               /\ mem' = WordPut(Word(sp - 2), next)
                          ELSE Go(next) /\ UNCHANGED <<mem, sp>>
           \/ /\ ins.op = "RET" /\ UNCHANGED mem
              /\ IF taken THEN Go(WordAt(sp)) /\ sp' = Word(sp + 2)
                          ELSE Go(next) /\ UNCHANGED sp
           \/ ins.op = "RETN" /\ Go(WordAt(sp)) /\ sp' = Word(sp + 2) /\ UNCHANGED mem
        /\ UNCHANGED r /\ KeepFlags /\ Special

Loop ==
    LET b == (r["B"] - 1) % 256
        next == Word(pc + Length(ins))
    IN  /\ ins.op = "DJNZ"
        /\ r' = [r EXCEPT !["B"] = b]
        /\ Go(IF b # 0 THEN Word(next + Signed(ins.d)) ELSE next)
        /\ UNCHANGED <<mem, sp>> /\ KeepFlags /\ Special

-----------------------------------------------------------------------------
(* Blocks.  A copy upwards to D bytes above its source repeats the first   *)
(* D bytes of the source; a copy downwards is its mirror image.            *)

once == ins.op \in {"LDI", "LDD", "CPI", "CPD"}
dir == IF ins.op \in {"LDI", "LDIR", "CPI", "CPIR"} THEN 1 ELSE -1
length == IF once THEN 1 ELSE IF Pair("BC") = 0 THEN 65536 ELSE Pair("BC")

Copy ==
    LET from == Pair("HL")
        to == Pair("DE")
        gap == Word(dir * (to - from))
        period == IF gap = 0 THEN 65536 ELSE gap
        At(a) == Word(dir * (a - to))
    IN  /\ ins.op \in {"LDI", "LDD", "LDIR", "LDDR"}
        /\ mem' = [a \in DOMAIN mem |->
                      IF At(a) < length THEN mem[Word(from + dir * (At(a) % period))]
                                        ELSE mem[a]]
        /\ r' = InPair(InPair(InPair(r, "HL", Word(from + dir * length)),
                              "DE", Word(to + dir * length)),
                       "BC", Word(Pair("BC") - length))
        /\ FlagsBecome((f \cap {"S", "Z", "C"}) \cup Set(Pair("BC") # length % 65536, "P"))
        /\ UNCHANGED sp /\ Rest

Search ==
    LET found(k) == mem[Word(Pair("HL") + dir * (k - 1))] = r["A"]
        n == CHOOSE k \in 1 .. length : /\ k = length \/ found(k)
                                        /\ \A j \in 1 .. k - 1 : ~found(j)
        last == mem[Word(Pair("HL") + dir * (n - 1))]
    IN  /\ ins.op \in {"CPI", "CPD", "CPIR", "CPDR"}
        /\ r' = InPair(InPair(r, "HL", Word(Pair("HL") + dir * n)),
                       "BC", Word(Pair("BC") - n))
        /\ FlagsBecome((Difference(r["A"], last, 0).fl \cap {"S", "Z", "H", "N"})
                         \cup (f \cap {"C"}) \cup Set(Pair("BC") # n % 65536, "P"))
        /\ UNCHANGED <<mem, sp>> /\ Rest

Control ==
    /\ \/ ins.op \in {"NOP", "IM", "ED NOP"} /\ UNCHANGED iff
       \/ ins.op = "DI" /\ iff' = FALSE
       \/ ins.op = "EI" /\ iff' = TRUE
    /\ UNCHANGED <<r, f, mem, sp, i, rr>> /\ Advance /\ Alternate

\* The processor stays on a HALT; the program does not go on.
Halt == ins.op = "HALT" /\ code' = Stopped
          /\ UNCHANGED <<r, f, r2, f2, sp, pc, i, rr, iff, mem>>

-----------------------------------------------------------------------------
(* Ports.  What is behind them may answer in A, BC, DE, HL and memory, but *)
(* not move the stack, the index registers, or the alternate ones.         *)

IndexRegisters == \A z \in IndexRegs : r'[z] = r[z]

Port ==
    /\ \/ ins.op \in {"IN", "OUT", "OUT(C)"} \cup InBlockOps \cup OutBlockOps
       \/ /\ ins.op = "IN(C)"
          /\ \E v \in 0 .. 255 :
                /\ ins.x \in MainRegs => r'[ins.x] = v
                /\ FlagsBecome(SZ(v) \cup Parity(v) \cup (f \cap {"C"}))
    /\ ins.op \in {"IN", "OUT", "OUT(C)"} => KeepFlags
    /\ IndexRegisters /\ UNCHANGED sp /\ Rest

-----------------------------------------------------------------------------
(* Decoding.  An opcode is a group of two bits, then y and z of three; p   *)
(* and q are the two parts of y.  DD and FD put an index register in the   *)
(* place of HL and are passed over where HL is not meant.                  *)

Eight == <<"B", "C", "D", "E", "H", "L", "(HL)", "A">>
Conditions == <<"NZ", "Z", "NC", "C", "PO", "PE", "P", "M">>

Unprefixed(x, y, z) ==
    LET p == y \div 2
        q == y % 2
        pair == <<"BC", "DE", "HL", "SP">>[p + 1]
        pushed == <<"BC", "DE", "HL", "AF">>[p + 1]
        I(op, a, b) == Instr(op, a, b, 0, 0)
        onA == <<"ADD", "ADC", "SUB", "SBC", "AND", "XOR", "OR", "CP">>[y + 1]
    IN  CASE x = 0 /\ z = 0 -> IF y = 0 THEN I("NOP", "", "")
                               ELSE IF y = 1 THEN I("EX", "AF", "")
                               ELSE IF y = 2 THEN I("DJNZ", "", "e")
                               ELSE IF y = 3 THEN I("JR", "", "e")
                               ELSE I("JR", Conditions[y - 3], "e")
          [] x = 0 /\ z = 1 -> IF q = 0 THEN I("LDW", pair, "nn") ELSE I("ADDW", "HL", pair)
          [] x = 0 /\ z = 2 ->
                IF y \in {4, 5} THEN IF q = 0 THEN I("LDW", "(nn)", "HL") ELSE I("LDW", "HL", "(nn)")
                ELSE LET at == CASE p = 0 -> "(BC)" [] p = 1 -> "(DE)" [] p = 3 -> "(nn)"
                     IN  IF q = 0 THEN I("LD", at, "A") ELSE I("LD", "A", at)
          [] x = 0 /\ z = 3 -> IF q = 0 THEN I("INCW", pair, "") ELSE I("DECW", pair, "")
          [] x = 0 /\ z = 4 -> I("INC", Eight[y + 1], "")
          [] x = 0 /\ z = 5 -> I("DEC", Eight[y + 1], "")
          [] x = 0 /\ z = 6 -> I("LD", Eight[y + 1], "n")
          [] x = 0 /\ z = 7 ->
                I(<<"RLCA", "RRCA", "RLA", "RRA", "DAA", "CPL", "SCF", "CCF">>[y + 1], "", "")
          [] x = 1 -> IF y = 6 /\ z = 6 THEN I("HALT", "", "") ELSE I("LD", Eight[y + 1], Eight[z + 1])
          [] x = 2 -> I(onA, "A", Eight[z + 1])
          [] x = 3 /\ z = 0 -> I("RET", Conditions[y + 1], "")
          [] x = 3 /\ z = 1 -> IF q = 0 THEN I("POP", pushed, "")
                               ELSE <<I("RET", "", ""), I("EXX", "", ""),
                                      I("JP(rr)", "HL", ""), I("LDW", "SP", "HL")>>[p + 1]
          [] x = 3 /\ z = 2 -> I("JP", Conditions[y + 1], "nn")
          [] x = 3 /\ z = 3 ->
                <<I("JP", "", "nn"), I("prefix", "", ""), I("OUT", "n", "A"), I("IN", "A", "n"),
                  I("EX", "(SP)", "HL"), I("EX", "DE", "HL"), I("DI", "", ""), I("EI", "", "")>>[y + 1]
          [] x = 3 /\ z = 4 -> I("CALL", Conditions[y + 1], "nn")
          [] x = 3 /\ z = 5 -> IF q = 0 THEN I("PUSH", pushed, "")
                               ELSE IF p = 0 THEN I("CALL", "", "nn") ELSE I("prefix", "", "")
          [] x = 3 /\ z = 6 -> I(onA, "A", "n")
          [] x = 3 /\ z = 7 -> Instr("RST", "", "", 0, 8 * y)

BitGroup(x, y, of, with, by) ==
    IF x = 0 THEN Instr(<<"RLC", "RRC", "RL", "RR", "SLA", "SRA", "SLL", "SRL">>[y + 1], of, with, by, 0)
    ELSE Instr(<<"BIT", "RES", "SET">>[x], of, with, by, y)

EdGroup(x, y, z) ==
    LET I(op, a, b) == Instr(op, a, b, 0, 0)
        pair == <<"BC", "DE", "HL", "SP">>[(y \div 2) + 1]
        store == IF pair = "HL" THEN "LDW ED" ELSE "LDW"
        nothing == I("ED NOP", "", "")
    IN  CASE x = 1 /\ z = 0 -> I("IN(C)", IF y = 6 THEN "F" ELSE Eight[y + 1], "")
          [] x = 1 /\ z = 1 -> I("OUT(C)", IF y = 6 THEN "0" ELSE Eight[y + 1], "")
          [] x = 1 /\ z = 2 -> I(IF y % 2 = 0 THEN "SBCW" ELSE "ADCW", "HL", pair)
          [] x = 1 /\ z = 3 -> IF y % 2 = 0 THEN I(store, "(nn)", pair) ELSE I(store, pair, "(nn)")
          [] x = 1 /\ z = 4 -> I("NEG", "", "")
          [] x = 1 /\ z = 5 -> I("RETN", "", "")
          [] x = 1 /\ z = 6 -> IF y \in {0, 2, 3} THEN I("IM", "", "") ELSE nothing
          [] x = 1 /\ z = 7 -> IF y > 5 THEN nothing
                ELSE I(<<"LD I,A", "LD R,A", "LD A,I", "LD A,R", "RRD", "RLD">>[y + 1], "", "")
          [] x = 2 /\ y > 3 /\ z < 4 ->
                I(<<<<"LDI", "CPI", "INI", "OUTI">>, <<"LDD", "CPD", "IND", "OUTD">>,
                    <<"LDIR", "CPIR", "INIR", "OTIR">>, <<"LDDR", "CPDR", "INDR", "OTDR">>>>[y - 3][z + 1],
                  "", "")
          [] OTHER -> nothing

\* An index register takes the place of HL, what it points to that of (HL),
\* and its halves that of H and L where (HL) is not an operand too.
InPlaceOfHL(j, I) ==
    LET half == [h \in {"H", "L"} |-> IF I = "IX" THEN IF h = "H" THEN "IXH" ELSE "IXL"
                                                  ELSE IF h = "H" THEN "IYH" ELSE "IYL"]
        pointed == IF I = "IX" THEN "(IX)" ELSE "(IY)"
        Named(o) == CASE o = "HL" -> I
                      [] o = "(HL)" -> pointed
                      [] o \in {"H", "L"} /\ "(HL)" \notin {j.x, j.y} -> half[o]
                      [] OTHER -> o
    IN  IF j.op = "EX" /\ j.x = "DE" THEN j
        ELSE [j EXCEPT !.x = Named(j.x), !.y = Named(j.y)]

\* The displacement and the immediate operand follow the opcode.
Operands(j, rest) ==
    LET k == Displacement(j)
        number == CASE Immediate(j) = 2 -> {rest[k + 1] + 256 * rest[k + 2]}
                    [] Immediate(j) = 1 -> {rest[k + 1]}
                    [] Immediate(j) = 0 -> {j.n}
    IN  CHOOSE full \in {[j EXCEPT !.d = k * rest[1], !.n = n] : n \in number} : TRUE

Group(b) == b \div 64
Y(b) == (b \div 8) % 8
Z(b) == b % 8

AfterIndexPrefix(b, I) ==
    LET plain == Unprefixed(Group(b[2]), Y(b[2]), Z(b[2]))
        pointed == IF I = "IX" THEN "(IX)" ELSE "(IY)"
    IN  IF b[2] = 203
        THEN IF Z(b[4]) = 6 THEN BitGroup(Group(b[4]), Y(b[4]), pointed, "", b[3])
                            ELSE BitGroup(Group(b[4]), Y(b[4]), Eight[Z(b[4]) + 1], pointed, b[3])
        ELSE IF plain.op = "prefix" \/ InPlaceOfHL(plain, I) = plain
             THEN Instr("NOP", "", "", 0, 0)
             ELSE Operands(InPlaceOfHL(plain, I), <<b[3], b[4]>>)

Decoded(b) ==
    CASE b[1] = 203 -> BitGroup(Group(b[2]), Y(b[2]), Eight[Z(b[2]) + 1], "", 0)
      [] b[1] = 237 -> Operands(EdGroup(Group(b[2]), Y(b[2]), Z(b[2])), <<b[3], b[4]>>)
      [] b[1] = 221 -> AfterIndexPrefix(b, "IX")
      [] b[1] = 253 -> AfterIndexPrefix(b, "IY")
      [] OTHER -> Operands(Unprefixed(Group(b[1]), Y(b[1]), Z(b[1])), <<b[2], b[3], b[4]>>)

\* The instruction at PC becomes the next one to execute.
Fetch ==
    /\ code = <<>>
    /\ code' = <<Decoded([k \in 1 .. 4 |-> mem[Word(pc + k - 1)]])>>
    /\ UNCHANGED <<r, f, r2, f2, sp, pc, i, rr, iff, mem>>

-----------------------------------------------------------------------------

Execute ==
    \/ Load \/ LoadSpecial \/ LoadWord \/ Push \/ Pop \/ Exchange
    \/ Arithmetic \/ Count \/ RotateDigits \/ CountWord \/ SumWord \/ Bits
    \/ Jump \/ Loop \/ Copy \/ Search \/ Control \/ Port

Next ==
    \/ Fetch
    \/ code # <<>> /\ Halt
    \/ code # <<>> /\ Execute /\ code' = Tail(code)

archVars == <<r, f, r2, f2, sp, pc, i, rr, iff, mem, code>>

\* Each step of the program is the step the processor takes.
Steps == [][Next]_archVars
=============================================================================
