-------------------------------- MODULE Z80Alu --------------------------------
(***************************************************************************)
(* The arithmetic of the soft CPU (cpu.h): the bytes and flags its         *)
(* instructions compute from bytes and flags, with no state of its own.    *)
(*                                                                         *)
(* The code looks its flags up in tables that the comment at cpu.h:94-119  *)
(* gives a formula for; a table is here its formula, over a set of flags   *)
(* in place of the F byte.  Carries are found as the code finds them: bit  *)
(* w of "acu ^ temp ^ sum" says whether a carry went into bit w.           *)
(***************************************************************************)
EXTENDS Integers

Byte == 0 .. 255

\* Bit(i, w): the bit of weight w of i is set; i may be negative, as the C
\* unsigned arithmetic wraps to its two's complement.
Bit(i, w) == (i \div w) % 2 = 1
When(flag, cond) == IF cond THEN {flag} ELSE {}

LOW_REGISTER(x)  == x % 256
HIGH_REGISTER(x) == (x \div 256) % 256

-----------------------------------------------------------------------------
(* The F register: FLAG_S .. FLAG_C, and bits 5 and 3, YF and XF.          *)

FlagNames == {"S", "Z", "Y", "H", "X", "P", "N", "C"}

FlagByte(f) ==
    LET v(flag, w) == IF flag \in f THEN w ELSE 0
    IN  v("S", 128) + v("Z", 64) + v("Y", 32) + v("H", 16)
          + v("X", 8) + v("P", 4) + v("N", 2) + v("C", 1)

FlagsIn(b) == When("S", Bit(b, 128)) \cup When("Z", Bit(b, 64))
                \cup When("Y", Bit(b, 32)) \cup When("H", Bit(b, 16))
                \cup When("X", Bit(b, 8)) \cup When("P", Bit(b, 4))
                \cup When("N", Bit(b, 2)) \cup When("C", Bit(b, 1))

\* i & 0x28, i & 0xa8, and the latter with the zero flag of the byte i
YX(i)  == When("Y", Bit(i, 32)) \cup When("X", Bit(i, 8))
SYX(i) == YX(i) \cup When("S", Bit(i, 128))
SZYX(i) == SYX(i) \cup When("Z", i % 256 = 0)

-----------------------------------------------------------------------------
(* Bitwise operations on bytes, and the carries of a + b = s.              *)

OfBits(On(_)) ==
    LET v(w) == IF On(w) THEN w ELSE 0
    IN  v(128) + v(64) + v(32) + v(16) + v(8) + v(4) + v(2) + v(1)

And(a, b) == OfBits(LAMBDA w : Bit(a, w) /\ Bit(b, w))
Or(a, b)  == OfBits(LAMBDA w : Bit(a, w) \/ Bit(b, w))
Xor(a, b) == OfBits(LAMBDA w : Bit(a, w) # Bit(b, w))

\* acu ^ temp ^ sum, in the three bits anything is made of
Cbits(a, b, s) ==
    LET v(w) == IF (Bit(a, w) # Bit(b, w)) # Bit(s, w) THEN w ELSE 0
    IN  v(256) + v(128) + v(16)

-----------------------------------------------------------------------------
(* The tables.                                                             *)

\* "P" stands for parityTable[i] = 4: an even number of ones
EvenParity(i) ==
    LET b(w) == (i \div w) % 2
    IN  (b(128) + b(64) + b(32) + b(16) + b(8) + b(4) + b(2) + b(1)) % 2 = 0
parityTable(i) == When("P", EvenParity(i))

incTable(i) == SZYX(i) \cup When("H", i % 16 = 0)
decTable(i) == SZYX(i) \cup When("H", i % 16 = 15) \cup {"N"}

\* With SET_PV2(0x80) and SET_PV2(0x7f) the two above come to the same.
incZ80Table(i) == incTable(i) \cup When("P", i = 128)
decZ80Table(i) == decTable(i) \cup When("P", i = 127)

\* SET_PVS: bits 8 and 7 of cbits differ, the signed result overflowed
SET_PV(cbits) == When("P", Bit(cbits, 256) # Bit(cbits, 128))

cbitsTable(i)      == When("H", Bit(i, 16)) \cup When("C", Bit(i, 256))
cbitsDup8Table(i)  == cbitsTable(i) \cup SZYX(i)
cbitsDup16Table(i) == cbitsTable(i) \cup YX(i)
cbits2Table(i)     == cbitsTable(i) \cup {"N"}
cbitsZ80Table(i)     == cbitsTable(i) \cup SET_PV(i)
cbitsZ80DupTable(i)  == cbitsZ80Table(i) \cup SYX(i)
cbits2Z80Table(i)    == cbitsZ80Table(i) \cup {"N"}
cbits2Z80DupTable(i) == cbits2Z80Table(i) \cup SYX(i)

\* Tables of the byte and its flags: acu is the high byte of an entry.
Result(acu, f) == [acu |-> acu, f |-> f]
addTable(i)         == Result(i % 256, SZYX(i))
subTable(i)         == Result(i % 256, SZYX(i) \cup {"N"})
andTable(i)         == Result(i, SZYX(i) \cup {"H"} \cup parityTable(i))
xororTable(i)       == Result(i, SZYX(i) \cup parityTable(i))
rrdrldTable(i)      == Result(i, SZYX(i) \cup parityTable(i))
rrcaTable(i)        == Result(128 * (i % 2) + i \div 2,
                              YX(i \div 2) \cup When("C", Bit(i, 1)))
rraTable(i)         == Result(i \div 2,
                              YX(i \div 2) \cup When("C", Bit(i, 1)))
rotateShiftTable(i) == SZYX(i) \cup parityTable(i)
negTable(i)         == When("H", i % 16 # 0) \cup When("P", i = 128)
                         \cup {"N"} \cup When("C", i # 0)
cpTable(i)          == When("S", Bit(i, 128)) \cup When("Z", i = 0)

With(result, f) == Result(result.acu, result.f \cup f)

-----------------------------------------------------------------------------
(* ADD to CP: acu is A, temp the operand, c the carry flag as 0 or 1.      *)

Add8(acu, temp, c) ==
    LET sum == acu + temp + c
        cbits == Cbits(acu, temp, sum)
    IN  With(addTable(sum), cbitsTable(cbits) \cup SET_PV(cbits))

Sub8(acu, temp, c) ==
    LET sum == acu - temp - c
        cbits == Cbits(acu, temp, sum)
    IN  With(subTable(sum % 256), cbitsTable(cbits) \cup SET_PV(cbits))

\* A is kept, and YF and XF are those of the operand.
Cp8(acu, temp) ==
    LET sum == acu - temp
        cbits == Cbits(acu, temp, sum)
    IN  Result(acu, cpTable(sum % 256) \cup YX(temp)
                      \cup SET_PV(cbits) \cup cbits2Table(cbits))

Arith8(op, acu, temp, c) ==
    CASE op = "ADD" -> Add8(acu, temp, 0)
      [] op = "ADC" -> Add8(acu, temp, c)
      [] op = "SUB" -> Sub8(acu, temp, 0)
      [] op = "SBC" -> Sub8(acu, temp, c)
      [] op = "AND" -> andTable(And(acu, temp))
      [] op = "XOR" -> xororTable(Xor(acu, temp))
      [] op = "OR"  -> xororTable(Or(acu, temp))
      [] op = "CP"  -> Cp8(acu, temp)

\* The shortcuts taken when the operand is A itself.
Arith8Self(op, acu, c) ==
    LET Twice(cbits) == Result(cbits % 256,
                               cbitsDup8Table(cbits) \cup SET_PV(cbits))
    IN  CASE op = "ADD" -> Twice(2 * acu)
          [] op = "ADC" -> Twice(2 * acu + c)
          [] op = "SUB" -> Result(0, {"Z", "N"})
          [] op = "SBC" -> With(subTable((-c) % 256),
                                cbitsTable(-c) \cup SET_PV(-c))
          [] op = "AND" -> andTable(acu)
          [] op = "XOR" -> Result(0, {"Z", "P"})
          [] op = "OR"  -> xororTable(acu)
          [] op = "CP"  -> Result(acu, YX(acu) \cup {"Z", "N"})

-----------------------------------------------------------------------------
(* DAA.  In the code f's H changes on the way; low is the low digit of A.  *)

DaaSubtract(a, f) ==
    LET low  == a % 16
        hd   == "C" \in f \/ a > 153
        fix  == "H" \in f \/ low > 9
        acu  == (IF fix THEN (a - 6) % 256 ELSE a) - (IF hd THEN 352 ELSE 0)
        half == f \cap (IF fix /\ low > 5 THEN {"N"} ELSE {"N", "H"})
    IN  With(rrdrldTable(acu % 256),
             half \cup When("C", Bit(acu, 256) \/ "C" \in f))

DaaAdd(a, f) ==
    LET low  == a % 16
        fix  == "H" \in f \/ low > 9
        once == IF fix THEN a + 6 ELSE a
        acu  == IF "C" \in f \/ 16 * (once \div 16) > 144
                THEN once + 96 ELSE once
        half == IF fix THEN When("H", low > 9) ELSE f \cap {"H"}
    IN  With(rrdrldTable(acu % 256),
             half \cup When("C", Bit(acu, 256) \/ "C" \in f))

Daa(a, f) == IF "N" \in f THEN DaaSubtract(a, f) ELSE DaaAdd(a, f)

-----------------------------------------------------------------------------
(* The shifts of the CB prefix: the byte, and whether cbits is non-zero.   *)

Shift(op, acu, c) ==
    LET S(temp, cbits) == [temp |-> temp % 256, cbits |-> cbits]
    IN  CASE op = "RLC" -> S(2 * acu + acu \div 128, Bit(acu, 128))
          [] op = "RRC" -> S(acu \div 2 + 128 * (acu % 2), Bit(acu, 1))
          [] op = "RL"  -> S(2 * acu + c, Bit(acu, 128))
          [] op = "RR"  -> S(acu \div 2 + 128 * c, Bit(acu, 1))
          [] op = "SLA" -> S(2 * acu, Bit(acu, 128))
          [] op = "SRA" -> S(acu \div 2 + 128 * (acu \div 128), Bit(acu, 1))
          [] op = "SLL" -> S(2 * acu + 1, Bit(acu, 128))
          [] op = "SRL" -> S(acu \div 2, Bit(acu, 1))
=============================================================================
