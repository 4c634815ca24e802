--------------------------- MODULE Z80Instructions ---------------------------
(***************************************************************************)
(* The Z80 instructions as the soft CPU and the processor it emulates both *)
(* see them: decoded, with their operands named as the comments of the     *)
(* cases in cpu.h name them.                                               *)
(*                                                                         *)
(* An instruction is a record of its operation, up to two operands, an     *)
(* index displacement d, and a number n (an immediate byte or word, a bit  *)
(* number, a restart address).                                             *)
(***************************************************************************)
EXTENDS Integers, Sequences

Instr(op, x, y, d, n) == [op |-> op, x |-> x, y |-> y, d |-> d, n |-> n]

MainRegs == {"A", "B", "C", "D", "E", "H", "L"}
IndexRegs == {"IXH", "IXL", "IYH", "IYL"}
Regs == MainRegs \cup IndexRegs
HighRegs == {"A", "B", "D", "H", "IXH", "IYH"}
Memory == {"(HL)", "(BC)", "(DE)", "(IX)", "(IY)", "(nn)"}
Operands8 == Regs \cup Memory \cup {"n"}

RegPairs == {"AF", "BC", "DE", "HL", "IX", "IY"}
Pairs == RegPairs \cup {"SP", "PC"}
PairOf(z) ==
    CASE z = "A" -> "AF"
      [] z \in {"B", "C"} -> "BC"
      [] z \in {"D", "E"} -> "DE"
      [] z \in {"H", "L"} -> "HL"
      [] z \in {"IXH", "IXL"} -> "IX"
      [] z \in {"IYH", "IYL"} -> "IY"

\* What is left to execute of a program that has halted: nothing that runs.
Stopped == <<Instr("", "", "", 0, 0)>>

ArithOps == {"ADD", "ADC", "SUB", "SBC", "AND", "XOR", "OR", "CP"}
ShiftOps == {"RLC", "RRC", "RL", "RR", "SLA", "SRA", "SLL", "SRL"}
BitOps   == {"BIT", "RES", "SET"}

\* int8: a displacement byte is signed.
Int8(b) == IF b > 127 THEN b - 256 ELSE b

\* The flag a condition tests, and whether it must be set.
Holds(cond, f) ==
    CASE cond = "NZ" -> "Z" \notin f
      [] cond = "Z"  -> "Z" \in f
      [] cond = "NC" -> "C" \notin f
      [] cond = "C"  -> "C" \in f
      [] cond = "PO" -> "P" \notin f
      [] cond = "PE" -> "P" \in f
      [] cond = "P"  -> "S" \notin f
      [] cond = "M"  -> "S" \in f
      [] cond = ""   -> TRUE

InBlockOps == {"INI", "IND", "INIR", "INDR"}
OutBlockOps == {"OUTI", "OUTD", "OTIR", "OTDR"}

-----------------------------------------------------------------------------
(* The instructions there are: what the operands of each operation may be. *)

\* The operations behind ED, and all of them; "" is what follows a HALT.
EdOps == {"ADCW", "SBCW", "NEG", "RETN", "IM", "RRD", "RLD", "LDW ED", "ED NOP",
          "LD I,A", "LD R,A", "LD A,I", "LD A,R", "IN(C)", "OUT(C)",
          "LDI", "LDD", "LDIR", "LDDR", "CPI", "CPD", "CPIR", "CPDR"}
         \cup InBlockOps \cup OutBlockOps
AllOps ==
    {"", "NOP", "HALT", "LD", "LDW", "INC", "DEC", "INCW", "DECW", "ADDW", "EX", "EXX",
     "PUSH", "POP", "RLCA", "RRCA", "RLA", "RRA", "DAA", "CPL", "SCF", "CCF", "DI", "EI",
     "JP", "JP(rr)", "JR", "DJNZ", "CALL", "RET", "RST", "IN", "OUT"}
      \cup ArithOps \cup ShiftOps \cup BitOps \cup EdOps

\* Operands of any kind; "0" is what OUT (C),0 writes.
ConditionNames == {"NZ", "Z", "NC", "C", "PO", "PE", "P", "M"}
AnyOperand == Operands8 \cup Pairs \cup ConditionNames \cup {"", "F", "0", "nn", "e", "(SP)"}

\* Pairs that hold words: AF is only pushed, popped and exchanged.
WordRegs == (RegPairs \ {"AF"}) \cup {"SP"}
Indexable == {"HL", "IX", "IY"}

\* The loads and exchanges of words there are cases for.
WordLoads ==
    {<<"(nn)", p>> : p \in WordRegs} \cup {<<p, "nn">> : p \in WordRegs}
      \cup {<<p, "(nn)">> : p \in WordRegs} \cup {<<"SP", p>> : p \in Indexable}
Exchanges == {<<"AF", "">>, <<"DE", "HL">>} \cup {<<"(SP)", p>> : p \in Indexable}

\* What the case of an operation relies on: its first operand, and both.
OneOperand(i) ==
    /\ i.op \in {"PUSH", "POP"} => i.x \in RegPairs
    /\ i.op \in {"INC", "DEC"} \cup ShiftOps \cup BitOps => i.x \in Regs \cup Memory
    /\ i.op \in BitOps => i.n \in 0 .. 7
    /\ i.op \in {"INCW", "DECW"} => i.x \in WordRegs
    /\ i.op = "JP(rr)" => i.x \in Indexable
    /\ i.op = "IN" => i.x = "A"
    /\ i.op = "IN(C)" => i.x \in MainRegs \cup {"F"}

TwoOperands(i) ==
    /\ i.op = "LD" => /\ i.x \in Regs \cup Memory
                      /\ i.y \in IF i.x \in Memory THEN Regs \cup {"n"} ELSE Operands8
    /\ i.op \in {"LDW", "LDW ED"} => <<i.x, i.y>> \in WordLoads
    /\ i.op = "EX" => <<i.x, i.y>> \in Exchanges
    /\ i.op \in ArithOps => i.y \in Operands8
    /\ i.op \in {"ADDW", "ADCW", "SBCW"} => i.y \in WordRegs
    /\ i.op = "ADDW" => i.x \in Indexable
    /\ i.op \in {"ADCW", "SBCW"} => i.x = "HL"

\* Instructions as they are decoded.
Displacements == 0 .. 255
Word16 == {w \in Nat : w < 65536}
Instructions ==
    {i \in [op : AllOps, x : AnyOperand, y : AnyOperand, d : Displacements, n : Word16] :
        ("n" \in {i.x, i.y} => i.n \in Displacements) /\ OneOperand(i) /\ TwoOperands(i)}

-----------------------------------------------------------------------------
(* Bytes an instruction occupies: its prefix, its opcode, a displacement,  *)
(* and an immediate operand.                                               *)

Prefix(i) ==
    LET z == {i.x, i.y}
    IN  IF z \cap (IndexRegs \cup {"IX", "IY", "(IX)", "(IY)"}) # {}
        THEN IF i.op \in ShiftOps \cup BitOps THEN 2 ELSE 1
        ELSE IF \/ i.op \in EdOps \cup ShiftOps \cup BitOps
                \/ /\ i.op = "LDW"
                   /\ {i.x, i.y} \in {{p, "(nn)"} : p \in {"BC", "DE", "SP"}}
        THEN 1 ELSE 0

Displacement(i) ==
    IF {i.x, i.y} \cap {"(IX)", "(IY)", "e"} # {} THEN 1 ELSE 0

Immediate(i) ==
    LET z == {i.x, i.y}
    IN  IF z \cap {"nn", "(nn)"} # {} THEN 2 ELSE IF "n" \in z THEN 1 ELSE 0

Length(i) == Prefix(i) + 1 + Displacement(i) + Immediate(i)
=============================================================================
