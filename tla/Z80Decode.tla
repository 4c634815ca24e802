------------------------------ MODULE Z80Decode ------------------------------
(***************************************************************************)
(* The switches of Z80run: which instruction the bytes at PC are.  Each    *)
(* table is one stretch of case labels, in the order of the source, which  *)
(* writes the cases out one by one: the plain ones, those behind CB and    *)
(* ED, and two copies behind DD and FD that differ in the register pair.   *)
(***************************************************************************)
EXTENDS Z80Instructions

One(op) == Instr(op, "", "", 0, 0)
On(op, x) == Instr(op, x, "", 0, 0)
Of(op, x, y) == Instr(op, x, y, 0, 0)
Restart(a) == Instr("RST", "", "", 0, a)

\* The last three bits of most opcodes, and the eight operations on A.
Low3(b) == b % 8
Column == <<"B", "C", "D", "E", "H", "L", "(HL)", "A">>
Operations8 == <<"ADD", "ADC", "SUB", "SBC", "AND", "XOR", "OR", "CP">>

-----------------------------------------------------------------------------
(* The plain opcodes.                                                      *)

Row00 == <<One("NOP"), Of("LDW", "BC", "nn"), Of("LD", "(BC)", "A"), On("INCW", "BC"),
           On("INC", "B"), On("DEC", "B"), Of("LD", "B", "n"), One("RLCA"),
           Of("EX", "AF", ""), Of("ADDW", "HL", "BC"), Of("LD", "A", "(BC)"), On("DECW", "BC"),
           On("INC", "C"), On("DEC", "C"), Of("LD", "C", "n"), One("RRCA")>>

Row10 == <<Of("DJNZ", "", "e"), Of("LDW", "DE", "nn"), Of("LD", "(DE)", "A"), On("INCW", "DE"),
           On("INC", "D"), On("DEC", "D"), Of("LD", "D", "n"), One("RLA"),
           Of("JR", "", "e"), Of("ADDW", "HL", "DE"), Of("LD", "A", "(DE)"), On("DECW", "DE"),
           On("INC", "E"), On("DEC", "E"), Of("LD", "E", "n"), One("RRA")>>

Row20 == <<Of("JR", "NZ", "e"), Of("LDW", "HL", "nn"), Of("LDW", "(nn)", "HL"), On("INCW", "HL"),
           On("INC", "H"), On("DEC", "H"), Of("LD", "H", "n"), One("DAA"),
           Of("JR", "Z", "e"), Of("ADDW", "HL", "HL"), Of("LDW", "HL", "(nn)"), On("DECW", "HL"),
           On("INC", "L"), On("DEC", "L"), Of("LD", "L", "n"), One("CPL")>>

Row30 == <<Of("JR", "NC", "e"), Of("LDW", "SP", "nn"), Of("LD", "(nn)", "A"), On("INCW", "SP"),
           On("INC", "(HL)"), On("DEC", "(HL)"), Of("LD", "(HL)", "n"), One("SCF"),
           Of("JR", "C", "e"), Of("ADDW", "HL", "SP"), Of("LD", "A", "(nn)"), On("DECW", "SP"),
           On("INC", "A"), On("DEC", "A"), Of("LD", "A", "n"), One("CCF")>>

\* 0x40 .. 0x5f and 0x60 .. 0x7f
LoadsToBCDE == [k \in 0 .. 31 |-> Of("LD", Column[k \div 8 + 1], Column[Low3(k) + 1])]
LoadsToHLMA == [k \in 0 .. 31 |->
    IF k = 22 THEN One("HALT") ELSE Of("LD", Column[k \div 8 + 5], Column[Low3(k) + 1])]

\* 0x80 .. 0xbf
OnA == [k \in 0 .. 63 |-> Of(Operations8[k \div 8 + 1], "A", Column[Low3(k) + 1])]

RowC0 == <<On("RET", "NZ"), On("POP", "BC"), Of("JP", "NZ", "nn"), Of("JP", "", "nn"),
           Of("CALL", "NZ", "nn"), On("PUSH", "BC"), Of("ADD", "A", "n"), Restart(0),
           On("RET", "Z"), On("RET", ""), Of("JP", "Z", "nn"), One("prefix"),
           Of("CALL", "Z", "nn"), Of("CALL", "", "nn"), Of("ADC", "A", "n"), Restart(8)>>

RowD0 == <<On("RET", "NC"), On("POP", "DE"), Of("JP", "NC", "nn"), Of("OUT", "n", "A"),
           Of("CALL", "NC", "nn"), On("PUSH", "DE"), Of("SUB", "A", "n"), Restart(16),
           On("RET", "C"), One("EXX"), Of("JP", "C", "nn"), Of("IN", "A", "n"),
           Of("CALL", "C", "nn"), One("prefix"), Of("SBC", "A", "n"), Restart(24)>>

RowE0 == <<On("RET", "PO"), On("POP", "HL"), Of("JP", "PO", "nn"), Of("EX", "(SP)", "HL"),
           Of("CALL", "PO", "nn"), On("PUSH", "HL"), Of("AND", "A", "n"), Restart(32),
           On("RET", "PE"), On("JP(rr)", "HL"), Of("JP", "PE", "nn"), Of("EX", "DE", "HL"),
           Of("CALL", "PE", "nn"), One("prefix"), Of("XOR", "A", "n"), Restart(40)>>

RowF0 == <<On("RET", "P"), On("POP", "AF"), Of("JP", "P", "nn"), One("DI"),
           Of("CALL", "P", "nn"), On("PUSH", "AF"), Of("OR", "A", "n"), Restart(48),
           On("RET", "M"), Of("LDW", "SP", "HL"), Of("JP", "M", "nn"), One("EI"),
           Of("CALL", "M", "nn"), One("prefix"), Of("CP", "A", "n"), Restart(56)>>

Plain == [b \in 0 .. 255 |->
    LET k == (b % 16) + 1
    IN  CASE b \div 16 = 0 -> Row00[k] [] b \div 16 = 1 -> Row10[k]
          [] b \div 16 = 2 -> Row20[k] [] b \div 16 = 3 -> Row30[k]
          [] b \in 64 .. 95 -> LoadsToBCDE[b - 64] [] b \in 96 .. 127 -> LoadsToHLMA[b - 96]
          [] b \in 128 .. 191 -> OnA[b - 128]
          [] b \div 16 = 12 -> RowC0[k] [] b \div 16 = 13 -> RowD0[k]
          [] b \div 16 = 14 -> RowE0[k] [] b \div 16 = 15 -> RowF0[k]]

-----------------------------------------------------------------------------
(* CB: op & 0xc0 and op & 0x38 give the operation, op & 7 the operand.     *)

Shifts == <<"RLC", "RRC", "RL", "RR", "SLA", "SRA", "SLL", "SRL">>

BitsOf(b, x, y, d) ==
    CASE b < 64 -> Instr(Shifts[b \div 8 + 1], x, y, d, 0)
      [] b \in 64 .. 127 -> Instr("BIT", x, y, d, (b \div 8) % 8)
      [] b \in 128 .. 191 -> Instr("RES", x, y, d, (b \div 8) % 8)
      [] b > 191 -> Instr("SET", x, y, d, (b \div 8) % 8)

Bits == [b \in 0 .. 255 |-> BitsOf(b, Column[Low3(b) + 1], "", 0)]

\* DD CB and FD CB read the displacement first.  A column other than (HL)
\* names the plain register, which is both read and written.
IndexBits(b, I, d) ==
    LET x == Column[Low3(b) + 1]
    IN  IF x = "(HL)" THEN BitsOf(b, I, "", d) ELSE BitsOf(b, x, I, d)

-----------------------------------------------------------------------------
(* ED.  A word at (nn) goes to HL by an opcode of two bytes as well.  Each  *)
(* stretch leaves the opcodes it does not have to what is otherwise done.  *)

EdRows40(b, otherwise) ==
    CASE b = 64 -> On("IN(C)", "B") [] b = 65 -> On("OUT(C)", "B") [] b = 66 -> Of("SBCW", "HL", "BC")
      [] b = 67 -> Of("LDW", "(nn)", "BC") [] b = 70 -> One("IM") [] b = 71 -> One("LD I,A")
      [] b = 72 -> On("IN(C)", "C") [] b = 73 -> On("OUT(C)", "C") [] b = 74 -> Of("ADCW", "HL", "BC")
      [] b = 75 -> Of("LDW", "BC", "(nn)") [] b = 79 -> One("LD R,A")
      [] b = 80 -> On("IN(C)", "D") [] b = 81 -> On("OUT(C)", "D") [] b = 82 -> Of("SBCW", "HL", "DE")
      [] b = 83 -> Of("LDW", "(nn)", "DE") [] b = 86 -> One("IM") [] b = 87 -> One("LD A,I")
      [] b = 88 -> On("IN(C)", "E") [] b = 89 -> On("OUT(C)", "E") [] b = 90 -> Of("ADCW", "HL", "DE")
      [] b = 91 -> Of("LDW", "DE", "(nn)") [] b = 94 -> One("IM") [] b = 95 -> One("LD A,R")
      [] OTHER -> otherwise

EdRows60(b, otherwise) ==
    CASE b = 96 -> On("IN(C)", "H") [] b = 97 -> On("OUT(C)", "H") [] b = 98 -> Of("SBCW", "HL", "HL")
      [] b = 99 -> Of("LDW ED", "(nn)", "HL") [] b = 103 -> One("RRD")
      [] b = 104 -> On("IN(C)", "L") [] b = 105 -> On("OUT(C)", "L") [] b = 106 -> Of("ADCW", "HL", "HL")
      [] b = 107 -> Of("LDW ED", "HL", "(nn)") [] b = 111 -> One("RLD")
      [] b = 112 -> On("IN(C)", "F") [] b = 113 -> On("OUT(C)", "0") [] b = 114 -> Of("SBCW", "HL", "SP")
      [] b = 115 -> Of("LDW", "(nn)", "SP")
      [] b = 120 -> On("IN(C)", "A") [] b = 121 -> On("OUT(C)", "A") [] b = 122 -> Of("ADCW", "HL", "SP")
      [] b = 123 -> Of("LDW", "SP", "(nn)")
      [] OTHER -> otherwise

EdBlocks(b, otherwise) ==
    CASE b = 160 -> One("LDI") [] b = 161 -> One("CPI") [] b = 162 -> One("INI") [] b = 163 -> One("OUTI")
      [] b = 168 -> One("LDD") [] b = 169 -> One("CPD") [] b = 170 -> One("IND") [] b = 171 -> One("OUTD")
      [] b = 176 -> One("LDIR") [] b = 177 -> One("CPIR") [] b = 178 -> One("INIR") [] b = 179 -> One("OTIR")
      [] b = 184 -> One("LDDR") [] b = 185 -> One("CPDR") [] b = 186 -> One("INDR") [] b = 187 -> One("OTDR")
      [] OTHER -> otherwise

\* NEG, RETN and RETI also go by opcodes that are not official.
EdNegRet(b, otherwise) ==
    CASE b \in {68, 76, 84, 92, 100, 108, 116, 124} -> One("NEG")
      [] b \in {69, 77, 85, 93, 101, 109, 117, 125} -> One("RETN")
      [] OTHER -> otherwise

\* ED and the byte behind it are passed over when they mean nothing.
Extended(b) == EdRows40(b, EdNegRet(b, EdRows60(b, EdBlocks(b, One("ED NOP")))))

-----------------------------------------------------------------------------
(* DD and FD: I is the index register, h and l its halves, m what it       *)
(* points to.  Loads to and from m keep the plain H and L.                 *)

IndexWords(b, I, h, l, m, otherwise) ==
    CASE b = 9 -> Of("ADDW", I, "BC") [] b = 25 -> Of("ADDW", I, "DE") [] b = 41 -> Of("ADDW", I, I)
      [] b = 57 -> Of("ADDW", I, "SP")
      [] b = 33 -> Of("LDW", I, "nn") [] b = 34 -> Of("LDW", "(nn)", I) [] b = 42 -> Of("LDW", I, "(nn)")
      [] b = 35 -> On("INCW", I) [] b = 43 -> On("DECW", I)
      [] b = 36 -> On("INC", h) [] b = 37 -> On("DEC", h) [] b = 38 -> Of("LD", h, "n")
      [] b = 44 -> On("INC", l) [] b = 45 -> On("DEC", l) [] b = 46 -> Of("LD", l, "n")
      [] b = 52 -> On("INC", m) [] b = 53 -> On("DEC", m) [] b = 54 -> Of("LD", m, "n")
      [] OTHER -> otherwise

IndexLoads(b, h, l, m, otherwise) ==
    LET Indexed == <<"B", "C", "D", "E", h, l, m, "A">>
        to == b \div 8 - 7
        from == Low3(b) + 1
    IN  IF b \in (64 .. 127) \ {118} /\ (Low3(b) \in {4, 5, 6} \/ b \in 96 .. 119)
        THEN IF m \in {Indexed[to], Indexed[from]}
             THEN Of("LD", IF to = 7 THEN m ELSE Column[to], IF from = 7 THEN m ELSE Column[from])
             ELSE Of("LD", Indexed[to], Indexed[from])
        ELSE otherwise

IndexOnA(b, h, l, m, otherwise) ==
    IF b \in 128 .. 191 /\ Low3(b) \in {4, 5, 6}
    THEN Of(Operations8[b \div 8 - 15], "A", <<h, l, m>>[Low3(b) - 3])
    ELSE otherwise

IndexStack(b, I, otherwise) ==
    CASE b = 225 -> On("POP", I) [] b = 227 -> Of("EX", "(SP)", I) [] b = 229 -> On("PUSH", I)
      [] b = 233 -> On("JP(rr)", I) [] b = 249 -> Of("LDW", "SP", I)
      [] OTHER -> otherwise

DdWords(b, otherwise) == IndexWords(b, "IX", "IXH", "IXL", "(IX)", otherwise)
DdLoads(b, otherwise) == IndexLoads(b, "IXH", "IXL", "(IX)", otherwise)
DdOnA(b, otherwise) == IndexOnA(b, "IXH", "IXL", "(IX)", otherwise)
DdStack(b, otherwise) == IndexStack(b, "IX", otherwise)
DdBits(b, d) == IndexBits(b, "(IX)", d)

FdWords(b, otherwise) == IndexWords(b, "IY", "IYH", "IYL", "(IY)", otherwise)
FdLoads(b, otherwise) == IndexLoads(b, "IYH", "IYL", "(IY)", otherwise)
FdOnA(b, otherwise) == IndexOnA(b, "IYH", "IYL", "(IY)", otherwise)
FdStack(b, otherwise) == IndexStack(b, "IY", otherwise)
FdBits(b, d) == IndexBits(b, "(IY)", d)

\* A DD or FD that changes nothing is given back by --PC: it is passed over alone.
DdTable(b) == DdWords(b, DdLoads(b, DdOnA(b, DdStack(b, One("NOP")))))
FdTable(b) == FdWords(b, FdLoads(b, FdOnA(b, FdStack(b, One("NOP")))))

-----------------------------------------------------------------------------

\* An instruction with its displacement and immediate operand, in this order,
\* from the bytes behind the opcode.
WithOperands(i, rest) ==
    LET k == Displacement(i)
    IN  [i EXCEPT !.d = IF k = 1 THEN rest[1] ELSE 0,
                  !.n = CASE Immediate(i) = 2 -> rest[k + 1] + 256 * rest[k + 2]
                          [] Immediate(i) = 1 -> rest[k + 1]
                          [] OTHER -> @]

\* The instruction at the first of four bytes.
Decode(b) ==
    LET After(Table(_), Cb(_, _)) ==
            IF b[2] = 203 THEN Cb(b[4], b[3]) ELSE WithOperands(Table(b[2]), <<b[3], b[4]>>)
    IN  CASE b[1] = 203 -> Bits[b[2]]
          [] b[1] = 237 -> WithOperands(Extended(b[2]), <<b[3], b[4]>>)
          [] b[1] = 221 -> After(DdTable, DdBits)
          [] b[1] = 253 -> After(FdTable, FdBits)
          [] OTHER -> WithOperands(Plain[b[1]], <<b[2], b[3], b[4]>>)
=============================================================================
