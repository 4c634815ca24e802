------------------------------ MODULE MCZ80Cpu ------------------------------
(***************************************************************************)
(* Programs for the soft CPU: every opcode in memory, and every decoded    *)
(* instruction from registers and operands at the edges of a byte and of a *)
(* word, behind a first instruction that may leave a pair with more than   *)
(* its 16 bits; and calls of the system by each of its entries.            *)
(*                                                                         *)
(* Two bounds on the programs: no word is stored at the last address,      *)
(* where PUT_WORD leaves RAM, and LD A,I does not follow LD I,A, which     *)
(* keeps more of A than the interrupt register has.                        *)
(***************************************************************************)
EXTENDS SystemPages

\* A start from the pairs, memory and a program.
Start(pairs, memory, program) ==
    [reg |-> pairs,
     alt |-> [p \in Alternates |-> 257],
     IR |-> 32768, IFF |-> 3, RAM |-> memory, code |-> program \o Stopped]

\* A start that fetches what it executes from memory.
Fetching(pairs, memory) == [Start(pairs, memory, <<>>) EXCEPT !.code = <<>>]

Base == [p \in Pairs |-> 65534]

\* Ten bytes of memory around its end.
Window == (65531 .. 65535) \cup (0 .. 4)
Memory0 == [a \in Window |-> (a * 53 + 128) % 256]
Holding(v) == [a \in Window |-> v]

-----------------------------------------------------------------------------
(* Every accumulator, with what flags bear on the result.                  *)

OnAccumulator ==
    {One(op) : op \in {"NEG", "CPL", "SCF", "CCF", "RLCA", "RLA", "RRCA", "RRA"}}
      \cup {Of(op, "A", "A") : op \in ArithOps}
      \cup {On(op, "A") : op \in ShiftOps \cup {"INC", "DEC"}}

Accumulators(i) ==
    {Start([Base EXCEPT !["AF"] = 256 * a + FlagByte(f)], Memory0, <<i>>) :
        a \in Byte, f \in {{}, {"C"}}}

Decimals ==
    {Start([Base EXCEPT !["AF"] = 256 * a + FlagByte(f)], Memory0, <<One("DAA")>>) :
        a \in Byte, f \in SUBSET {"C", "H", "N"}}

\* Pairs of operands at the edges of digits, signs and bytes.
Edges == {0, 1, 15, 16, 127, 128, 153, 255}

Operations(op) ==
    {Start([Base EXCEPT !["AF"] = 256 * a + FlagByte(f)], Memory0,
           <<Instr(op, "A", "n", 0, n)>>) :
        a \in Byte, n \in Edges, f \in {{}, {"C"}}}

\* Every byte of a high register, a low register and memory.
OnByte(z) ==
    {On(op, z) : op \in ShiftOps \cup {"INC", "DEC"}}
      \cup {Instr(op, z, "", 255, n) : op \in BitOps, n \in {0, 7}}

Bytes(i) ==
    {Start([Base EXCEPT !["BC"] = 257 * v, !["IX"] = 0,
                        !["AF"] = 4096 + FlagByte(f)], Holding(v), <<i>>) :
        v \in Byte, f \in {{}, {"C"}}}

OnBytes == OnByte("B") \cup OnByte("(IX)")
             \cup {On("INC", "C"), On("DEC", "C"), One("RRD"), One("RLD")}

-----------------------------------------------------------------------------
(* Words, with the carries of a second addition on top of the first.       *)

Words == {0, 1, 4095, 4096, 32767, 32768, 65535}
OnWords == {Of(op, x, y) : op \in {"ADCW", "SBCW"}, x \in {"HL"}, y \in {"HL", "DE", "SP"}}
             \cup {Of("ADDW", x, y) : x \in {"HL", "IX"}, y \in {"DE", "SP"}}
             \cup {Of("ADDW", x, x) : x \in {"HL", "IX", "IY"}}

Sums ==
    {Start([Base EXCEPT !["HL"] = x, !["IX"] = x, !["IY"] = x, !["DE"] = y,
                        !["SP"] = y, !["AF"] = FlagByte(f)], Memory0, <<i, j>>) :
        x \in Words, y \in Words, f \in {{}, {"C"}},
        i \in OnWords, j \in {Of("ADCW", "HL", "DE"), Of("SBCW", "HL", "HL"),
                              On("INC", "H"), On("INCW", "HL")}}

-----------------------------------------------------------------------------
(* Every other instruction, after one that runs a pair over or under.      *)

Overflows ==
    {On("INCW", "BC"), On("INCW", "SP"), On("DECW", "SP"), On("DECW", "HL"),
     On("INC", "A"), On("DEC", "B"), On("INC", "D"), On("INC", "H"), On("INC", "IYH"),
     Of("ADDW", "IX", "IX"), Instr("DJNZ", "", "e", 128, 0), Instr("JR", "", "e", 127, 0)}

Conditions == {"NZ", "Z", "NC", "C", "PO", "PE", "P", "M"}
Indexed == {"(IX)", "(IY)"}
Direct == {"(HL)", "(BC)", "(DE)", "(nn)"}

LoadsByte ==
    {Of("LD", x, y) : x \in MainRegs, y \in MainRegs}
      \cup {Of("LD", x, y) : x \in {"B", "E", "A", "IXH", "IXL"},
                             y \in {"B", "E", "A", "IXH", "IXL"}}
      \cup {Instr("LD", x, "n", 0, 165) : x \in Regs \cup {"(HL)"}}
      \cup UNION {{Instr("LD", "A", m, 0, 65535), Instr("LD", m, "A", 0, 0)} : m \in Direct}
      \cup UNION {{Instr("LD", z, m, d, 0), Instr("LD", m, z, d, 0)} :
                     z \in {"A", "B", "H"}, m \in Indexed, d \in {0, 1, 254}}
      \cup {Instr("LD", m, "n", 1, 90) : m \in Indexed}

LoadsWord ==
    UNION {{Instr("LDW", p, "nn", 0, 65535), Instr("LDW", p, "(nn)", 0, 65535),
            Instr("LDW", "(nn)", p, 0, 65534)} :
              p \in {"BC", "DE", "HL", "IX", "IY", "SP"}}
      \cup {Of("LDW", "SP", p) : p \in {"HL", "IX", "IY"}}
      \cup {On(op, p) : op \in {"PUSH", "POP"}, p \in RegPairs}
      \cup {Of("EX", "(SP)", p) : p \in {"HL", "IX", "IY"}}
      \cup {Of("EX", "DE", "HL"), Of("EX", "AF", ""), One("EXX"),
            One("LD I,A"), One("LD R,A"), One("LD A,I"), One("LD A,R")}

Jumps ==
    UNION {{Instr("JP", cond, "nn", 0, 256), Instr("CALL", cond, "nn", 0, 65535),
            On("RET", cond)} : cond \in Conditions \cup {""}}
      \cup {Instr("JR", cond, "e", 200, 0) : cond \in {"NZ", "Z", "NC", "C", ""}}
      \cup {On("JP(rr)", p) : p \in {"HL", "IX", "IY"}}
      \cup {Instr("RST", "", "", 0, 56), Instr("DJNZ", "", "e", 100, 0)}
      \cup {One(op) : op \in {"RETN", "IM", "NOP", "DI", "EI", "HALT"}}

Arithmetics ==
    {Of(op, "A", z) : op \in ArithOps, z \in {"B", "H", "L", "IXH", "IXL", "(HL)", "(IY)"}}
      \cup {On(op, z) : op \in {"INC", "DEC", "RL", "SRA"}, z \in {"B", "E", "A", "(HL)"}}
      \cup {Instr(op, z, "", 0, 7) : op \in BitOps, z \in {"D", "A", "(HL)"}}
      \cup {One(op) : op \in {"DAA", "NEG", "CPL", "RLA", "RLCA", "RRD", "RLD"}}
      \cup {Instr("CP", "A", "n", 0, 1)}

After(i) ==
    {Start([Base EXCEPT !["BC"] = b, !["DE"] = 65535 - b, !["HL"] = h, !["IX"] = h,
                        !["IY"] = b, !["SP"] = s, !["PC"] = 65535,
                        !["AF"] = 65280 + FlagByte(f)], Memory0, <<i, j>>) :
        b \in {0, 65535}, h \in {0, 65535}, s \in {0, 65535},
        f \in {{}, {"S", "Z", "P", "C"}},
        j \in LoadsByte \cup LoadsWord \cup Jumps \cup Arithmetics}

-----------------------------------------------------------------------------
(* Blocks within the window, overlapping in every way, around its end.     *)

BlockOps == {"LDI", "LDD", "LDIR", "LDDR", "CPI", "CPD", "CPIR", "CPDR"}

Blocks(op) ==
    {Start([Base EXCEPT !["HL"] = from, !["DE"] = to, !["BC"] = n,
                        !["AF"] = 256 * a + FlagByte(f)], Memory0, <<i, One(op)>>) :
        from \in Window, to \in Window, n \in 1 .. 3, a \in {128, 181},
        f \in {{}, {"S", "C"}}, i \in {On("INCW", "DE"), On("DECW", "HL")}}

-----------------------------------------------------------------------------
(* Every opcode, plain and behind each prefix, around the end of memory,   *)
(* which is full of HALT instructions otherwise.                           *)

OpcodeBytes ==
    UNION {{<<b, n, 0, 118>>, <<b, n, 255, 118>>} : b \in Byte, n \in {1, 254}}
      \cup {<<p, b, d, 0>> : p \in {203, 237, 221, 253}, b \in Byte, d \in {1, 254}}
      \cup {<<p, b, 254, 255>> : p \in {237, 221, 253}, b \in Byte}
      \cup {<<p, 203, d, b>> : p \in {221, 253}, b \in Byte, d \in {0, 255}}

\* INIR, OTIR, INDR and OTDR: B = 0 stands for 256 transfers, which no run makes.
ManyTransfers == {178, 179, 186, 187}

At(bytes) == [a \in Window |-> IF ADDRMASK(a + 2) < 4 THEN bytes[ADDRMASK(a + 2) + 1] ELSE 118]

Opcodes ==
    {Fetching([Base EXCEPT !["BC"] = 265, !["HL"] = 65532, !["DE"] = 65533,
                           !["SP"] = 65533, !["AF"] = 37376], At(bytes)) :
        bytes \in OpcodeBytes}

Repeated ==
    {Fetching([Base EXCEPT !["BC"] = 2, !["HL"] = 65532, !["DE"] = 65533,
                           !["SP"] = 65533, !["AF"] = 36973], At(bytes)) :
        bytes \in {bytes \in OpcodeBytes : bytes[1] = 237 => bytes[2] \notin ManyTransfers}}

-----------------------------------------------------------------------------
(* Ports, in the code of every BIOS function, and the entries to it.       *)

PortOps ==
    {Of("IN", "A", "n"), Of("OUT", "n", "A")}
      \cup {On("IN(C)", z) : z \in MainRegs \cup {"F"}}
      \cup {On("OUT(C)", z) : z \in {"B", "0"}}
      \cup {One(op) : op \in InBlockOps \cup OutBlockOps}

Ports(i) ==
    {Start([Base EXCEPT !["PC"] = 3 * k, !["BC"] = 256 * b + ch, !["HL"] = hl,
                        !["DE"] = 65545, !["AF"] = 256 * a + 1], Memory0, <<i>>) :
        k \in 0 .. 18, b \in {1, 2}, ch \in {0, 8, 9, 15}, hl \in {2, 65535},
        a \in {7, 200}}

Stack == 512
Paged == DOMAIN PatchCPM \cup {IOBYTE} \cup (TPA .. TPA + 11) \cup (Stack - 2 .. Stack - 1)
           \cup (BDOSpage .. BDOSpage + 5)
           \cup (BIOSpage + 3 * Entries .. BIOSpage + 3 * Entries + 3)
Patched(n, entry) ==
    LET put == PatchCPM @@ Program(Stack, n, entry) @@ (IOBYTE :> 61)
    IN  [a \in Paged |-> IF a \in DOMAIN put THEN put[a] ELSE 0]

CallNumbers == (0 .. 41) \cup {220, 230, 231} \cup (249 .. 254)

BiosCalls ==
    {Fetching([Base EXCEPT !["PC"] = TPA, !["HL"] = 4660, !["DE"] = 4607], Patched(1, entry)) :
        entry \in {0} \cup {BIOSjmppage + 3 * k : k \in 0 .. Entries - 1}}

BdosCalls ==
    {Fetching([Base EXCEPT !["PC"] = TPA, !["HL"] = 4660, !["DE"] = e], Patched(n, 5)) :
        n \in CallNumbers, e \in {4607, 4610}}

\* What a call may answer: nothing, a key, a word.
MCResults == {0, 3, 65535}

MCStarts ==
    {Accumulators(i) : i \in OnAccumulator} \cup {Operations(op) : op \in ArithOps}
      \cup {Bytes(i) : i \in OnBytes} \cup {After(i) : i \in Overflows}
      \cup {Blocks(op) : op \in BlockOps} \cup {Ports(i) : i \in PortOps}
      \cup {Decimals, Sums, Opcodes, Repeated, BiosCalls, BdosCalls}
=============================================================================
