---------------------------- MODULE Z80Refinement ----------------------------
(***************************************************************************)
(* The soft CPU of cpu.h implements the Z80.  The refinement mapping reads *)
(* the registers the way the code does, through HIGH_REGISTER,             *)
(* LOW_REGISTER and ADDRMASK: what has run out above the 16 bits of a pair *)
(* must never show.                                                        *)
(***************************************************************************)
EXTENDS Z80Cpu

Contents(pairs, z) == IF z \in HighRegs THEN HIGH_REGISTER(pairs[PairOf(z)])
                                        ELSE LOW_REGISTER(pairs[PairOf(z)])

Arch == INSTANCE Z80Arch WITH
            r   <- [z \in Regs |-> Contents(reg, z)],
            f   <- F,
            r2  <- [z \in MainRegs |-> Contents(alt, z)],
            f2  <- FlagsIn(LOW_REGISTER(alt["AF"])),
            sp  <- ADDRMASK(reg["SP"]),
            pc  <- ADDRMASK(reg["PC"]),
            i   <- HIGH_REGISTER(IR),
            rr  <- LOW_REGISTER(IR),
            iff <- (IFF = 3),
            mem <- RAM

\* Every instruction the soft CPU executes leaves the registers, the
\* documented flags, the stack and memory as the processor would: registers
\* kept as ints that are masked late or never, flags looked up in tables by
\* the carries of a sum, blocks copied byte by byte (cpu.h, Z80run).
ImplementsZ80 == Arch!Steps
=============================================================================
