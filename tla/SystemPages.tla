------------------------------ MODULE SystemPages ------------------------------
(***************************************************************************)
(* The way into the system.  _PatchCPM puts jumps to the BDOS and the BIOS *)
(* at the addresses CP/M promises, and at the end of each jump a stub of   *)
(* an IN or an OUT and a RET: executed by the soft CPU, the stub is what   *)
(* calls _Bdos or _Bios.  Which function _Bios runs depends on where its   *)
(* stub lies and on nothing else.                                          *)
(***************************************************************************)
EXTENDS Z80Refinement, TLC

Entries == 18

JP  == 195
INa == 219
OUTa == 211
RET == 201

Jump3(a, to) == a :> JP @@ (a + 1) :> to % 256 @@ (a + 2) :> to \div 256
Stub(a, port, by) == a :> by @@ (a + 1) :> port @@ (a + 2) :> RET

\* The entries i = 0, 3, ... of a page of three bytes each.
Page(first, Entry(_)) ==
    [a \in first .. first + 3 * Entries - 1 |-> Entry(3 * ((a - first) \div 3))[a]]

BiosJumps == Page(BIOSjmppage, LAMBDA i : Jump3(BIOSjmppage + i, BIOSpage + i))
BiosStubs == Page(BIOSpage, LAMBDA i : Stub(BIOSpage + i, i, OUTa))

BdosEntry == Jump3(5, BDOSjmppage + 6) @@ Jump3(BDOSjmppage + 6, BDOSpage)
               @@ Stub(BDOSpage, 0, INa)

\* The warm boot at 0, and everything that leads to a system call.
PatchCPM == Jump3(0, BIOSjmppage + 3) @@ BdosEntry @@ BiosJumps @@ BiosStubs

-----------------------------------------------------------------------------
(* A program that loads SP and C, calls one of the entries, and halts.     *)

TPA == 256
Program(stack, n, entry) ==
    TPA :> 49 @@ (TPA + 1) :> stack % 256 @@ (TPA + 2) :> stack \div 256
      @@ (TPA + 3) :> 14 @@ (TPA + 4) :> n
      @@ (TPA + 5) :> 205 @@ (TPA + 6) :> entry % 256 @@ (TPA + 7) :> entry \div 256
      @@ (TPA + 8) :> 118

A == HIGH_REGISTER(reg["AF"])
Word(p) == ADDRMASK(reg[p])

\* What entry number k of the BIOS answers, in the manual's numbering.
BiosAnswered(k) ==
    CASE k = 2 -> A \in {0, 255}
      [] k = 7 -> A = 26
      [] k \in {13, 14} -> A = 0
      [] k = 15 -> A = 255
      [] k = 9 -> Word("HL") = 0
      [] k \in {12, 16} -> Word("HL") = Word("BC")
      [] k \in {0, 1, 17} -> FALSE
      [] OTHER -> TRUE

\* What call n of the BDOS answers, twice: in HL, and in A and B.
BdosAnswered(n) ==
    /\ Word("HL") = 256 * HIGH_REGISTER(reg["BC"]) + A
    /\ LOW_REGISTER(reg["BC"]) = LOW_REGISTER(reg["DE"]) \/ n = 9
    /\ n = 0 => FALSE
    /\ n = 12 => Word("HL") = 34
    /\ n \in {7, 8} => RAM[IOBYTE] = IF n = 7 THEN A ELSE LOW_REGISTER(reg["DE"])
    /\ n \in {2, 4, 5, 9, 10, 26, 30} => A = 0

\* A call of any entry comes back behind itself with the stack as it was and
\* the answer of the function of that entry; only BOOT ends RunCPM, only RETTOCCP
\* says that a program returned, only WBOOT and the BDOS go back to the CCP
\* (cpm.h:27-68 the jumps and stubs, cpm.h:270-343 the BIOS by PCX, cpu.h:35-42).
SystemCallsAnswer ==
    (TPA + 5 \in DOMAIN RAM /\ RAM[TPA + 5] = 205) =>
        LET n == RAM[TPA + 4]
            entry == GET_WORD(TPA + 6)
            k == (entry - BIOSjmppage) \div 3
        IN  /\ Status = 1 => k = 0
            /\ Status = 2 => k = 1 \/ entry = 0 \/ (entry = 5 /\ n \in {0, 10} \cup DiskCalls)
            /\ Status = 3 => k = 17
            /\ code = Stopped => /\ Word("SP") = GET_WORD(TPA + 1)
                                 /\ Word("PC") = TPA + 8
                                 /\ IF entry = 5 THEN BdosAnswered(n) ELSE BiosAnswered(k)
=============================================================================
