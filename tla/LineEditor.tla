------------------------------ MODULE LineEditor ------------------------------
(***************************************************************************)
(* What a program may rely on when it asks for a line of input (BDOS call  *)
(* 10): the line is edited as a sequence of characters, and is answered    *)
(* when the user ends it or it is as long as was asked for.  There is no   *)
(* memory here, no count and no screen.                                    *)
(***************************************************************************)
EXTENDS Naturals, Sequences

CONSTANTS
    Char,    \* printable characters
    MaxLine  \* the longest line a program can ask for

VARIABLES
    reading,  \* TRUE while a line is edited
    limit,    \* the length that was asked for
    line,     \* what was typed so far
    answer,   \* the last line that was answered
    boot      \* TRUE if the user asked for a warm boot instead

vars == <<reading, limit, line, answer, boot>>

Answer(s) == reading' = FALSE /\ answer' = s /\ line' = <<>>

\* A program asks for n characters; a request for none is answered at once.
Ask(n) ==
    /\ ~reading /\ ~boot /\ limit' = n /\ UNCHANGED boot
    /\ reading' = (n # 0) /\ line' = <<>> /\ answer' = <<>>

\* A character is added, and may be the last there is room for.
Add(ch) ==
    /\ reading /\ UNCHANGED <<limit, boot>>
    /\ IF Len(line) + 1 = limit
         THEN Answer(Append(line, ch))
         ELSE line' = Append(line, ch) /\ UNCHANGED <<reading, answer>>

Rub ==
    /\ reading /\ line # <<>> /\ line' = SubSeq(line, 1, Len(line) - 1)
    /\ UNCHANGED <<reading, limit, answer, boot>>

Clear == reading /\ line' = <<>> /\ UNCHANGED <<reading, limit, answer, boot>>

End == reading /\ Answer(line) /\ UNCHANGED <<limit, boot>>

\* Only an empty line can be given up for a warm boot.
GiveUp == reading /\ line = <<>> /\ Answer(<<>>) /\ boot' = TRUE /\ UNCHANGED limit

\* The CCP starts again.
Reboot == boot /\ boot' = FALSE /\ UNCHANGED <<reading, limit, line, answer>>

Init == reading = FALSE /\ limit = 0 /\ line = <<>> /\ answer = <<>> /\ boot = FALSE

Next ==
    \/ \E n \in 0..MaxLine : Ask(n)
    \/ \E ch \in Char : Add(ch)
    \/ Rub \/ Clear \/ End \/ GiveUp \/ Reboot

Spec == Init /\ [][Next]_vars
=============================================================================
