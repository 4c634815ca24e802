------------------------------ MODULE MCLineInput ------------------------------
(***************************************************************************)
(* An instance of LineInput for TLC: a memory the longest buffer just fits *)
(* in, so that buffers run past its end from most addresses.               *)
(***************************************************************************)
EXTENDS LineInput, TLC

CONSTANTS x, y

TwoChars   == {x, y}
AllLimits  == 0..3
Prompts    == {<<>>, <<"p">>}
=============================================================================
