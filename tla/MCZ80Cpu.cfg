\* Every opcode, every instruction on operands at the edges, every system call.
SPECIFICATION Spec
CONSTANT Starts <- MCStarts
CONSTANT Results <- MCResults
INVARIANT TypeOK
INVARIANT SystemCallsAnswer
PROPERTY ImplementsZ80
\* A program halts, or ends with a system call.
CHECK_DEADLOCK FALSE
