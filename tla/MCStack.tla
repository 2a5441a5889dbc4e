------------------------------ MODULE MCStack ------------------------------
\* The stack instructions over every program of four instructions of an
\* alphabet of saves, restores and instructions that disturb the stack.
EXTENDS CpuStack, Programs

\* The stack starts below the code and runs into it, or is clear of it; or it
\* starts in the code, and what is saved first falls on the first instruction.
StackTops == {3, 4096}
CodeTops == {12, 13, 14}

Prologue(top) == LxiSpCode(top) \o LxiDCode(770) \o LxiHCode(4094)

Body == 10      \* the length of the prologue
SlotAt(k) == Body + 3 * (k - 1)

\* CALL, CNZ and CZ forward; PUSH D, H and PSW; POP B; RET and RZ; SUB A,
\* which sets z; MOV M,A with HL inside the stack; INX SP.
Alphabet ==
    {<<\hCD>> \o To(SlotAt(3)), <<\hC4>> \o To(SlotAt(4)), <<\hCC>> \o To(SlotAt(3)),
     <<\hD5>>, <<\hE5>>, <<\hF5>>, <<\hC1>>, <<\hC9>>, <<\hC8>>,
     <<\h97>>, <<\h77>>, <<\h33>>}

MCImages ==
    {Placed(0, Prologue(top) \o body \o <<\h76>>) :
        top \in StackTops, body \in Bodies(Alphabet, 4)}
    \cup {Placed(0, Prologue(top) \o body \o <<\h76>>) :
        top \in CodeTops, body \in Bodies(Alphabet, 2)}

MCSaveOps == {\hCD, \hC4, \hCC, \hCA, \hD5, \hE5, \hF5}
MCRestoreOps == {\hC9, \hC8, \hC1}

\* The runs stop where execution leaves the bytes it has or comes back to the
\* prologue (HL is loaded last), at the depth that recursion reaches, and
\* where sp has drifted away from the stack.
MaxSaved == 4
MaxDrift == 10
Bounded ==
    /\ pc \in DOMAIN mem
    /\ pc < Body => reg["h"] = 0
    /\ Len(saved) <= MaxSaved
    /\ \E top \in StackTops \cup CodeTops : sp \in (top - MaxDrift)..(top + MaxDrift)
=============================================================================
