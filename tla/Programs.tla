------------------------------ MODULE Programs ------------------------------
(***************************************************************************)
(* Program images for the model-checked machines: every program that is a  *)
(* fixed prologue followed by N instructions of a given alphabet.          *)
(***************************************************************************)
EXTENDS Integers, Sequences, SequencesExt

\* The image with the bytes of a sequence from address base on.
Placed(base, bytes) ==
    [x \in base .. (base + Len(bytes) - 1) |-> bytes[x - base + 1]]

\* An instruction padded with NOPs to three bytes, so that the k-th slot of
\* a body at base begins at base + 3 * (k - 1).
Slot(code) ==
    [i \in 1..3 |-> IF i <= Len(code) THEN code[i] ELSE 0]

Bodies(alphabet, N) ==
    {FlattenSeq([i \in 1..N |-> Slot(p[i])]) : p \in [1..N -> alphabet]}

\* LXI SP reads its operand one byte further than the other LXIs.
LxiSpCode(w) == <<\h31, 0, w % 256, w \div 256>>
LxiDCode(w) == <<\h11, w % 256, w \div 256>>
LxiHCode(w) == <<\h21, w % 256, w \div 256>>

\* Jumps and calls land one byte after the address in their operand.
To(adr) == <<(adr - 1) % 256, (adr - 1) \div 256>>
=============================================================================
