------------------------------- MODULE AluRef -------------------------------
(***************************************************************************)
(* The accumulator operations of Alu against arithmetic on numbers, on     *)
(* every pair of bytes and both values of the carry.  The state only       *)
(* enumerates the operands; the properties are about what Alu makes of     *)
(* them.                                                                   *)
(***************************************************************************)
EXTENDS Alu

VARIABLES
    x,      \* the accumulator before the operation
    y,      \* the other operand
    carry   \* the carry flag before the operation

operands == <<x, y, carry>>

RefInit == x \in Byte /\ y = 0 /\ carry \in Flag

NextOperand == y < 255 /\ y' = y + 1 /\ UNCHANGED <<x, carry>>

RefSpec == RefInit /\ [][NextOperand]_operands

Before == [z |-> 0, s |-> 0, p |-> 0, cy |-> carry, ac |-> 0]

---------------------------------------------------------------------------
\* ADD loses nothing: accumulator and carry together are the sum, and z and s
\* are those of the accumulator it leaves (arith_set_flags sees 16 bits).
AddExact ==
    LET sum == AddOp(x, y, Before)
    IN  /\ sum.a + 256 * sum.cc.cy = x + y
        /\ sum.cc.z = 1 <=> sum.a = 0
        /\ sum.cc.s = 1 <=> sum.a >= 128

\* SUB borrows exactly when it must, is undone by ADD, which carries exactly
\* when SUB borrowed, and agrees with adding the complement that CMA makes.
SubExact ==
    LET diff == SubOp(x, y, Before)
        back == AddOp(diff.a, y, diff.cc)
    IN  /\ diff.a - 256 * diff.cc.cy = x - y
        /\ back.a = x /\ back.cc.cy = diff.cc.cy
        /\ diff.a = AddOp(AddOp(x, Not(y), Before).a, 1, Before).a

\* ANA, ORA and XRA are the three parts of an addition without carries, and
\* the p flags of the three agree as counts of ones must.
LogicParts ==
    LET both == AnaOp(x, y, Before)
        some == OraOp(x, y, Before)
        one == XraOp(x, y, Before)
    IN  /\ both.a + some.a = x + y
        /\ one.a + 2 * both.a = x + y
        /\ some.a = Not(And(Not(x), Not(y)))
        /\ one.cc.p = (both.cc.p + some.cc.p) % 2
        /\ \A r \in {both, some, one} : r.cc.cy = 0 /\ (r.cc.s = 1 <=> r.a >= 128)

\* logic_set_flags reads the accumulator (cpu.h:97).  Behind ANA, ORA, XRA and
\* CMP of a register the flags are those of the accumulator left: ANA A, which
\* only sets flags, changes nothing more.  ANI, ORI, XRA M, ORA M and CMP M
\* call it before they assign (cpu.c:1597): the flags they leave are those ANA A
\* would have left before, one instruction late, and executed a second time
\* they catch up.
FlagsFollow ==
    LET Settled(a, cc) == AnaOp(a, a, cc)
        ani == AniOp(x, y, Before)
        ori == OriOp(x, y, Before)
        xraM == XraMOp(x, MkWord(y, x), Before)
        cmpM == CmpMOp(x, MkWord(y, x), Before)
    IN  /\ \A r \in {AnaOp(x, y, Before), OraOp(x, y, Before),
                     XraOp(x, y, Before), CmpOp(x, y, Before)} :
              Settled(r.a, r.cc) = r
        /\ \A r \in {ani, ori, xraM, cmpM} : r.cc = Settled(x, Before).cc
        /\ AniOp(ani.a, y, ani.cc) = AnaOp(x, y, Before)
        /\ OriOp(ori.a, y, ori.cc) = OraOp(x, y, Before)
        /\ XraMOp(xraM.a, MkWord(y, x), xraM.cc) = Settled(y, Before)
        /\ CmpMOp(cmpM.a, MkWord(y, x), cmpM.cc) = CmpOp(x, y, Before)

\* The logic instructions in all their forms: what is computed, and of what the
\* flags are.
LogicExact == LogicParts /\ FlagsFollow

\* "ADC B  (A <- A + B + CY)", src/cpu.c:907: the carry added is the one from
\* before the addition.
AdcAddsCarry == AdcOp(x, y, Before).a = (x + y + carry) % 256
=============================================================================
