------------------------------- MODULE Alu -------------------------------
(***************************************************************************)
(* The arithmetic of src/src/cpu.h and of the accumulator cases of         *)
(* cpu_exec: what an instruction leaves in the accumulator and in the      *)
(* condition codes.  Everything is at the widths of the C types: uint8_t   *)
(* registers, uint16_t or uint32_t intermediate answers, 1-bit flags.      *)
(* The definitions follow the code, surprises included; AluRef compares    *)
(* them with arithmetic on numbers.                                        *)
(***************************************************************************)
EXTENDS Integers

Byte == 0..255
WordMax == 65535
Word == 0..WordMax
Flag == 0..1

\* The five 1-bit fields of ConditionCodes.
Flags == [z : Flag, s : Flag, p : Flag, cy : Flag, ac : Flag]

AsFlag(b) == IF b THEN 1 ELSE 0

\* Bit of weight w of x.
Bit(x, w) == (x \div w) % 2

Hi(w) == w \div 256
Lo(w) == w % 256
MkWord(hi, lo) == hi * 256 + lo

OnBits(F(_, _), x, y) ==
    F(Bit(x, 1), Bit(y, 1)) + 2 * F(Bit(x, 2), Bit(y, 2))
      + 4 * F(Bit(x, 4), Bit(y, 4)) + 8 * F(Bit(x, 8), Bit(y, 8))
      + 16 * F(Bit(x, 16), Bit(y, 16)) + 32 * F(Bit(x, 32), Bit(y, 32))
      + 64 * F(Bit(x, 64), Bit(y, 64)) + 128 * F(Bit(x, 128), Bit(y, 128))

AndBit(p, q) == IF p = 1 /\ q = 1 THEN 1 ELSE 0

OrBit(p, q)  == IF p = 1 \/ q = 1 THEN 1 ELSE 0
XorBit(p, q) == IF p # q THEN 1 ELSE 0

And(x, y) == OnBits(AndBit, x, y)
Or(x, y)  == OnBits(OrBit, x, y)
Xor(x, y) == OnBits(XorBit, x, y)
Not(x)    == 255 - x

---------------------------------------------------------------------------
(* The flag helpers of cpu.h.                                               *)

\* Parity() counts the ones of a byte; every use stores the count into the
\* 1-bit field p, which keeps its lowest bit.
Parity(x) == (Bit(x, 1) + Bit(x, 2) + Bit(x, 4) + Bit(x, 8) + Bit(x, 16)
                + Bit(x, 32) + Bit(x, 64) + Bit(x, 128)) % 2

\* Parity2() first replaces x by the value of x && mask, 0 or 1, and then
\* says whether the number of ones of that is even.
Parity2(x) == LET truth == AsFlag(x # 0) IN AsFlag(truth % 2 = 0)

\* Seeded bug: the carry is set one too late.
ArithFlags_LateCarry(cc, ans) ==
    [cc EXCEPT !.z  = AsFlag(ans % 256 = 0), !.s  = Bit(ans, 128),
               !.cy = AsFlag(ans > 256), !.p  = Parity2(ans % 256)]

\* arith_set_flags(): ans is the 16-bit answer; ac is left alone.
ArithFlags(cc, ans) ==
    [cc EXCEPT !.z  = AsFlag(ans % 256 = 0),
               !.s  = Bit(ans, 128),
               !.cy = AsFlag(ans > 255),
               !.p  = Parity2(ans % 256)]

\* logic_set_flags(): reads the accumulator; z is left alone.
LogicFlags(cc, a) ==
    [cc EXCEPT !.cy = 0, !.ac = 0, !.s = Bit(a, 128), !.p = Parity(a)]

---------------------------------------------------------------------------
(* Accumulator instructions: each gives the new accumulator and flags.      *)

Result(a, cc) == [a |-> a, cc |-> cc]

AddOp(a, r, cc) == Result((a + r) % 256, ArithFlags(cc, a + r))

\* The carry added is the one arith_set_flags has just stored.
AdcOp(a, r, cc) ==
    LET new == ArithFlags(cc, a + r)
    IN  Result((a + r + new.cy) % 256, new)

\* Seeded bug: the difference is kept in 8 bits, so that a borrow is lost.
Minus16_Narrow(a, r) == (a - r) % 256

Minus16(a, r) == (a - r) % 65536

SubOp(a, r, cc) ==
    Result(Minus16(a, r) % 256, ArithFlags(cc, Minus16(a, r)))

SbbOp(a, r, cc) ==
    LET new == ArithFlags(cc, Minus16(a, r))
    IN  Result((Minus16(a, r) + new.cy) % 256, new)

AnaOp(a, r, cc) == Result(And(a, r), LogicFlags(cc, And(a, r)))
XraOp(a, r, cc) == Result(Xor(a, r), LogicFlags(cc, Xor(a, r)))

\* Seeded bug: the flags are set before the accumulator, as in ORI.
OraOp_FlagsFirst(a, r, cc) == Result(Or(a, r), LogicFlags(cc, a))

OraOp(a, r, cc) == Result(Or(a, r), LogicFlags(cc, Or(a, r)))

CmpOp(a, r, cc) == Result(Not(r), LogicFlags(cc, Not(r)))

---------------------------------------------------------------------------
(* The memory forms do arithmetic on the address hl itself.  The uint32_t   *)
(* answer stays below 2^17 in ADC M and SUB M, so its bits 24..31 are zero. *)

WideFlags(cc, a, ans) ==
    [cc EXCEPT !.z = AsFlag(ans = 0), !.p = Parity(a), !.s = 0,
               !.cy = AsFlag(ans > 65535)]

AdcMOp(a, hl, cc) == Result(0, WideFlags(cc, a, a + hl))
SubMOp(a, hl, cc) == Result(0, WideFlags(cc, a, a + hl))

\* SBB M: a - hl wraps to 32 bits; z is left alone.  With a borrow the top
\* byte is 255, unless adding the carry wraps the answer round to 0.
SbbMOp(a, hl, cc) ==
    LET borrow == AsFlag(a < hl)
    IN  Result(IF hl > a + 1 THEN 255 ELSE 0,
               [cc EXCEPT !.s = borrow, !.p = Parity(a), !.cy = borrow])

\* ANA M keeps the high byte of a 16-bit AND of which a has no high byte.
AnaMOp(a, hl, cc) == Result(0, LogicFlags(cc, 0))

\* XRA M, ORA M (the code uses ^ in both) and CMP M set the flags from the
\* old accumulator and only then replace it.
XraMOp(a, hl, cc) == Result(Hi(hl), LogicFlags(cc, a))
CmpMOp(a, hl, cc) == Result(Not(Hi(hl)), LogicFlags(cc, a))

---------------------------------------------------------------------------
(* Immediate forms.                                                         *)

AdiOp(a, d, cc) == Result((a + d) \div 256, ArithFlags(cc, a + d))
AciOp(a, d, cc) == AdcOp(a, d, cc)
AniOp(a, d, cc) == Result(And(a, d), LogicFlags(cc, a))
OriOp(a, d, cc) == Result(Or(a, d), LogicFlags(cc, a))

\* RLC shifts left keeping bit 7 in place of moving it to bit 0; RRC shifts
\* right keeping bit 0.
RlcOp(a, cc) == Result(Or((2 * a) % 256, 128 * Bit(a, 128)),
                       [cc EXCEPT !.cy = Bit(a, 128)])
RrcOp(a, cc) == Result(Or(a \div 2, Bit(a, 1)), [cc EXCEPT !.cy = Bit(a, 1)])

---------------------------------------------------------------------------
(* The processor status word of PUSH PSW and POP PSW.                       *)

PackPsw(cc) == cc.z + 2 * cc.s + 4 * cc.p + 8 * cc.cy + 16 * cc.ac

\* cy is read with the mask 0x05: it is z and p together, not bit 3.
UnpackPsw(psw) ==
    [z |-> Bit(psw, 1), s |-> Bit(psw, 2), p |-> Bit(psw, 4),
     cy |-> AsFlag(Bit(psw, 1) = 1 /\ Bit(psw, 4) = 1), ac |-> Bit(psw, 16)]
=============================================================================
