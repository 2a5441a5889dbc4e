---------------------------- MODULE AluRef_proof ----------------------------
(***************************************************************************)
(* Proofs that the accumulator operations of Alu are arithmetic on         *)
(* numbers, for every pair of bytes.                                       *)
(***************************************************************************)
EXTENDS AluRef, TLAPS

RefInv == x \in Byte /\ y \in Byte /\ carry \in Flag

LEMMA RefInvHolds == RefSpec => []RefInv
<1>1. RefInit => RefInv
  BY DEF RefInit, RefInv, Byte
<1>2. RefInv /\ [NextOperand]_operands => RefInv'
  BY DEF RefInv, NextOperand, operands, Byte
<1> QED
  BY <1>1, <1>2, PTL DEF RefSpec

\* arith_set_flags.
LEMMA FlagsAre ==
  ASSUME NEW cc \in Flags, NEW ans \in Int
  PROVE  /\ ArithFlags(cc, ans) \in Flags
         /\ ArithFlags(cc, ans).cy = AsFlag(ans > 255)
         /\ ArithFlags(cc, ans).z = AsFlag(ans % 256 = 0)
         /\ ArithFlags(cc, ans).s = Bit(ans, 128)
<1> DEFINE z == AsFlag(ans % 256 = 0)
           s == Bit(ans, 128)
           cy == AsFlag(ans > 255)
           p == Parity2(ans % 256)
<1>1. z \in Flag /\ cy \in Flag /\ p \in Flag
  BY DEF AsFlag, Parity2, Flag
<1>2. s \in Flag
  BY DEF Bit, Flag
<1>3. ArithFlags(cc, ans) = [cc EXCEPT !.z = z, !.s = s, !.cy = cy, !.p = p]
  BY DEF ArithFlags
<1> HIDE DEF z, s, cy, p
<1>4. /\ ArithFlags(cc, ans) \in Flags
      /\ ArithFlags(cc, ans).cy = cy /\ ArithFlags(cc, ans).z = z /\ ArithFlags(cc, ans).s = s
  BY <1>1, <1>2, <1>3 DEF Flags
<1> QED
  BY <1>4 DEF z, s, cy

\* The result and the flags of ADD and SUB.
LEMMA AddIs ==
  ASSUME NEW a \in Byte, NEW r \in Byte, NEW cc \in Flags
  PROVE  /\ AddOp(a, r, cc).a = (a + r) % 256
         /\ AddOp(a, r, cc).cc \in Flags
         /\ AddOp(a, r, cc).cc.cy = AsFlag(a + r > 255)
         /\ AddOp(a, r, cc).cc.z = AsFlag((a + r) % 256 = 0)
         /\ AddOp(a, r, cc).cc.s = Bit(a + r, 128)
<1> DEFINE ans == a + r
<1>1. ans \in Int
  BY DEF Byte
<1>2. AddOp(a, r, cc).a = ans % 256 /\ AddOp(a, r, cc).cc = ArithFlags(cc, ans)
  BY DEF AddOp, Result
<1> HIDE DEF ans
<1>3. /\ AddOp(a, r, cc).a = ans % 256
      /\ AddOp(a, r, cc).cc \in Flags
      /\ AddOp(a, r, cc).cc.cy = AsFlag(ans > 255)
      /\ AddOp(a, r, cc).cc.z = AsFlag(ans % 256 = 0)
      /\ AddOp(a, r, cc).cc.s = Bit(ans, 128)
  BY SMTT(30), <1>1, <1>2, FlagsAre
<1> QED
  BY <1>3 DEF ans

LEMMA SubIs ==
  ASSUME NEW a \in Byte, NEW r \in Byte, NEW cc \in Flags
  PROVE  /\ SubOp(a, r, cc).a = Minus16(a, r) % 256
         /\ SubOp(a, r, cc).cc \in Flags
         /\ SubOp(a, r, cc).cc.cy = AsFlag(Minus16(a, r) > 255)
<1> DEFINE ans == Minus16(a, r)
<1>1. ans \in Int
  BY DEF Byte, Minus16
<1>2. SubOp(a, r, cc).a = ans % 256 /\ SubOp(a, r, cc).cc = ArithFlags(cc, ans)
  BY DEF SubOp, Result
<1> HIDE DEF ans
<1>3. /\ SubOp(a, r, cc).a = ans % 256
      /\ SubOp(a, r, cc).cc \in Flags
      /\ SubOp(a, r, cc).cc.cy = AsFlag(ans > 255)
  BY <1>1, <1>2, FlagsAre
<1> QED
  BY <1>3 DEF ans

\* SUB in numbers.
LEMMA MinusIs ==
  ASSUME NEW a \in Byte, NEW r \in Byte, NEW d, NEW c,
         d = Minus16(a, r) % 256, c = AsFlag(Minus16(a, r) > 255)
  PROVE  /\ d \in Byte /\ d - 256 * c = a - r
         /\ (d + r) % 256 = a /\ AsFlag(d + r > 255) = c
         /\ d = (((a + Not(r)) % 256) + 1) % 256
         /\ (a + Not(r)) % 256 \in Byte
<1>1. a \in 0..255 /\ r \in 0..255
  BY DEF Byte
<1>2. CASE a >= r
  <2>1. Minus16(a, r) = a - r
    BY <1>1, <1>2 DEF Minus16
  <2>2. d = a - r /\ c = 0
    BY <1>1, <1>2, <2>1 DEF AsFlag
  <2>3. (a + (255 - r)) % 256 = IF a = r THEN 255 ELSE a - r - 1
    BY <1>1, <1>2
  <2>4. (((a + (255 - r)) % 256) + 1) % 256 = a - r
    BY <1>1, <1>2, <2>3
  <2>5. (d + r) % 256 = a /\ ~(d + r > 255)
    BY <1>1, <1>2, <2>2
  <2>6. (a + (255 - r)) % 256 \in 0..255 /\ d \in 0..255
    BY <1>1, <1>2, <2>2
  <2> QED
    BY <1>1, <2>2, <2>4, <2>5, <2>6 DEF AsFlag, Not, Byte
<1>3. CASE a < r
  <2>1. Minus16(a, r) = a - r + 65536
    BY <1>1, <1>3 DEF Minus16
  <2>2. d = a - r + 256 /\ c = 1
    BY <1>1, <1>3, <2>1 DEF AsFlag
  <2>3. (a + (255 - r)) % 256 = a - r + 255
    BY <1>1, <1>3
  <2>4. (((a + (255 - r)) % 256) + 1) % 256 = a - r + 256
    BY <1>1, <1>3, <2>3
  <2>5. (d + r) % 256 = a /\ d + r > 255
    BY <1>1, <1>3, <2>2
  <2>6. (a + (255 - r)) % 256 \in 0..255 /\ d \in 0..255
    BY <1>1, <1>3, <2>2
  <2> QED
    BY <1>1, <2>2, <2>4, <2>5, <2>6 DEF AsFlag, Not, Byte
<1> QED
  BY <1>1, <1>2, <1>3

LEMMA BeforeFlags == ASSUME RefInv PROVE Before \in Flags
  BY DEF RefInv, Before, Flags, Flag

\* What the low byte of a sum and its carry say of the sum.
SumSays(a, r) ==
    /\ ((a + r) % 256) + 256 * AsFlag(a + r > 255) = a + r
    /\ Bit(a + r, 128) = 1 <=> (a + r) % 256 >= 128
    /\ AsFlag((a + r) % 256 = 0) = 1 <=> (a + r) % 256 = 0

LEMMA SumsSay == \A a, r \in 0..255 : SumSays(a, r)
<1> SUFFICES ASSUME NEW a \in 0..255, NEW r \in 0..255 PROVE SumSays(a, r)
  OBVIOUS
<1>1. ((a + r) % 256) + 256 * AsFlag(a + r > 255) = a + r
  BY DEF AsFlag
<1>2. Bit(a + r, 128) = 1 <=> (a + r) % 256 >= 128
  BY DEF Bit
<1>3. AsFlag((a + r) % 256 = 0) = 1 <=> (a + r) % 256 = 0
  BY DEF AsFlag
<1> QED
  BY <1>1, <1>2, <1>3 DEF SumSays

\* ADD loses nothing (arith_set_flags, cpu_exec's ADD), for all bytes.
THEOREM AddIsExact == RefSpec => []AddExact
<1>1. ASSUME RefInv PROVE AddExact
  <2>1. x \in Byte /\ y \in Byte /\ Before \in Flags
    BY <1>1, BeforeFlags DEF RefInv
  <2> DEFINE sum == AddOp(x, y, Before)
  <2>2. /\ sum.a = (x + y) % 256
        /\ sum.cc.cy = AsFlag(x + y > 255)
        /\ sum.cc.z = AsFlag((x + y) % 256 = 0)
        /\ sum.cc.s = Bit(x + y, 128)
    BY <2>1, AddIs
  <2> HIDE DEF sum
  <2>3. SumSays(x, y)
    BY <2>1, SumsSay DEF Byte
  <2>6. /\ sum.a + 256 * sum.cc.cy = x + y
        /\ sum.cc.z = 1 <=> sum.a = 0
        /\ sum.cc.s = 1 <=> sum.a >= 128
    BY <2>2, <2>3 DEF SumSays
  <2> QED
    BY <2>6 DEF AddExact, sum
<1> QED
  BY <1>1, RefInvHolds, PTL

\* SUB is exact and is undone by ADD (Minus16 and arith_set_flags), for all
\* bytes.
THEOREM SubIsExact == RefSpec => []SubExact
<1>1. ASSUME RefInv PROVE SubExact
  <2>1. x \in Byte /\ y \in Byte /\ Before \in Flags
    BY <1>1, BeforeFlags DEF RefInv
  <2> DEFINE diff == SubOp(x, y, Before)
             neg == AddOp(x, Not(y), Before)
             back == AddOp(diff.a, y, diff.cc)
             plus == AddOp(neg.a, 1, Before)
  <2>2. /\ diff.a = Minus16(x, y) % 256 /\ diff.cc \in Flags
        /\ diff.cc.cy = AsFlag(Minus16(x, y) > 255)
    BY <2>1, SubIs
  <2>3. Not(y) \in Byte
    BY <2>1 DEF Not, Byte
  <2>4. neg.a = (x + Not(y)) % 256
    BY <2>1, <2>3, AddIs
  <2> HIDE DEF diff, neg
  <2>5. /\ diff.a \in Byte /\ diff.a - 256 * diff.cc.cy = x - y
        /\ (diff.a + y) % 256 = x /\ AsFlag(diff.a + y > 255) = diff.cc.cy
        /\ diff.a = (((x + Not(y)) % 256) + 1) % 256
        /\ (x + Not(y)) % 256 \in Byte
    BY <2>1, <2>2, MinusIs
  <2>6. 1 \in Byte
    BY DEF Byte
  <2> HIDE DEF back, plus
  <2>7. back.a = x /\ back.cc.cy = diff.cc.cy /\ diff.a = plus.a
    <3>1. /\ back.a = (diff.a + y) % 256 /\ back.cc.cy = AsFlag(diff.a + y > 255)
          /\ plus.a = (neg.a + 1) % 256
      BY <2>1, <2>2, <2>4, <2>5, <2>6, AddIs DEF back, plus
    <3> QED
      BY <2>4, <2>5, <3>1
  <2> QED
    BY <2>5, <2>7 DEF SubExact, back, plus, diff, neg
<1> QED
  BY <1>1, RefInvHolds, PTL

---------------------------------------------------------------------------
\* Bytes and their bits.

Weights == {1, 2, 4, 8, 16, 32, 64, 128}

\* The number with the bits b.
OfEight(b1, b2, b3, b4, b5, b6, b7, b8) ==
    b1 + 2 * b2 + 4 * b3 + 8 * b4 + 16 * b5 + 32 * b6 + 64 * b7 + 128 * b8

OfBits(b) == OfEight(b[1], b[2], b[4], b[8], b[16], b[32], b[64], b[128])

BitsOf(n) == [w \in Weights |-> Bit(n, w)]

LEMMA BitFlag == ASSUME NEW n \in Int PROVE \A w \in Weights : Bit(n, w) \in Flag
  BY DEF Bit, Flag, Weights

\* A byte is made up of its bits.
LEMMA ByteIs == ASSUME NEW n \in Byte PROVE OfBits(BitsOf(n)) = n
<1>1. OfBits(BitsOf(n)) = Bit(n, 1) + 2 * Bit(n, 2) + 4 * Bit(n, 4) + 8 * Bit(n, 8)
                       + 16 * Bit(n, 16) + 32 * Bit(n, 32) + 64 * Bit(n, 64) + 128 * Bit(n, 128)
  BY DEF OfBits, OfEight, BitsOf, Weights
<1>2. n \in 0..255
  BY DEF Byte
<1> QED
  BY SMTT(60), <1>1, <1>2 DEF Bit

\* And the bits of a number made up of bits are these.
LEMMA BitsAre ==
  ASSUME NEW b \in [Weights -> Flag]
  PROVE  OfBits(b) \in Byte /\ BitsOf(OfBits(b)) = b
<1>1. \A w \in Weights : b[w] \in 0..1
  BY DEF Flag
<1>2. /\ b[1] \in 0..1 /\ b[2] \in 0..1 /\ b[4] \in 0..1 /\ b[8] \in 0..1
      /\ b[16] \in 0..1 /\ b[32] \in 0..1 /\ b[64] \in 0..1 /\ b[128] \in 0..1
  BY <1>1 DEF Weights
<1> DEFINE b1 == b[1]  b2 == b[2]  b3 == b[4]  b4 == b[8]
           b5 == b[16]  b6 == b[32]  b7 == b[64]  b8 == b[128]
           n == OfEight(b1, b2, b3, b4, b5, b6, b7, b8)
<1>3. /\ n \in 0..255
      /\ Bit(n, 1) = b1 /\ Bit(n, 2) = b2 /\ Bit(n, 4) = b3 /\ Bit(n, 8) = b4
      /\ Bit(n, 16) = b5 /\ Bit(n, 32) = b6 /\ Bit(n, 64) = b7 /\ Bit(n, 128) = b8
  <2>1. /\ b1 \in 0..1 /\ b2 \in 0..1 /\ b3 \in 0..1 /\ b4 \in 0..1
        /\ b5 \in 0..1 /\ b6 \in 0..1 /\ b7 \in 0..1 /\ b8 \in 0..1
    BY <1>2
  <2> HIDE DEF b1, b2, b3, b4, b5, b6, b7, b8
  <2> QED
    BY <2>1 DEF OfEight, Bit
<1> HIDE DEF n
<1>4. \A w \in Weights : Bit(n, w) = b[w]
  BY <1>3 DEF Weights
<1> QED
  BY <1>3, <1>4 DEF OfBits, BitsOf, n, Byte

\* The bits of the three operations, and of the complement.
LEMMA BitsOfLogic ==
  ASSUME NEW n \in Byte, NEW m \in Byte
  PROVE  /\ And(n, m) \in Byte
         /\ BitsOf(And(n, m)) = [w \in Weights |-> AndBit(Bit(n, w), Bit(m, w))]
         /\ Or(n, m) \in Byte
         /\ BitsOf(Or(n, m)) = [w \in Weights |-> OrBit(Bit(n, w), Bit(m, w))]
         /\ Xor(n, m) \in Byte
         /\ BitsOf(Xor(n, m)) = [w \in Weights |-> XorBit(Bit(n, w), Bit(m, w))]
<1> DEFINE both == [w \in Weights |-> AndBit(Bit(n, w), Bit(m, w))]
           some == [w \in Weights |-> OrBit(Bit(n, w), Bit(m, w))]
           one == [w \in Weights |-> XorBit(Bit(n, w), Bit(m, w))]
<1>1. And(n, m) = OfBits(both) /\ Or(n, m) = OfBits(some) /\ Xor(n, m) = OfBits(one)
  BY DEF And, Or, Xor, OnBits, OfBits, OfEight, Weights
<1>2. /\ both \in [Weights -> Flag] /\ some \in [Weights -> Flag] /\ one \in [Weights -> Flag]
  BY DEF AndBit, OrBit, XorBit, Flag
<1> HIDE DEF both, some, one
<1>3. /\ OfBits(both) \in Byte /\ BitsOf(OfBits(both)) = both
      /\ OfBits(some) \in Byte /\ BitsOf(OfBits(some)) = some
      /\ OfBits(one) \in Byte /\ BitsOf(OfBits(one)) = one
  BY <1>2, BitsAre
<1> QED
  BY <1>1, <1>3 DEF both, some, one

LEMMA BitsOfNot ==
  ASSUME NEW n \in Byte
  PROVE  Not(n) \in Byte /\ BitsOf(Not(n)) = [w \in Weights |-> 1 - Bit(n, w)]
<1> DEFINE b == [w \in Weights |-> 1 - Bit(n, w)]
<1>1. n \in Int
  BY DEF Byte
<1>2. \A w \in Weights : Bit(n, w) \in 0..1
  BY <1>1, BitFlag DEF Flag
<1>3. b \in [Weights -> Flag]
  <2>1. \A w \in Weights : 1 - Bit(n, w) \in 0..1
    BY <1>2
  <2> QED
    BY <2>1 DEF Flag
<1>4. OfBits(b) = 255 - OfBits(BitsOf(n))
  <2>1. /\ Bit(n, 1) \in 0..1 /\ Bit(n, 2) \in 0..1 /\ Bit(n, 4) \in 0..1 /\ Bit(n, 8) \in 0..1
        /\ Bit(n, 16) \in 0..1 /\ Bit(n, 32) \in 0..1 /\ Bit(n, 64) \in 0..1
        /\ Bit(n, 128) \in 0..1
    BY <1>2 DEF Weights
  <2> QED
    BY <2>1 DEF OfBits, OfEight, BitsOf, Weights
<1> HIDE DEF b
<1>5. Not(n) = OfBits(b)
  BY <1>4, ByteIs DEF Not
<1> QED
  BY <1>3, <1>5, BitsAre DEF b

\* Bit by bit equal is equal, and what holds of every bit of three numbers
\* holds of the numbers and of how many ones they have.
LEMMA SameBits ==
  ASSUME NEW n \in Byte, NEW m \in Byte, BitsOf(n) = BitsOf(m)
  PROVE  n = m
  BY ByteIs

Ones(b) == b[1] + b[2] + b[4] + b[8] + b[16] + b[32] + b[64] + b[128]

SameSums(f, g, p, q) ==
    \A w \in Weights : /\ {f[w], g[w], p[w], q[w]} \subseteq Int
                       /\ f[w] + g[w] = p[w] + q[w]

LEMMA SumOfBits ==
  ASSUME NEW f, NEW g, NEW p, NEW q, SameSums(f, g, p, q)
  PROVE  /\ OfBits(f) + OfBits(g) = OfBits(p) + OfBits(q)
         /\ Ones(f) + Ones(g) = Ones(p) + Ones(q)
         /\ {Ones(f), Ones(g), Ones(p), Ones(q)} \subseteq Int
<1>1. /\ {f[1], g[1], p[1], q[1]} \subseteq Int /\ f[1] + g[1] = p[1] + q[1]
      /\ {f[2], g[2], p[2], q[2]} \subseteq Int /\ f[2] + g[2] = p[2] + q[2]
      /\ {f[4], g[4], p[4], q[4]} \subseteq Int /\ f[4] + g[4] = p[4] + q[4]
      /\ {f[8], g[8], p[8], q[8]} \subseteq Int /\ f[8] + g[8] = p[8] + q[8]
      /\ {f[16], g[16], p[16], q[16]} \subseteq Int /\ f[16] + g[16] = p[16] + q[16]
      /\ {f[32], g[32], p[32], q[32]} \subseteq Int /\ f[32] + g[32] = p[32] + q[32]
      /\ {f[64], g[64], p[64], q[64]} \subseteq Int /\ f[64] + g[64] = p[64] + q[64]
      /\ {f[128], g[128], p[128], q[128]} \subseteq Int /\ f[128] + g[128] = p[128] + q[128]
  BY DEF SameSums, Weights
<1> QED
  BY <1>1 DEF OfBits, OfEight, Ones

\* The number of ones, the sign and the flags of logic_set_flags.
LEMMA LogicIs ==
  ASSUME NEW n \in Byte
  PROVE  /\ LogicFlags(Before, n).cy = 0
         /\ LogicFlags(Before, n).s = 1 <=> n >= 128
         /\ LogicFlags(Before, n).p = Ones(BitsOf(n)) % 2
<1>1. /\ LogicFlags(Before, n).cy = 0 /\ LogicFlags(Before, n).s = Bit(n, 128)
      /\ LogicFlags(Before, n).p = Parity(n)
  BY DEF LogicFlags, Before
<1>2. Parity(n) = Ones(BitsOf(n)) % 2
  BY DEF Parity, Ones, BitsOf, Weights
<1>3. Bit(n, 128) = 1 <=> n >= 128
  BY DEF Bit, Byte
<1> QED
  BY <1>1, <1>2, <1>3

\* ANA, ORA and XRA are the parts of an addition without carries, and what
\* logic_set_flags makes of the parities agrees, for all bytes.
THEOREM LogicFitsAddition == RefSpec => []LogicParts
<1>1. ASSUME RefInv PROVE LogicParts
  <2> DEFINE p == BitsOf(x)
             q == BitsOf(y)
             both == BitsOf(And(x, y))
             some == BitsOf(Or(x, y))
             one == BitsOf(Xor(x, y))
  <2>1. x \in Byte /\ y \in Byte
    BY <1>1 DEF RefInv
  <2>2. And(x, y) \in Byte /\ Or(x, y) \in Byte /\ Xor(x, y) \in Byte
    BY <2>1, BitsOfLogic
  <2>3. ASSUME NEW w \in Weights
        PROVE  /\ p[w] \in 0..1 /\ q[w] \in 0..1
               /\ both[w] = AndBit(p[w], q[w])
               /\ some[w] = OrBit(p[w], q[w])
               /\ one[w] = XorBit(p[w], q[w])
    <3>1. x \in Int /\ y \in Int
      BY <2>1 DEF Byte
    <3>2. p[w] = Bit(x, w) /\ q[w] = Bit(y, w) /\ p[w] \in 0..1 /\ q[w] \in 0..1
      BY <3>1, BitFlag DEF BitsOf, Flag
    <3> HIDE DEF p, q, both, some, one
    <3>3. /\ both = [v \in Weights |-> AndBit(Bit(x, v), Bit(y, v))]
          /\ some = [v \in Weights |-> OrBit(Bit(x, v), Bit(y, v))]
          /\ one = [v \in Weights |-> XorBit(Bit(x, v), Bit(y, v))]
      BY <2>1, BitsOfLogic DEF both, some, one
    <3> QED
      BY <3>2, <3>3
  <2>4. /\ OfBits(p) = x /\ OfBits(q) = y
        /\ OfBits(both) = And(x, y) /\ OfBits(some) = Or(x, y) /\ OfBits(one) = Xor(x, y)
    BY <2>1, <2>2, ByteIs
  <2> HIDE DEF p, q, both, some, one
  <2> DEFINE none == [w \in Weights |-> 0]
  <2>5. SameSums(some, both, p, q) /\ SameSums(one, both, some, none)
    BY <2>3 DEF SameSums, AndBit, OrBit, XorBit
  <2>6. OfBits(none) = 0 /\ Ones(none) = 0
    BY DEF OfBits, OfEight, Ones, Weights
  <2> HIDE DEF none
  <2>7. /\ OfBits(some) + OfBits(both) = OfBits(p) + OfBits(q)
        /\ OfBits(one) + OfBits(both) = OfBits(some) + 0
        /\ Ones(one) + Ones(both) = Ones(some) + 0
        /\ Ones(one) \in Int /\ Ones(some) \in Int /\ Ones(both) \in Int
    BY <2>5, <2>6, SumOfBits
  <2>8. And(x, y) + Or(x, y) = x + y /\ Xor(x, y) + 2 * And(x, y) = x + y
    <3>1. ASSUME NEW a \in Byte, NEW b \in Byte, NEW c \in Byte, NEW d \in Byte, NEW e \in Byte,
                 b + c = d + e, a + c = b + 0
          PROVE  c + b = d + e /\ a + 2 * c = d + e
      BY <3>1 DEF Byte
    <3>2. Or(x, y) + And(x, y) = x + y /\ Xor(x, y) + And(x, y) = Or(x, y) + 0
      BY <2>4, <2>7
    <3> QED
      BY <2>1, <2>2, <3>1, <3>2
  <2>9. Ones(one) % 2 = ((Ones(both) % 2) + (Ones(some) % 2)) % 2
    <3>1. ASSUME NEW a \in Int, NEW b \in Int, NEW c \in Int, c + a = b + 0
          PROVE  c % 2 = ((a % 2) + (b % 2)) % 2
      BY <3>1
    <3> QED
      BY <2>7, <3>1
  <2>10. Or(x, y) = Not(And(Not(x), Not(y)))
    <3> DEFINE nx == Not(x)
               ny == Not(y)
               n == And(nx, ny)
    <3>1. /\ nx \in Byte /\ BitsOf(nx) = [w \in Weights |-> 1 - Bit(x, w)]
          /\ ny \in Byte /\ BitsOf(ny) = [w \in Weights |-> 1 - Bit(y, w)]
      BY <2>1, BitsOfNot
    <3> HIDE DEF nx, ny
    <3>2. n \in Byte /\ BitsOf(n) = [w \in Weights |-> AndBit(Bit(nx, w), Bit(ny, w))]
      BY <3>1, BitsOfLogic
    <3> HIDE DEF n
    <3>3. Not(n) \in Byte /\ BitsOf(Not(n)) = [w \in Weights |-> 1 - Bit(n, w)]
      BY <3>2, BitsOfNot
    <3>4. ASSUME NEW w \in Weights PROVE 1 - Bit(n, w) = some[w]
      <4>1. Bit(nx, w) = 1 - Bit(x, w) /\ Bit(ny, w) = 1 - Bit(y, w)
        BY <3>1 DEF BitsOf
      <4>2. Bit(n, w) = AndBit(Bit(nx, w), Bit(ny, w))
        BY <3>2 DEF BitsOf
      <4>3. p[w] = Bit(x, w) /\ q[w] = Bit(y, w)
        BY DEF p, q, BitsOf
      <4> QED
        BY <2>3, <4>1, <4>2, <4>3 DEF AndBit, OrBit
    <3>5. some = [w \in Weights |-> some[w]]
      BY DEF some, BitsOf
    <3>6. BitsOf(Not(n)) = BitsOf(Or(x, y))
      BY <3>3, <3>4, <3>5 DEF some
    <3> QED
      BY <2>2, <3>3, <3>6, SameBits DEF n, nx, ny
  <2>11. /\ AnaOp(x, y, Before) = Result(And(x, y), LogicFlags(Before, And(x, y)))
         /\ OraOp(x, y, Before) = Result(Or(x, y), LogicFlags(Before, Or(x, y)))
         /\ XraOp(x, y, Before) = Result(Xor(x, y), LogicFlags(Before, Xor(x, y)))
    BY DEF AnaOp, OraOp, XraOp
  <2>12. ASSUME NEW n \in Byte
         PROVE  /\ Result(n, LogicFlags(Before, n)).a = n
                /\ Result(n, LogicFlags(Before, n)).cc.cy = 0
                /\ Result(n, LogicFlags(Before, n)).cc.s = 1 <=> n >= 128
                /\ Result(n, LogicFlags(Before, n)).cc.p = Ones(BitsOf(n)) % 2
    BY LogicIs DEF Result
  <2> DEFINE ana == AnaOp(x, y, Before)
             ora == OraOp(x, y, Before)
             xra == XraOp(x, y, Before)
  <2>13. /\ ana.a = And(x, y) /\ ora.a = Or(x, y) /\ xra.a = Xor(x, y)
         /\ ana.cc.p = Ones(both) % 2 /\ ora.cc.p = Ones(some) % 2 /\ xra.cc.p = Ones(one) % 2
    BY <2>2, <2>11, <2>12 DEF both, some, one
  <2>14. \A r \in {ana, ora, xra} : r.cc.cy = 0 /\ (r.cc.s = 1 <=> r.a >= 128)
    BY <2>2, <2>11, <2>12
  <2> HIDE DEF ana, ora, xra
  <2>15. /\ ana.a + ora.a = x + y /\ xra.a + 2 * ana.a = x + y
         /\ ora.a = Not(And(Not(x), Not(y)))
         /\ xra.cc.p = (ana.cc.p + ora.cc.p) % 2
    BY <2>8, <2>9, <2>10, <2>13
  <2> QED
    BY <2>14, <2>15 DEF LogicParts, ana, ora, xra
<1> QED
  BY <1>1, RefInvHolds, PTL

---------------------------------------------------------------------------
\* logic_set_flags sets the same fields whatever they were.
LEMMA FlagsOnce ==
  ASSUME NEW cc \in Flags, NEW a, NEW b
  PROVE  LogicFlags(LogicFlags(cc, a), b) = LogicFlags(cc, b)
<1> DEFINE sa == Bit(a, 128)  sb == Bit(b, 128)  pa == Parity(a)  pb == Parity(b)
<1> HIDE DEF sa, sb, pa, pb
<1>1. [[cc EXCEPT !.cy = 0, !.ac = 0, !.s = sa, !.p = pa]
          EXCEPT !.cy = 0, !.ac = 0, !.s = sb, !.p = pb]
        = [cc EXCEPT !.cy = 0, !.ac = 0, !.s = sb, !.p = pb]
  BY DEF Flags
<1> QED
  BY <1>1 DEF LogicFlags, sa, sb, pa, pb

\* An operand taken in twice counts once.
LEMMA Absorbs ==
  ASSUME NEW n \in Byte, NEW m \in Byte
  PROVE  /\ And(n, n) = n
         /\ And(And(n, m), m) = And(n, m)
         /\ Or(Or(n, m), m) = Or(n, m)
<1>1. n \in Int /\ m \in Int
  BY DEF Byte
<1>2. And(n, m) \in Byte /\ Or(n, m) \in Byte /\ And(n, n) \in Byte
  BY BitsOfLogic
<1> DEFINE both == And(n, m)
           some == Or(n, m)
<1>3. ASSUME NEW w \in Weights
      PROVE  /\ Bit(n, w) \in 0..1 /\ Bit(m, w) \in 0..1
             /\ Bit(both, w) = AndBit(Bit(n, w), Bit(m, w))
             /\ Bit(some, w) = OrBit(Bit(n, w), Bit(m, w))
  <2>1. Bit(n, w) \in 0..1 /\ Bit(m, w) \in 0..1
    BY <1>1, BitFlag DEF Flag
  <2>2. Bit(both, w) = BitsOf(both)[w] /\ Bit(some, w) = BitsOf(some)[w]
    BY DEF BitsOf
  <2> HIDE DEF both, some
  <2>3. /\ BitsOf(both) = [v \in Weights |-> AndBit(Bit(n, v), Bit(m, v))]
        /\ BitsOf(some) = [v \in Weights |-> OrBit(Bit(n, v), Bit(m, v))]
    BY BitsOfLogic DEF both, some
  <2> QED
    BY <2>1, <2>2, <2>3
<1> HIDE DEF both, some
<1>4. both \in Byte /\ some \in Byte
  BY <1>2 DEF both, some
<1>5. And(n, n) = n
  <2>1. BitsOf(And(n, n)) = [w \in Weights |-> AndBit(Bit(n, w), Bit(n, w))]
    BY BitsOfLogic
  <2>2. \A w \in Weights : AndBit(Bit(n, w), Bit(n, w)) = Bit(n, w)
    BY <1>3 DEF AndBit
  <2>3. BitsOf(And(n, n)) = BitsOf(n)
    BY <2>1, <2>2 DEF BitsOf
  <2> QED
    BY <1>2, <2>3, SameBits
<1>6. And(both, m) = both
  <2>1. And(both, m) \in Byte
        /\ BitsOf(And(both, m)) = [w \in Weights |-> AndBit(Bit(both, w), Bit(m, w))]
    BY <1>4, BitsOfLogic
  <2>2. \A w \in Weights : AndBit(Bit(both, w), Bit(m, w)) = Bit(both, w)
    BY <1>3 DEF AndBit
  <2>3. BitsOf(And(both, m)) = BitsOf(both)
    BY <2>1, <2>2 DEF BitsOf
  <2> QED
    BY <1>4, <2>1, <2>3, SameBits
<1>7. Or(some, m) = some
  <2>1. Or(some, m) \in Byte
        /\ BitsOf(Or(some, m)) = [w \in Weights |-> OrBit(Bit(some, w), Bit(m, w))]
    BY <1>4, BitsOfLogic
  <2>2. \A w \in Weights : OrBit(Bit(some, w), Bit(m, w)) = Bit(some, w)
    BY <1>3 DEF OrBit
  <2>3. BitsOf(Or(some, m)) = BitsOf(some)
    BY <2>1, <2>2 DEF BitsOf
  <2> QED
    BY <1>4, <2>1, <2>3, SameBits
<1> QED
  BY <1>5, <1>6, <1>7 DEF both, some

\* The flags of the register forms are those of the accumulator they leave,
\* those of ANI, ORI and the memory forms come one instruction late
\* (cpu.c:1113-1346, 1594-1664), for all bytes.
THEOREM FlagsFollowAccumulator == RefSpec => []FlagsFollow
<1>1. ASSUME RefInv PROVE FlagsFollow
  <2> DEFINE Set(a) == LogicFlags(Before, a)
             ani == AniOp(x, y, Before)
             ori == OriOp(x, y, Before)
             hl == MkWord(y, x)
             xraM == XraMOp(x, hl, Before)
             cmpM == CmpMOp(x, hl, Before)
  <2>1. x \in Byte /\ y \in Byte /\ Before \in Flags
    BY <1>1, BeforeFlags DEF RefInv
  <2>2. /\ And(x, y) \in Byte /\ Or(x, y) \in Byte /\ Xor(x, y) \in Byte
        /\ Not(y) \in Byte
    BY <2>1, BitsOfLogic, BitsOfNot
  <2>3. Hi(hl) = y
    <3>1. x \in 0..255 /\ y \in 0..255
      BY <2>1 DEF Byte
    <3> QED
      BY <3>1 DEF Hi, MkWord
  <2>4. ASSUME NEW r \in {AnaOp(x, y, Before), OraOp(x, y, Before),
                          XraOp(x, y, Before), CmpOp(x, y, Before)}
        PROVE  AnaOp(r.a, r.a, r.cc) = r
    <3>1. PICK n \in Byte : r = Result(n, Set(n))
      BY <2>2, <2>4 DEF AnaOp, OraOp, XraOp, CmpOp
    <3>2. And(n, n) = n /\ LogicFlags(Set(n), n) = Set(n)
      BY <2>1, Absorbs, FlagsOnce
    <3>3. r.a = n /\ r.cc = Set(n)
      BY <3>1 DEF Result
    <3> QED
      BY <3>1, <3>2, <3>3 DEF AnaOp
  <2>5. /\ ani = Result(And(x, y), Set(x)) /\ ori = Result(Or(x, y), Set(x))
        /\ xraM = Result(y, Set(x)) /\ cmpM = Result(Not(y), Set(x))
    BY <2>3 DEF AniOp, OriOp, XraMOp, CmpMOp
  <2>6. /\ ani.a = And(x, y) /\ ori.a = Or(x, y) /\ xraM.a = y /\ cmpM.a = Not(y)
        /\ \A r \in {ani, ori, xraM, cmpM} : r.cc = Set(x)
    BY <2>5 DEF Result
  <2> HIDE DEF ani, ori, xraM, cmpM, hl
  <2>7. AnaOp(x, x, Before).cc = Set(x) /\ AnaOp(y, y, Before) = Result(y, Set(y))
    BY <2>1, Absorbs DEF AnaOp, Result
  <2>8. AniOp(ani.a, y, ani.cc) = AnaOp(x, y, Before)
    <3>1. LogicFlags(Set(x), And(x, y)) = Set(And(x, y)) /\ And(And(x, y), y) = And(x, y)
      BY <2>1, FlagsOnce, Absorbs
    <3> QED
      BY <2>6, <3>1 DEF AniOp, AnaOp
  <2>9. OriOp(ori.a, y, ori.cc) = OraOp(x, y, Before)
    <3>1. LogicFlags(Set(x), Or(x, y)) = Set(Or(x, y)) /\ Or(Or(x, y), y) = Or(x, y)
      BY <2>1, FlagsOnce, Absorbs
    <3> QED
      BY <2>6, <3>1 DEF OriOp, OraOp
  <2>10. XraMOp(xraM.a, hl, xraM.cc) = AnaOp(y, y, Before)
    <3>1. LogicFlags(Set(x), y) = Set(y)
      BY <2>1, FlagsOnce
    <3> QED
      BY <2>3, <2>6, <2>7, <3>1 DEF XraMOp
  <2>11. CmpMOp(cmpM.a, hl, cmpM.cc) = CmpOp(x, y, Before)
    <3>1. LogicFlags(Set(x), Not(y)) = Set(Not(y))
      BY <2>1, FlagsOnce
    <3> QED
      BY <2>3, <2>6, <3>1 DEF CmpMOp, CmpOp
  <2> HIDE DEF Set
  <2> QED
    BY <2>4, <2>6, <2>7, <2>8, <2>9, <2>10, <2>11 DEF FlagsFollow, ani, ori, xraM, cmpM, hl
<1> QED
  BY <1>1, RefInvHolds, PTL

\* What the logic instructions compute and where their flags come from, in all
\* their forms and for all bytes.
THEOREM LogicIsExact == RefSpec => []LogicExact
<1>1. LogicParts /\ FlagsFollow => LogicExact
  BY DEF LogicExact
<1> QED
  BY <1>1, LogicFitsAddition, FlagsFollowAccumulator, PTL
=============================================================================
