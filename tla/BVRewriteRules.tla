--------------------------- MODULE BVRewriteRules ---------------------------
(***************************************************************************)
(* The rewrite rules of the bit-vector theory that replace an operator by  *)
(* others (theory/bv/theory_bv_rewrite_rules_operator_elimination.h) and   *)
(* that simplify arithmetic (theory_bv_rewrite_rules_simplification.h).    *)
(* Each operator is the value of the term that apply() builds, for         *)
(* arguments of size n with the values a and b. Division is total, as      *)
(* under --bv-div-zero-const: only then are the rules applied to a         *)
(* denominator that may be zero.                                           *)
(***************************************************************************)
EXTENDS BitVector, Sequences

Bool2BV(p) == IF p THEN 1 ELSE 0

Msb(n, a) == extract(a, n - 1, n - 1)

-----------------------------------------------------------------------------
(* Operator elimination: comparisons.                                      *)
UgtEliminate(n, a, b) == b < a

UgeEliminate(n, a, b) == b <= a

SgtEliminate(n, a, b) == signedLessThan(n, b, a)

SgeEliminate(n, a, b) == signedLessThanEq(n, b, a)

SltEliminate(n, a, b) ==
    LET pow_two == BV(n, 2^(n - 1))
    IN  plus(n, a, pow_two) < plus(n, b, pow_two)

SleEliminate(n, a, b) == ~signedLessThan(n, b, a)

UleEliminate(n, a, b) == ~(b < a)

RedorEliminate(n, a) == ~(a = 0)

RedandEliminate(n, a) == a = signExtend(1, BV(1, 1), n - 1)

(* Operator elimination: terms.                                            *)
CompEliminate(n, a, b) == IF a = b THEN BV(1, 1) ELSE BV(1, 0)

SubEliminate(n, a, b) == plus(n, a, negate(n, b))

RepeatEliminate(n, a, amount) ==
    LET repeated[k \in 1 .. amount] ==
            IF k = 1 THEN a ELSE concat(repeated[k - 1], a, n)
    IN  repeated[amount]

RotateLeftEliminate(n, a, amount0) ==
    LET amount == amount0 % n
    IN  IF amount = 0 THEN a
        ELSE concat(extract(a, n - 1 - amount, 0), extract(a, n - 1, n - amount), amount)

RotateRightEliminate(n, a, amount0) ==
    LET amount == amount0 % n
    IN  IF amount = 0 THEN a
        ELSE concat(extract(a, amount - 1, 0), extract(a, n - 1, amount), n - amount)

BVToNatEliminate(n, a) ==
    LET sum[bit \in 0 .. n] ==
            IF bit = 0 THEN 0
            ELSE sum[bit - 1] + (IF extract(a, bit - 1, bit - 1) = 1 THEN 2^(bit - 1) ELSE 0)
    IN  sum[n]

(* i is any integer: INTS_MODULUS_TOTAL of a negative one is non-negative. *)
IntToBVEliminate(n, i) ==
    LET bits[k \in 0 .. n] ==
            IF k = 0 THEN 0
            ELSE concat(Bool2BV(i % 2^k >= 2^k \div 2), bits[k - 1], k - 1)
    IN  bits[n]

NandEliminate(n, a, b) == bvnot(n, bvand(n, a, b))

NorEliminate(n, a, b) == bvnot(n, bvor(n, a, b))

XnorEliminate(n, a, b) == bvnot(n, bvxor(n, a, b))

SdivEliminate(n, a, b) ==
    LET a_lt_0 == Msb(n, a) = 1
        b_lt_0 == Msb(n, b) = 1
        abs_a == IF a_lt_0 THEN negate(n, a) ELSE a
        abs_b == IF b_lt_0 THEN negate(n, b) ELSE b
        a_udiv_b == unsignedDivTotal(n, abs_a, abs_b)
    IN  IF a_lt_0 # b_lt_0 THEN negate(n, a_udiv_b) ELSE a_udiv_b

SremEliminate(n, a, b) ==
    LET a_lt_0 == Msb(n, a) = 1
        b_lt_0 == Msb(n, b) = 1
        abs_a == IF a_lt_0 THEN negate(n, a) ELSE a
        abs_b == IF b_lt_0 THEN negate(n, b) ELSE b
        a_urem_b == unsignedRemTotal(n, abs_a, abs_b)
    IN  IF a_lt_0 THEN negate(n, a_urem_b) ELSE a_urem_b

SmodEliminate(n, s, t) ==
    LET msb_s == Msb(n, s)
        msb_t == Msb(n, t)
        abs_s == IF msb_s = 0 THEN s ELSE negate(n, s)
        abs_t == IF msb_t = 0 THEN t ELSE negate(n, t)
        u == unsignedRemTotal(n, abs_s, abs_t)
        neg_u == negate(n, u)
    IN  CASE u = 0 \/ (msb_s = 0 /\ msb_t = 0) -> u
          [] u # 0 /\ msb_s = 1 /\ msb_t = 0 -> plus(n, neg_u, t)
          [] u # 0 /\ msb_s = 0 /\ msb_t = 1 -> plus(n, u, t)
          [] OTHER -> neg_u

ZeroExtendEliminate(n, a, amount) == IF amount = 0 THEN a ELSE concat(0, a, n)

SignExtendEliminate(n, a, amount) ==
    IF amount = 0 THEN a ELSE concat(RepeatEliminate(1, Msb(n, a), amount), a, n)

-----------------------------------------------------------------------------
(* Simplification. Here c is the value of a constant argument.             *)
ShlByConst(n, a, c) ==
    CASE c = 0 -> a
      [] c >= n -> 0
      [] OTHER -> concat(extract(a, n - 1 - c, 0), 0, c)

LshrByConst(n, a, c) ==
    CASE c = 0 -> a
      [] c >= n -> 0
      [] OTHER -> concat(0, extract(a, n - 1, c), n - c)

AshrByConst(n, a, c) ==
    CASE c = 0 -> a
      [] c >= n -> RepeatEliminate(1, Msb(n, a), n)
      [] OTHER -> concat(RepeatEliminate(1, Msb(n, a), c), extract(a, n - 1, c), n - c)

(* k if c = 2^(k-1), and 0 if c is no power of two.                        *)
isPow2(n, c) == IF \E k \in 1 .. n : c = 2^(k - 1) THEN CHOOSE k \in 1 .. n : c = 2^(k - 1) ELSE 0

(* a * c, with c the product of the constant factors (MultSimplify).       *)
MultPow2(n, a, c) ==
    LET exponent == isPow2(n, c) - 1
    IN  concat(extract(a, n - exponent - 1, 0), 0, exponent)

UdivPow2(n, a, c) ==
    LET power == isPow2(n, c) - 1
    IN  IF power = 0 THEN a ELSE concat(0, extract(a, n - 1, power), n - power)

UremPow2(n, a, c) ==
    LET power == isPow2(n, c) - 1
    IN  IF power = 0 THEN 0 ELSE concat(0, extract(a, power - 1, 0), power)

(* a udiv a and a urem a.                                                  *)
UdivSelf(n, a) == BV(n, 1)

UremSelf(n, a) == BV(n, 0)

ZeroUlt(n, b) == ~(0 = b)

UltOne(n, a) == a = 0

SltZero(n, a) == Msb(n, a) = 1

UleMax(n, a) == TRUE

(* -a + -b + c.                                                            *)
BBPlusNeg(n, a, b, c) == plus(n, plus(n, plus(n, bvnot(n, a), bvnot(n, b)), c), BV(n, 2))

(* sign_extend of a zero_extend, or of a sign_extend if ~zero.             *)
MergeSignExtend(n, a, zero, amount1, amount2) ==
    IF zero
    THEN IF amount2 = 0 THEN signExtend(n, a, amount1) ELSE a
    ELSE signExtend(n, a, amount1 + amount2)

(* Only for an even size.                                                  *)
MultSlice(n, a, b) ==
    LET h == n \div 2
        bottom_a == extract(a, h - 1, 0)
        top_a == extract(a, n - 1, h)
        bottom_b == extract(b, h - 1, 0)
        top_b == extract(b, n - 1, h)
    IN  plus(n, plus(n, times(n, bottom_a, bottom_b),
                        concat(times(h, top_b, bottom_a), 0, h)),
                concat(times(h, top_a, bottom_b), 0, h))

(* x < y + 1.                                                              *)
UltPlusOne(n, x, y) == y # signExtend(1, BV(1, 1), n - 1) /\ ~(y < x)

(* Extract of a sum or product, and of a sign extension.                   *)
ExtractArith(kind, a, b, high) ==
    LET x == extract(a, high, 0)
        y == extract(b, high, 0)
    IN  CASE kind = "PLUS" -> plus(high + 1, x, y)
          [] kind = "MULT" -> times(high + 1, x, y)

ExtractSignExtend(n, a, high, low) ==
    CASE high < n -> extract(a, high, low)
      [] low < n /\ high >= n -> signExtend(n - low, extract(a, n - 1, low), high - n + 1)
      [] OTHER -> RepeatEliminate(1, Msb(n, a), high - low + 1)
=============================================================================
