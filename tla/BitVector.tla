------------------------------ MODULE BitVector -----------------------------
(***************************************************************************)
(* The constants of the bit-vector theory (util/bitvector.h): a size n and *)
(* an Integer value that the constructor reduces modulo 2^n. Operations    *)
(* take the size as an argument, and return values. The operations of the  *)
(* class Integer that they use are modelled from util/integer_gmp_imp.h.   *)
(***************************************************************************)
EXTENDS Integers, Bitwise

(* BitVector(size, val).                                                   *)
BV(n, val) == val % 2^n

extractBitRange(x, bitCount, low) == (x % 2^(low + bitCount)) \div 2^low

(* oneExtend sets the bits from size to size + amount - 1.                 *)
oneExtend(x, n, amount) == x + 2^n * (2^amount - 1)

concat(x, y, m) == x * 2^m + y

extract(x, high, low) == extractBitRange(x, high - low + 1, low)

bvxor(n, x, y) == BV(n, x ^^ y)

bvor(n, x, y) == BV(n, x | y)

bvand(n, x, y) == BV(n, x & y)

bvnot(n, x) == BV(n, -x - 1)

plus(n, x, y) == BV(n, x + y)

minus(n, x, y) == plus(n, plus(n, x, bvnot(n, y)), BV(n, 1))

negate(n, x) == plus(n, bvnot(n, x), BV(n, 1))

times(n, x, y) == BV(n, x * y)

unsignedDivTotal(n, x, y) ==
    IF y = 0 THEN BV(n, oneExtend(1, 1, n - 1)) ELSE BV(n, x \div y)

unsignedRemTotal(n, x, y) ==
    IF y = 0 THEN BV(n, x) ELSE BV(n, x % y)

toSignedInt(n, x) ==
    extractBitRange(x, n - 1, 0) - extractBitRange(x, 1, n - 1) * 2^(n - 1)

signedLessThan(n, x, y) == toSignedInt(n, x) < toSignedInt(n, y)

signedLessThanEq(n, x, y) == toSignedInt(n, x) <= toSignedInt(n, y)

signExtend(n, x, amount) ==
    IF extractBitRange(x, 1, n - 1) = 0 THEN x ELSE BV(n + amount, oneExtend(x, n, amount))

leftShift(n, x, y) ==
    IF y > n THEN 0 ELSE BV(n, x * 2^y)

logicalRightShift(n, x, y) ==
    IF y > n THEN 0 ELSE BV(n, x \div 2^y)

arithRightShift(n, x, y) ==
    LET negative == extractBitRange(x, 1, n - 1) # 0
    IN  CASE y > n /\ negative -> BV(n, n * 2^n - 1)
          [] y > n /\ ~negative -> 0
          [] y = 0 -> x
          [] y \in 1 .. n /\ negative -> BV(n, oneExtend(x \div 2^y, n - y, y))
          [] OTHER -> BV(n, x \div 2^y)
=============================================================================
