----------------------------- MODULE Bitblaster -----------------------------
(***************************************************************************)
(* The bit-blaster (theory/bv/eager_bitblaster.cpp): terms are turned into *)
(* circuits (module Bitblast) once and kept in a cache, and the division   *)
(* strategies put the other half of their result into that cache. The      *)
(* three ways a term of this theory gets its value, by its circuit, by the *)
(* evaluation of constants (module BitVector) and by the rewrite rules     *)
(* (module BVRewriteRules), are compared with what SMT-LIB says it is.     *)
(*                                                                         *)
(* Terms have two arguments, which are variables or constants of the size  *)
(* in question. An argument has a value throughout: the circuits are right *)
(* if they are for every assignment.                                       *)
(***************************************************************************)
EXTENDS Bitblast, BVRewriteRules, FiniteSetsExt, TLC

CONSTANTS
    Sizes,      \* the sizes of the bit vectors
    MaxTerms    \* bound on the number of terms and of atoms bit-blasted

SizesAssumption == Sizes \subseteq Nat \ {0} /\ MaxTerms \in Nat

VARIABLES
    size,
    value,      \* the values of the arguments
    constant,   \* whether the arguments are constants, or else variables
    d_termCache,
    d_bbAtoms

vars == <<size, value, constant, d_termCache, d_bbAtoms>>

Args == {"a", "b"}

Kinds == {"NOT", "CONCAT", "AND", "OR", "XOR", "XNOR", "COMP", "MULT", "PLUS",
          "SUB", "NEG", "UDIV", "UREM", "SHL", "LSHR", "ASHR", "ULTBV", "SLTBV",
          "ITE", "SIGN_EXTEND"}

AtomKinds == {"EQUAL", "ULT", "ADDER_ULT", "ULE", "SLT", "SLE"}

Terms == Kinds \X {<<"a", "b">>, <<"b", "a">>}

Atoms == AtomKinds \X {<<"a", "b">>, <<"b", "a">>}

-----------------------------------------------------------------------------
(* What SMT-LIB says of the operators, on natural numbers.                 *)
Signed(n, x) == IF x >= 2^(n - 1) THEN x - 2^n ELSE x

(* Division of integers that rounds towards zero, and its remainder.       *)
Abs(i) == IF i < 0 THEN -i ELSE i

Quotient(i, j) ==
    IF (i < 0) = (j < 0) THEN Abs(i) \div Abs(j) ELSE -(Abs(i) \div Abs(j))

Remainder(i, j) == i - j * Quotient(i, j)

Meaning(k, n, x, y) ==
    CASE k = "NOT" -> 2^n - 1 - x
      [] k = "CONCAT" -> x * 2^n + y
      [] k = "AND" -> x & y
      [] k = "OR" -> x | y
      [] k = "XOR" -> x ^^ y
      [] k = "XNOR" -> 2^n - 1 - (x ^^ y)
      [] k = "COMP" -> IF x = y THEN 1 ELSE 0
      [] k = "MULT" -> (x * y) % 2^n
      [] k = "PLUS" -> (x + y) % 2^n
      [] k = "SUB" -> (x - y) % 2^n
      [] k = "NEG" -> (-x) % 2^n
      [] k = "UDIV" -> IF y = 0 THEN 2^n - 1 ELSE x \div y
      [] k = "UREM" -> IF y = 0 THEN x ELSE x % y
      [] k = "SHL" -> IF y >= n THEN 0 ELSE (x * 2^y) % 2^n
      [] k = "LSHR" -> IF y >= n THEN 0 ELSE x \div 2^y
      [] k = "ASHR" -> (Signed(n, x) \div 2^(IF y >= n THEN n ELSE y)) % 2^n
      [] k = "ULTBV" -> IF x < y THEN 1 ELSE 0
      [] k = "SLTBV" -> IF Signed(n, x) < Signed(n, y) THEN 1 ELSE 0
      [] k = "ITE" -> IF x % 2 = 1 THEN x ELSE y
      [] k = "SIGN_EXTEND" -> Signed(n, x) % 2^(n + 1)
      [] k = "SDIV" -> (IF y = 0 THEN (IF Signed(n, x) < 0 THEN 1 ELSE -1)
                        ELSE Quotient(Signed(n, x), Signed(n, y))) % 2^n
      [] k = "SREM" -> (IF y = 0 THEN x ELSE Remainder(Signed(n, x), Signed(n, y))) % 2^n
      [] k = "SMOD" -> (IF y = 0 THEN x
                        ELSE Signed(n, x) - Signed(n, y) *
                             (IF Signed(n, y) > 0 THEN Signed(n, x) \div Signed(n, y)
                              ELSE (-Signed(n, x)) \div (-Signed(n, y)))) % 2^n

Holds(k, n, x, y) ==
    CASE k = "EQUAL" -> x = y
      [] k \in {"ULT", "ADDER_ULT"} -> x < y
      [] k = "ULE" -> x <= y
      [] k = "SLT" -> Signed(n, x) < Signed(n, y)
      [] k = "SLE" -> Signed(n, x) <= Signed(n, y)

Width(k, n) ==
    CASE k = "CONCAT" -> 2 * n
      [] k \in {"COMP", "ULTBV", "SLTBV"} -> 1
      [] k = "SIGN_EXTEND" -> n + 1
      [] OTHER -> n

-----------------------------------------------------------------------------
Init ==
    /\ size \in Sizes
    /\ value \in [Args -> 0 .. 2^size - 1]
    /\ constant \in BOOLEAN
    /\ d_termCache = <<>>
    /\ d_bbAtoms = <<>>

(* The bits of an argument: DefaultVarBB, DefaultConstBB.                  *)
Bits(x) == ConstBB(size, value[x])

(* The bits of an argument that are the constant false.                    *)
Zeros(x) == IF constant THEN {i \in 0 .. size - 1 : ~Bits(x)[i]} ELSE {}

Strategy(t) ==
    LET k == t[1]
        a == Bits(t[2][1])
        b == Bits(t[2][2])
    IN  CASE k = "NOT" -> NotBB(a)
          [] k = "CONCAT" -> ConcatBB(a, b)
          [] k = "AND" -> AndBB(a, b)
          [] k = "OR" -> OrBB(a, b)
          [] k = "XOR" -> XorBB(a, b)
          [] k = "XNOR" -> XnorBB(a, b)
          [] k = "COMP" -> CompBB(a, b)
          [] k = "MULT" -> MultBB(a, b)
          [] k = "PLUS" -> PlusBB(a, b)
          [] k = "SUB" -> SubBB(a, b)
          [] k = "NEG" -> NegBB(a)
          [] k = "SHL" -> ShlBB(a, b)
          [] k = "LSHR" -> LshrBB(a, b)
          [] k = "ASHR" -> AshrBB(a, b)
          [] k = "ULTBV" -> UltbvBB(a, b)
          [] k = "SLTBV" -> SltbvBB(a, b)
          [] k = "ITE" -> IteBB(ExtractBB(a, 0, 0), a, b)
          [] k = "SIGN_EXTEND" -> SignExtendBB(a, 1)

AtomStrategy(t) ==
    LET k == t[1]
        a == Bits(t[2][1])
        b == Bits(t[2][2])
    IN  CASE k = "EQUAL" -> EqBB(a, b)
          [] k = "ULT" -> UltBB(a, b)
          [] k = "ADDER_ULT" -> AdderUltBB(a, b)
          [] k = "ULE" -> UleBB(a, b)
          [] k = "SLT" -> SltBB(a, b)
          [] k = "SLE" -> SleBB(a, b)

(* Mutant: the halves of a division stored under each other's name.        *)
BlastedSwapped(t) ==
    IF t[1] \in {"UDIV", "UREM"}
    THEN LET qr == UdivUremBB(Bits(t[2][1]), Zeros(t[2][1]), Bits(t[2][2]))
             q == <<"UDIV", t[2]>>
             r == <<"UREM", t[2]>>
         IN  [u \in {q, r} |-> IF (u = q) = (u = t) THEN qr.udiv ELSE qr.urem]
    ELSE [u \in {t} |-> Strategy(t)]

(* What bit-blasting a term puts into the cache.                           *)
Blasted(t) ==
    IF t[1] \in {"UDIV", "UREM"}
    THEN LET qr == UdivUremBB(Bits(t[2][1]), Zeros(t[2][1]), Bits(t[2][2]))
             q == <<"UDIV", t[2]>>
             r == <<"UREM", t[2]>>
         IN  [u \in {q, r} |-> IF u = q THEN qr.udiv ELSE qr.urem]
    ELSE [u \in {t} |-> Strategy(t)]

Room == Cardinality(DOMAIN d_termCache) + Cardinality(DOMAIN d_bbAtoms) < MaxTerms

(* A term that hasBBTerm finds is taken from the cache, and storeBBTerm    *)
(* does not replace what is there.                                         *)
bbTerm(t) ==
    /\ t \notin DOMAIN d_termCache
    /\ Room
    /\ d_termCache' = d_termCache @@ Blasted(t)
    /\ UNCHANGED <<size, value, constant, d_bbAtoms>>

bbAtom(t) ==
    /\ t \notin DOMAIN d_bbAtoms
    /\ Room
    /\ d_bbAtoms' = d_bbAtoms @@ (t :> AtomStrategy(t))
    /\ UNCHANGED <<size, value, constant, d_termCache>>

Next ==
    \/ \E t \in Terms : bbTerm(t)
    \/ \E t \in Atoms : bbAtom(t)

Spec == Init /\ [][Next]_vars

-----------------------------------------------------------------------------
ToNat(bits) == MapThenSumSet(LAMBDA i : IF bits[i] THEN 2^i ELSE 0, DOMAIN bits)

Val(t) == <<value[t[2][1]], value[t[2][2]]>>

(* A term has as many bits as its type says (the Assert of bbTerm).        *)
SizesRight ==
    \A t \in DOMAIN d_termCache : DOMAIN d_termCache[t] = 0 .. Width(t[1], size) - 1

(* Every circuit in the cache, whichever strategy put it there, has the    *)
(* value that SMT-LIB gives the term, for sizes that are no powers of two, *)
(* shifts beyond the size and division by zero too.                        *)
CircuitsRight ==
    \A t \in DOMAIN d_termCache :
        ToNat(d_termCache[t]) = Meaning(t[1], size, Val(t)[1], Val(t)[2])

(* Every atom in the cache is true when the comparison is, and the two     *)
(* circuits for the unsigned comparison agree.                             *)
AtomsRight ==
    \A t \in DOMAIN d_bbAtoms :
        d_bbAtoms[t] <=> Holds(t[1], size, Val(t)[1], Val(t)[2])

(* Everything in the caches is right.                                      *)
CachesRight == SizesRight /\ CircuitsRight /\ AtomsRight

-----------------------------------------------------------------------------
X == value["a"]

Y == value["b"]

Means(k, x) == x = Meaning(k, size, X, Y)

(* The evaluation of constants gives the same values as the circuits: a    *)
(* term has the same value before and after its arguments become known.    *)
ConstantsRight ==
    /\ Means("NOT", bvnot(size, X))
    /\ Means("CONCAT", concat(X, Y, size))
    /\ Means("SUB", minus(size, X, Y)) /\ Means("NEG", negate(size, X))
    /\ Means("MULT", times(size, X, Y)) /\ Means("PLUS", plus(size, X, Y))
    /\ Means("UDIV", unsignedDivTotal(size, X, Y))
    /\ Means("UREM", unsignedRemTotal(size, X, Y))
    /\ Means("SHL", leftShift(size, X, Y))
    /\ Means("LSHR", logicalRightShift(size, X, Y))
    /\ Means("ASHR", arithRightShift(size, X, Y))
    /\ Means("SIGN_EXTEND", signExtend(size, X, 1))
    /\ signedLessThan(size, X, Y) = Holds("SLT", size, X, Y)
    /\ signedLessThanEq(size, X, Y) = Holds("SLE", size, X, Y)

Rotated(n, x, k) == ToNat([i \in 0 .. n - 1 |-> ConstBB(n, x)[(i - k) % n]])

(* Eliminating an operator keeps the value of the term, at the extreme     *)
(* values of both signs, for a zero divisor, for rotations by more than    *)
(* the size, and for size 1.                                               *)
EliminationRight ==
    /\ UgtEliminate(size, X, Y) = (X > Y) /\ UgeEliminate(size, X, Y) = (X >= Y)
    /\ SgtEliminate(size, X, Y) = Holds("SLT", size, Y, X)
    /\ SgeEliminate(size, X, Y) = Holds("SLE", size, Y, X)
    /\ SltEliminate(size, X, Y) = Holds("SLT", size, X, Y)
    /\ SleEliminate(size, X, Y) = Holds("SLE", size, X, Y)
    /\ UleEliminate(size, X, Y) = (X <= Y)
    /\ RedorEliminate(size, X) = (X # 0) /\ RedandEliminate(size, X) = (X = 2^size - 1)
    /\ Means("COMP", CompEliminate(size, X, Y)) /\ Means("SUB", SubEliminate(size, X, Y))
    /\ NandEliminate(size, X, Y) = 2^size - 1 - (X & Y)
    /\ NorEliminate(size, X, Y) = 2^size - 1 - (X | Y)
    /\ Means("XNOR", XnorEliminate(size, X, Y))
    /\ Means("SDIV", SdivEliminate(size, X, Y))
    /\ Means("SREM", SremEliminate(size, X, Y))
    /\ Means("SMOD", SmodEliminate(size, X, Y))
    /\ RepeatEliminate(size, X, 2) = X * 2^size + X
    /\ \A k \in 0 .. 2 * size :
           /\ RotateLeftEliminate(size, X, k) = Rotated(size, X, k)
           /\ RotateRightEliminate(size, X, k) = Rotated(size, X, -k)
    /\ BVToNatEliminate(size, X) = X
    /\ \A i \in {X - Y, X + Y} : IntToBVEliminate(size, i) = i % 2^size
    /\ \A k \in 0 .. 2 :
           /\ ZeroExtendEliminate(size, X, k) = X
           /\ SignExtendEliminate(size, X, k) = Signed(size, X) % 2^(size + k)

(* A simplification keeps the value of the term, where it applies.         *)
SimplificationRight ==
    /\ Means("SHL", ShlByConst(size, X, Y)) /\ Means("LSHR", LshrByConst(size, X, Y))
    /\ Means("ASHR", AshrByConst(size, X, Y))
    /\ isPow2(size, Y) # 0 =>
           /\ Y # 1 => Means("MULT", MultPow2(size, X, Y))
           /\ Means("UDIV", UdivPow2(size, X, Y)) /\ Means("UREM", UremPow2(size, X, Y))
    /\ UremSelf(size, X) = Meaning("UREM", size, X, X)
    /\ ZeroUlt(size, Y) = (0 < Y) /\ UltOne(size, X) = (X < 1)
    /\ SltZero(size, X) = (Signed(size, X) < 0) /\ UleMax(size, X) = (X <= 2^size - 1)
    /\ BBPlusNeg(size, X, Y, X) = (-Y) % 2^size
    /\ \A i, j \in 0 .. 2 :
           /\ j > 0 => MergeSignExtend(size, X, TRUE, i, j) = X
           /\ MergeSignExtend(size, X, TRUE, i, 0) = Signed(size, X) % 2^(size + i)
           /\ MergeSignExtend(size, X, FALSE, i, j) = Signed(size, X) % 2^(size + i + j)
    /\ size % 2 = 0 => Means("MULT", MultSlice(size, X, Y))
    /\ UltPlusOne(size, X, Y) = (X < (Y + 1) % 2^size)
    /\ \A high \in 0 .. size - 1 :
           /\ ExtractArith("PLUS", X, Y, high) = (X + Y) % 2^(high + 1)
           /\ ExtractArith("MULT", X, Y, high) = (X * Y) % 2^(high + 1)
    /\ \A high \in 0 .. size + 1, low \in 0 .. size + 1 : low <= high =>
           ExtractSignExtend(size, X, high, low) =
               ((Signed(size, X) % 2^(size + 2)) \div 2^low) % 2^(high - low + 1)

(* The rules are right for these arguments, which no step changes.         *)
RulesRight ==
    d_termCache = <<>> /\ d_bbAtoms = <<>> =>
        ConstantsRight /\ EliminationRight /\ SimplificationRight

(* Division by zero gives -1, as the option --bv-div-zero-const says, also *)
(* when the term is simplified because its arguments are the same          *)
(* (rule UdivSelf).                                                        *)
DivisionByZeroIsMinusOne ==
    X = 0 => UdivSelf(size, X) = 2^size - 1
=============================================================================
