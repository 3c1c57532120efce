------------------------------ MODULE Bitblast ------------------------------
(***************************************************************************)
(* The circuits that the bit-blaster builds for bit-vector terms           *)
(* (theory/bv/bitblast_utils.h and bitblast_strategies_template.h). A bit  *)
(* vector is a function from 0 .. n-1, least significant bit first; a bit  *)
(* is the value its formula has under some assignment, so that mkAnd,      *)
(* mkXor, mkIte and their like are the connectives. Only isZero looks at   *)
(* the formula of a bit and not at its value: it asks whether it is the    *)
(* constant false, so uDivModRec has the set of such bits as an argument.  *)
(***************************************************************************)
EXTENDS Integers, FiniteSets

Size(a) == Cardinality(DOMAIN a)

mkXor(p, q) == p # q

makeZero(n) == [i \in 0 .. n - 1 |-> FALSE]

negateBits(a) == [i \in DOMAIN a |-> ~a[i]]

extractBits(a, lo, hi) == [i \in 0 .. hi - lo |-> a[lo + i]]

rshift(a, k) == [i \in DOMAIN a |-> i < Size(a) - k /\ a[i + k]]

lshift(a, k) == [i \in DOMAIN a |-> i >= k /\ a[i - k]]

Carries(a, b, first, c) ==
    LET carry[i \in first .. Size(a)] ==
            IF i = first THEN c
            ELSE \/ a[i - 1] /\ b[i - 1]
                 \/ mkXor(a[i - 1], b[i - 1]) /\ carry[i - 1]
    IN  carry

rippleCarryAdder(a, b, c) ==
    LET carry == Carries(a, b, 0, c)
    IN  [sum |-> [i \in DOMAIN a |-> mkXor(mkXor(a[i], b[i]), carry[i])],
         carry |-> carry[Size(a)]]

(* Row k adds a, shifted by k places, to the bits from k upwards.          *)
shiftAddMultiplier(a, b) ==
    LET res[k \in DOMAIN a] ==
            IF k = 0 THEN [i \in DOMAIN a |-> b[0] /\ a[i]]
            ELSE LET row == [i \in DOMAIN a |-> i >= k /\ b[k] /\ a[i - k]]
                     carry == Carries(res[k - 1], row, k, FALSE)
                 IN  [i \in DOMAIN a |->
                         IF i < k THEN res[k - 1][i]
                         ELSE mkXor(mkXor(res[k - 1][i], row[i]), carry[i])]
    IN  res[Size(a) - 1]

uLessThanBB(a, b, orEqual) ==
    LET res[i \in DOMAIN a] ==
            IF i = 0 THEN (~a[0] /\ b[0]) \/ (orEqual /\ (a[0] <=> b[0]))
            ELSE ((a[i] <=> b[i]) /\ res[i - 1]) \/ (~a[i] /\ b[i])
    IN  res[Size(a) - 1]

sLessThanBB(a, b, orEqual) ==
    LET n == Size(a) - 1
    IN  IF n = 0
        THEN (orEqual /\ (a[0] <=> b[0])) \/ (a[0] /\ ~b[0])
        ELSE \/ /\ a[n] <=> b[n]
                /\ uLessThanBB(extractBits(a, 0, n - 1), extractBits(b, 0, n - 1), orEqual)
             \/ a[n] /\ ~b[n]

-----------------------------------------------------------------------------
(* Atoms.                                                                  *)
EqBB(a, b) == \A i \in DOMAIN a : a[i] <=> b[i]

AdderUltBB(a, b) == ~Carries(a, negateBits(b), 0, TRUE)[Size(a)]

UltBB(a, b) == uLessThanBB(a, b, FALSE)

UleBB(a, b) == uLessThanBB(a, b, TRUE)

SltBB(a, b) == sLessThanBB(a, b, FALSE)

SleBB(a, b) == sLessThanBB(a, b, TRUE)

-----------------------------------------------------------------------------
(* Terms.                                                                  *)
ConstBB(n, value) == [i \in 0 .. n - 1 |-> (value \div 2^i) % 2 = 1]

NotBB(a) == negateBits(a)

(* The children of a concatenation are given from the most significant.    *)
ConcatBB(a, b) ==
    [i \in 0 .. Size(a) + Size(b) - 1 |-> IF i < Size(b) THEN b[i] ELSE a[i - Size(b)]]

AndBB(a, b) == [i \in DOMAIN a |-> a[i] /\ b[i]]

OrBB(a, b) == [i \in DOMAIN a |-> a[i] \/ b[i]]

XorBB(a, b) == [i \in DOMAIN a |-> mkXor(a[i], b[i])]

XnorBB(a, b) == [i \in DOMAIN a |-> a[i] <=> b[i]]

CompBB(a, b) == [i \in {0} |-> EqBB(a, b)]

MultBB(a, b) == shiftAddMultiplier(a, b)

PlusBB(a, b) == rippleCarryAdder(a, b, FALSE).sum

SubBB(a, b) == rippleCarryAdder(a, negateBits(b), TRUE).sum

NegBB(a) == rippleCarryAdder(negateBits(a), makeZero(Size(a)), TRUE).sum

(* The recursion on a shifted right once more: level d has rec_width       *)
(* Size(a) - d. The bits that the shift brings in are the constant false.  *)
uDivModRec(a, zeros, b) ==
    LET n == Size(a)
        not_b == negateBits(b)
        isZero(d) == \A i \in DOMAIN a : i + d < n => i + d \in zeros
        rec[d \in 0 .. n] ==
            IF d = n \/ isZero(d)
            THEN [q |-> makeZero(n), r |-> makeZero(n)]
            ELSE LET ad == rshift(a, d)
                     q1 == lshift(rec[d + 1].q, 1)
                     r1 == lshift(rec[d + 1].r, 1)
                     r1_shift_add == rippleCarryAdder(r1, makeZero(n), ad[0]).sum
                     r_minus_b == rippleCarryAdder(r1_shift_add, not_b, TRUE)
                     sign == ~r_minus_b.carry
                     a_lt_b == ~rippleCarryAdder(ad, not_b, TRUE).carry
                 IN  [q |-> [i \in DOMAIN a |->
                                ~a_lt_b /\ (q1[i] \/ (i = 0 /\ ~sign))],
                      r |-> [i \in DOMAIN a |->
                                IF a_lt_b THEN ad[i]
                                ELSE IF sign THEN r1_shift_add[i] ELSE r_minus_b.sum[i]]]
    IN  rec[0]

(* Both division strategies compute the quotient and the remainder, patch  *)
(* them for a zero divisor, return one and cache the other.                *)
UdivUremBB(a, zeros, b) ==
    LET qr == uDivModRec(a, zeros, b)
        b_is_0 == \A i \in DOMAIN b : ~b[i]
    IN  [udiv |-> [i \in DOMAIN a |-> b_is_0 \/ qr.q[i]],
         urem |-> [i \in DOMAIN a |-> IF b_is_0 THEN a[i] ELSE qr.r[i]]]

log2Size(n) == CHOOSE k \in 0 .. n : 2^k >= n /\ \A j \in 0 .. k - 1 : 2^j < n

(* The stages of a barrel shifter: stage s moves by 2^s places if bit s of *)
(* the amount is set, down (dir = 1) or up (dir = -1).                     *)
Stages(a, b, dir, fill) ==
    LET res[s \in 0 .. log2Size(Size(a))] ==
            IF s = 0 THEN a
            ELSE [i \in DOMAIN a |->
                     LET from == i + dir * 2^(s - 1)
                     IN  CASE ~b[s - 1] -> res[s - 1][i]
                           [] b[s - 1] /\ from \in DOMAIN a -> res[s - 1][from]
                           [] OTHER -> fill]
    IN  res[log2Size(Size(a))]

(* b_ult_a_size: the amount compared with the constant size of the term.   *)
InRange(a, b) == UltBB(b, ConstBB(Size(a), Size(a)))

ShlBB(a, b) ==
    LET res == Stages(a, b, -1, FALSE)
    IN  [i \in DOMAIN a |-> InRange(a, b) /\ res[i]]

LshrBB(a, b) ==
    LET res == Stages(a, b, 1, FALSE)
    IN  [i \in DOMAIN a |-> InRange(a, b) /\ res[i]]

AshrBB(a, b) ==
    LET sign_bit == a[Size(a) - 1]
        res == Stages(a, b, 1, sign_bit)
    IN  [i \in DOMAIN a |-> IF InRange(a, b) THEN res[i] ELSE sign_bit]

UltbvBB(a, b) == [i \in {0} |-> uLessThanBB(a, b, FALSE)]

SltbvBB(a, b) == [i \in {0} |-> sLessThanBB(a, b, FALSE)]

IteBB(cond, a, b) == [i \in DOMAIN a |-> (~cond[0] \/ a[i]) /\ (cond[0] \/ b[i])]

ExtractBB(a, high, low) == extractBits(a, low, high)

SignExtendBB(a, amount) ==
    [i \in 0 .. Size(a) + amount - 1 |-> IF i < Size(a) THEN a[i] ELSE a[Size(a) - 1]]
=============================================================================
