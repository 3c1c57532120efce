--------------------------- MODULE SmtEngineProofs ---------------------------
(***************************************************************************)
(* Proofs about SmtEngine, for any formulas, any depth of pushes and any   *)
(* order of commands: the SAT solver holds what the user has asserted.     *)
(***************************************************************************)
EXTENDS SmtEngine, SequenceTheorems, TLAPS

\* Without resetAssertions, whose assertion fails, and without formulas in checks
\* where these may end early (see README.md, a refused check leaves its formula).
PlainSessions ==
  \A s \in Sessions :
    /\ ~s.resets
    /\ s.incremental /\ s.faults # {} => s.queries \subseteq {NoFormula}

\* So it is in the session at hand, and the queries are about formulas.
PlainChecks ==
  /\ ~Resets
  /\ Incremental /\ Faults # {} => Queries \subseteq {NoFormula}
QueriesOK == NoFormula \notin Formulas /\ Queries \subseteq Formulas \cup {NoFormula}

\* What remains of a sequence of levels once the pending pops are done.
KeptOf(seq, e) == Prefix(seq, Len(seq) - e.d_pendingPops)

\* The levels L of the user are levels of a context with n levels.
Shape(n, L, st) ==
  /\ Len(L) = Len(st) - 1
  /\ \A i \in 1..Len(L) : L[i] \in 1..(n - 1)
  /\ \A i \in 1..Len(L) : \A k \in 1..(i - 1) : L[k] < L[i]

\* Up to each level of the user the list and the SAT solver hold what was asserted
\* before it; in all, the SAT solver and the queue hold what was asserted.
Content(sat, list, waiting, L, st) ==
  /\ All(list) = All(st)
  /\ All(sat) \cup waiting = All(st)
  /\ \A i \in 1..Len(L) : /\ All(Prefix(list, L[i])) = All(Prefix(st, i))
                          /\ All(Prefix(sat, L[i])) = All(Prefix(st, i))

\* The sequences of an engine that fit together, and the levels of the user.
Fits(sat, list, waiting, L, st) ==
  /\ sat \in Seq(SUBSET Formulas) /\ list \in Seq(SUBSET Formulas)
  /\ st \in Seq(SUBSET Formulas) /\ L \in Seq(Nat)
  /\ waiting \subseteq Formulas
  /\ Len(sat) = Len(list) /\ Len(list) > 0 /\ Shape(Len(list), L, st)

\* Engine e is in step with what was asserted, st.  Without --incremental there is
\* one check, and its formula remains behind.
Good(e, st) ==
  /\ e \in EngineStates /\ e.asserts
  /\ Len(e.sat) = Len(e.d_assertionList) /\ e.d_pendingPops < Len(e.d_assertionList)
  /\ ~Incremental => e.d_pendingPops = 0 /\ e.d_userLevels = << >>
  /\ Fits(KeptOf(e.sat, e), KeptOf(e.d_assertionList, e), e.d_assertions, e.d_userLevels, st)
  /\ Incremental \/ ~e.d_queryMade =>
       Content(KeptOf(e.sat, e), KeptOf(e.d_assertionList, e), e.d_assertions, e.d_userLevels, st)
  /\ Faults = {} => e.presolved = e.d_needPostsolve

Inv ==
  /\ session \in Sessions
  /\ Good(smt, stack)
  /\ asked \subseteq Formulas /\ decided \subseteq Formulas /\ extended \in BOOLEAN
  /\ decided = asked

\* The sessions are those assumed.
LEMMA SessionFacts ==
  ASSUME EngineAssumption, PlainSessions, Inv PROVE QueriesOK /\ PlainChecks
BY DEF EngineAssumption, PlainSessions, Inv, QueriesOK, PlainChecks, Incremental, Queries, Resets,
       Faults

\* A command leaves the engine good in the session that stays.
LEMMA InvNext ==
  ASSUME Inv, UNCHANGED session, Good(smt', stack'), asked' \subseteq Formulas,
         decided' \subseteq Formulas, extended' \in BOOLEAN, decided' = asked'
  PROVE  Inv'
BY DEF Inv, Good, Incremental, Faults

-----------------------------------------------------------------------------
(* Sequences of levels. *)

\* The first n elements of a sequence.
LEMMA PrefixFacts ==
  ASSUME NEW S, NEW s \in Seq(S), NEW n \in 0..Len(s)
  PROVE  /\ Prefix(s, n) \in Seq(S) /\ Len(Prefix(s, n)) = n
         /\ \A i \in 1..n : Prefix(s, n)[i] = s[i]
<1>1. Len(s) \in Nat
  BY LenProperties
<1>2. \A i \in 1..n : s[i] \in S
  BY <1>1, ElementOfSeq
<1>3. QED
  BY <1>1, <1>2, SubSeqProperties DEF Prefix

\* All of its elements.
LEMMA PrefixAll ==
  ASSUME NEW S, NEW s \in Seq(S)
  PROVE  Prefix(s, Len(s)) = s
<1>1. Len(s) \in 0..Len(s)
  BY LenProperties
<1>2. QED
  BY <1>1, PrefixFacts, SeqEqual

\* The prefix of a prefix.
LEMMA PrefixPrefix ==
  ASSUME NEW S, NEW s \in Seq(S), NEW n \in 0..Len(s), NEW k \in 0..n
  PROVE  Prefix(Prefix(s, n), k) = Prefix(s, k)
<1>1. Len(s) \in Nat
  BY LenProperties
<1>2. k \in 0..Len(s)
  BY <1>1
<1>3. Prefix(s, n) \in Seq(S) /\ Len(Prefix(s, n)) = n /\ \A i \in 1..n : Prefix(s, n)[i] = s[i]
  BY PrefixFacts
<1>4. Prefix(s, k) \in Seq(S) /\ Len(Prefix(s, k)) = k /\ \A i \in 1..k : Prefix(s, k)[i] = s[i]
  BY <1>2, PrefixFacts
<1> DEFINE t == Prefix(s, n)
<1>5. k \in 0..Len(t) /\ t \in Seq(S)
  BY <1>3
<1>6. /\ Prefix(t, k) \in Seq(S) /\ Len(Prefix(t, k)) = k
      /\ \A i \in 1..k : Prefix(t, k)[i] = t[i]
  <2> HIDE DEF t
  <2>1. QED
    BY <1>5, PrefixFacts
<1>7. \A i \in 1..k : Prefix(t, k)[i] = Prefix(s, k)[i]
  BY <1>1, <1>3, <1>4, <1>6
<1> HIDE DEF t
<1>8. Prefix(t, k) = Prefix(s, k)
  BY <1>4, <1>6, <1>7, SeqEqual
<1>9. QED
  BY <1>8 DEF t

\* What AddToTop returns.
LEMMA AddToTopFacts ==
  ASSUME NEW s \in Seq(SUBSET Formulas), NEW X, X \subseteq Formulas, Len(s) > 0
  PROVE  /\ AddToTop(s, X) \in Seq(SUBSET Formulas) /\ Len(AddToTop(s, X)) = Len(s)
         /\ AddToTop(s, X)[Len(s)] = s[Len(s)] \cup X
         /\ \A i \in 1..(Len(s) - 1) : AddToTop(s, X)[i] = s[i]
<1>1. Len(s) \in Nat /\ Len(s) \in 1..Len(s)
  BY LenProperties
<1>2. s[Len(s)] \cup X \in SUBSET Formulas
  BY <1>1, ElementOfSeq
<1> DEFINE v == s[Len(s)] \cup X
<1>3. AddToTop(s, X) = [s EXCEPT ![Len(s)] = v]
  BY DEF AddToTop
<1> HIDE DEF v
<1>4. QED
  BY <1>1, <1>2, <1>3, ExceptSeq DEF v

\* What is in some level.
LEMMA InAll ==
  ASSUME NEW s, NEW x
  PROVE  x \in All(s) <=> \E i \in 1..Len(s) : x \in s[i]
BY DEF All

\* What is in some level after formulas are added to the top ...
LEMMA AllAdd ==
  ASSUME NEW s \in Seq(SUBSET Formulas), NEW X, X \subseteq Formulas, Len(s) > 0
  PROVE  All(AddToTop(s, X)) = All(s) \cup X
<1> DEFINE t == AddToTop(s, X)
<1>1. Len(s) \in Nat /\ Len(t) = Len(s) /\ t[Len(s)] = s[Len(s)] \cup X
  BY AddToTopFacts, LenProperties
<1>2. \A i \in 1..(Len(s) - 1) : t[i] = s[i]
  BY AddToTopFacts
<1> HIDE DEF t
<1>3. ASSUME NEW x PROVE x \in All(t) <=> x \in All(s) \/ x \in X
  <2>1. ASSUME x \in All(t) PROVE x \in All(s) \/ x \in X
    <3>1. PICK i \in 1..Len(s) : x \in t[i]
      BY <1>1, <2>1, InAll
    <3>2. x \in s[i] \/ x \in X
      <4>1. CASE i = Len(s)
        BY <1>1, <3>1, <4>1
      <4>2. CASE i # Len(s)
        <5>1. i \in 1..(Len(s) - 1)
          BY <1>1, <4>2
        <5>2. QED
          BY <1>2, <3>1, <5>1
      <4>3. QED
        BY <4>1, <4>2
    <3>3. QED
      BY <3>2, InAll
  <2>2. ASSUME x \in X PROVE x \in All(t)
    <3>1. Len(s) \in 1..Len(t) /\ x \in t[Len(s)]
      BY <1>1, <2>2
    <3>2. QED
      BY <3>1, InAll
  <2>3. ASSUME x \in All(s) PROVE x \in All(t)
    <3>1. PICK i \in 1..Len(s) : x \in s[i]
      BY <2>3, InAll
    <3>2. x \in t[i]
      <4>1. CASE i = Len(s)
        BY <1>1, <3>1, <4>1
      <4>2. CASE i # Len(s)
        <5>1. i \in 1..(Len(s) - 1)
          BY <1>1, <4>2
        <5>2. QED
          BY <1>2, <3>1, <5>1
      <4>3. QED
        BY <4>1, <4>2
    <3>3. i \in 1..Len(t)
      BY <1>1
    <3>4. QED
      BY <3>2, <3>3, InAll
  <2>4. QED
    BY <2>1, <2>2, <2>3
<1>4. All(t) = All(s) \cup X
  BY <1>3
<1>5. QED
  BY <1>4 DEF t

\* ... or in a level of their own.
LEMMA AllAppend ==
  ASSUME NEW s \in Seq(SUBSET Formulas), NEW X, X \subseteq Formulas
  PROVE  All(Append(s, X)) = All(s) \cup X
<1> DEFINE t == Append(s, X)
<1>1. Len(s) \in Nat /\ Len(t) = Len(s) + 1 /\ t[Len(s) + 1] = X
  BY AppendProperties, LenProperties
<1>2. \A i \in 1..Len(s) : t[i] = s[i]
  BY AppendProperties
<1> HIDE DEF t
<1>3. ASSUME NEW x PROVE x \in All(t) <=> x \in All(s) \/ x \in X
  <2>1. ASSUME x \in All(t) PROVE x \in All(s) \/ x \in X
    <3>1. PICK i \in 1..(Len(s) + 1) : x \in t[i]
      BY <1>1, <2>1, InAll
    <3>2. CASE i = Len(s) + 1
      BY <1>1, <3>1, <3>2
    <3>3. CASE i # Len(s) + 1
      <4>1. i \in 1..Len(s)
        BY <1>1, <3>3
      <4>2. QED
        BY <1>2, <3>1, <4>1, InAll
    <3>4. QED
      BY <3>2, <3>3
  <2>2. ASSUME x \in X PROVE x \in All(t)
    <3>1. Len(s) + 1 \in 1..Len(t) /\ x \in t[Len(s) + 1]
      BY <1>1, <2>2
    <3>2. QED
      BY <3>1, InAll
  <2>3. ASSUME x \in All(s) PROVE x \in All(t)
    <3>1. PICK i \in 1..Len(s) : x \in s[i]
      BY <2>3, InAll
    <3>2. i \in 1..Len(t) /\ x \in t[i]
      BY <1>1, <1>2, <3>1
    <3>3. QED
      BY <3>2, InAll
  <2>4. QED
    BY <2>1, <2>2, <2>3
<1>4. All(t) = All(s) \cup X
  BY <1>3
<1>5. QED
  BY <1>4 DEF t

\* The levels below the top stay.
LEMMA PrefixAdd ==
  ASSUME NEW s \in Seq(SUBSET Formulas), NEW X, X \subseteq Formulas, NEW n \in 0..Len(s), n < Len(s)
  PROVE  Prefix(AddToTop(s, X), n) = Prefix(s, n)
<1> DEFINE t == AddToTop(s, X)
<1>1. Len(s) \in Nat /\ Len(s) > 0
  BY LenProperties
<1>2. t \in Seq(SUBSET Formulas) /\ Len(t) = Len(s) /\ \A i \in 1..(Len(s) - 1) : t[i] = s[i]
  BY <1>1, AddToTopFacts
<1> HIDE DEF t
<1>3. Prefix(t, n) \in Seq(SUBSET Formulas) /\ Len(Prefix(t, n)) = n /\ \A i \in 1..n : Prefix(t, n)[i] = t[i]
  BY <1>2, PrefixFacts
<1>4. Prefix(s, n) \in Seq(SUBSET Formulas) /\ Len(Prefix(s, n)) = n /\ \A i \in 1..n : Prefix(s, n)[i] = s[i]
  BY PrefixFacts
<1>5. \A i \in 1..n : Prefix(t, n)[i] = Prefix(s, n)[i]
  <2>1. \A i \in 1..n : i \in 1..(Len(s) - 1)
    BY <1>1
  <2>2. QED
    BY <1>2, <1>3, <1>4, <2>1
<1>6. Prefix(t, n) = Prefix(s, n)
  BY <1>3, <1>4, <1>5, SeqEqual
<1>7. QED
  BY <1>6 DEF t

\* The levels below a new one stay.
LEMMA PrefixAppend ==
  ASSUME NEW S, NEW s \in Seq(S), NEW X \in S, NEW n \in 0..Len(s)
  PROVE  Prefix(Append(s, X), n) = Prefix(s, n)
<1> DEFINE t == Append(s, X)
<1>1. Len(s) \in Nat
  BY LenProperties
<1>2. t \in Seq(S) /\ Len(t) = Len(s) + 1 /\ \A i \in 1..Len(s) : t[i] = s[i]
  BY AppendProperties
<1> HIDE DEF t
<1>3. n \in 0..Len(t)
  BY <1>1, <1>2
<1>4. Prefix(t, n) \in Seq(S) /\ Len(Prefix(t, n)) = n /\ \A i \in 1..n : Prefix(t, n)[i] = t[i]
  BY <1>2, <1>3, PrefixFacts
<1>5. Prefix(s, n) \in Seq(S) /\ Len(Prefix(s, n)) = n /\ \A i \in 1..n : Prefix(s, n)[i] = s[i]
  BY PrefixFacts
<1>6. \A i \in 1..n : Prefix(t, n)[i] = Prefix(s, n)[i]
  BY <1>1, <1>2, <1>4, <1>5
<1>7. Prefix(t, n) = Prefix(s, n)
  BY <1>4, <1>5, <1>6, SeqEqual
<1>8. QED
  BY <1>7 DEF t

-----------------------------------------------------------------------------
(* What the list and the SAT solver hold. *)

\* The numbers in Fits.
LEMMA FitsFacts ==
  ASSUME NEW sat, NEW list, NEW waiting, NEW L, NEW st, Fits(sat, list, waiting, L, st)
  PROVE  /\ Len(sat) \in Nat /\ Len(list) \in Nat /\ Len(L) \in Nat /\ Len(st) \in Nat
         /\ Len(st) = Len(L) + 1
         /\ \A i \in 1..Len(L) : /\ L[i] \in 0..Len(list) /\ L[i] < Len(list) /\ L[i] >= 1
                                 /\ i \in 0..Len(st) /\ i < Len(st)
<1>1. Len(sat) \in Nat /\ Len(list) \in Nat /\ Len(L) \in Nat /\ Len(st) \in Nat
  BY LenProperties DEF Fits
<1>2. Len(L) = Len(st) - 1 /\ \A i \in 1..Len(L) : L[i] \in 1..(Len(list) - 1)
  BY DEF Fits, Shape
<1>3. QED
  BY <1>1, <1>2

\* Formulas go from the queue to the SAT solver.
LEMMA ContentProcess ==
  ASSUME NEW sat, NEW list, NEW waiting, NEW L, NEW st, Fits(sat, list, waiting, L, st),
         Content(sat, list, waiting, L, st),
         NEW some, NEW rest, some \cup rest = waiting
  PROVE  Content(AddToTop(sat, some), list, rest, L, st)
<1>1. some \subseteq Formulas /\ sat \in Seq(SUBSET Formulas) /\ Len(sat) > 0 /\ Len(sat) = Len(list)
  BY DEF Fits
<1>2. All(AddToTop(sat, some)) = All(sat) \cup some
  BY <1>1, AllAdd
<1>3. All(AddToTop(sat, some)) \cup rest = All(st)
  BY <1>2 DEF Content
<1>4. \A i \in 1..Len(L) : Prefix(AddToTop(sat, some), L[i]) = Prefix(sat, L[i])
  BY <1>1, FitsFacts, PrefixAdd
<1>5. QED
  BY <1>3, <1>4 DEF Content

\* A formula is asserted.
LEMMA ContentAssert ==
  ASSUME NEW sat, NEW list, NEW waiting, NEW L, NEW st, Fits(sat, list, waiting, L, st),
         Content(sat, list, waiting, L, st), NEW f \in Formulas
  PROVE  Content(sat, AddToTop(list, {f}), waiting \cup {f}, L, AddToTop(st, {f}))
<1>1. /\ {f} \subseteq Formulas /\ list \in Seq(SUBSET Formulas) /\ Len(list) > 0
      /\ st \in Seq(SUBSET Formulas)
  BY DEF Fits
<1>2. Len(st) > 0
  BY FitsFacts
<1>3. All(AddToTop(list, {f})) = All(list) \cup {f} /\ All(AddToTop(st, {f})) = All(st) \cup {f}
  BY <1>1, <1>2, AllAdd
<1>4. \A i \in 1..Len(L) : Prefix(AddToTop(list, {f}), L[i]) = Prefix(list, L[i])
  BY <1>1, FitsFacts, PrefixAdd
<1>5. \A i \in 1..Len(L) : Prefix(AddToTop(st, {f}), i) = Prefix(st, i)
  BY <1>1, FitsFacts, PrefixAdd
<1>6. QED
  BY <1>3, <1>4, <1>5 DEF Content

\* A level is opened that is not one of the user's.
LEMMA ContentOpen ==
  ASSUME NEW sat, NEW list, NEW waiting, NEW L, NEW st, Fits(sat, list, waiting, L, st)
  PROVE  /\ Fits(Append(sat, {}), Append(list, {}), waiting, L, st)
         /\ Content(sat, list, waiting, L, st) =>
              Content(Append(sat, {}), Append(list, {}), waiting, L, st)
<1>1. sat \in Seq(SUBSET Formulas) /\ list \in Seq(SUBSET Formulas) /\ {} \subseteq Formulas
  BY DEF Fits
<1>2. {} \in SUBSET Formulas
  OBVIOUS
<1>3. /\ Append(sat, {}) \in Seq(SUBSET Formulas) /\ Append(list, {}) \in Seq(SUBSET Formulas)
      /\ Len(Append(sat, {})) = Len(sat) + 1 /\ Len(Append(list, {})) = Len(list) + 1
  BY <1>1, <1>2, AppendProperties
<1>4. Shape(Len(list) + 1, L, st)
  <2>1. Len(list) \in Nat /\ Shape(Len(list), L, st)
    BY FitsFacts DEF Fits
  <2>2. QED
    BY <2>1 DEF Shape
<1>5. Fits(Append(sat, {}), Append(list, {}), waiting, L, st)
  <2>1. Len(list) \in Nat
    BY FitsFacts
  <2>2. QED
    BY <1>3, <1>4, <2>1 DEF Fits
<1>6. All(Append(sat, {})) = All(sat) /\ All(Append(list, {})) = All(list)
  BY <1>1, AllAppend
<1>7. \A i \in 1..Len(L) : L[i] \in 0..Len(sat) /\ L[i] \in 0..Len(list)
  BY FitsFacts DEF Fits
<1>8. \A i \in 1..Len(L) : /\ Prefix(Append(sat, {}), L[i]) = Prefix(sat, L[i])
                           /\ Prefix(Append(list, {}), L[i]) = Prefix(list, L[i])
  BY <1>1, <1>2, <1>7, PrefixAppend
<1>9. QED
  BY <1>5, <1>6, <1>8 DEF Content

\* The user opens a level, when the queue is empty.
LEMMA ContentPush ==
  ASSUME NEW sat, NEW list, NEW L, NEW st, Fits(sat, list, {}, L, st),
         Content(sat, list, {}, L, st)
  PROVE  /\ Fits(Append(sat, {}), Append(list, {}), {}, Append(L, Len(list)), Append(st, {}))
         /\ Content(Append(sat, {}), Append(list, {}), {}, Append(L, Len(list)), Append(st, {}))
<1> DEFINE M == Append(L, Len(list))
           s1 == Append(sat, {})
           l1 == Append(list, {})
           st1 == Append(st, {})
<1>1. /\ Fits(s1, l1, {}, L, st) /\ Content(s1, l1, {}, L, st)
  BY ContentOpen
<1>2. /\ sat \in Seq(SUBSET Formulas) /\ list \in Seq(SUBSET Formulas) /\ L \in Seq(Nat)
      /\ st \in Seq(SUBSET Formulas) /\ Len(list) \in Nat /\ Len(list) > 0 /\ Len(sat) = Len(list)
  BY FitsFacts DEF Fits
<1>3. {} \in SUBSET Formulas /\ {} \subseteq Formulas
  OBVIOUS
<1>4. /\ st1 \in Seq(SUBSET Formulas) /\ Len(st1) = Len(st) + 1 /\ Len(l1) = Len(list) + 1
  BY <1>2, <1>3, AppendProperties
<1>5. /\ M \in Seq(Nat) /\ Len(M) = Len(L) + 1 /\ M[Len(L) + 1] = Len(list)
      /\ \A i \in 1..Len(L) : M[i] = L[i]
  BY <1>2, AppendProperties
<1>6. /\ All(st1) = All(st) /\ All(s1) = All(sat) /\ All(l1) = All(list)
  <2>1. /\ All(st1) = All(st) \cup {} /\ All(s1) = All(sat) \cup {}
        /\ All(l1) = All(list) \cup {}
    BY <1>2, <1>3, AllAppend
  <2>2. QED
    BY <2>1
<1>7. All(list) = All(st) /\ All(sat) = All(st)
  BY DEF Content
<1>8. /\ Prefix(l1, Len(list)) = list /\ Prefix(s1, Len(list)) = sat
      /\ Prefix(st1, Len(st)) = st
  <2>1. /\ Len(list) \in 0..Len(list) /\ Len(sat) \in 0..Len(sat) /\ Len(st) \in 0..Len(st)
    BY FitsFacts
  <2>2. Prefix(l1, Len(list)) = Prefix(list, Len(list))
    BY <1>2, <1>3, <2>1, PrefixAppend
  <2>3. Prefix(s1, Len(sat)) = Prefix(sat, Len(sat))
    BY <1>2, <1>3, <2>1, PrefixAppend
  <2>4. Prefix(st1, Len(st)) = Prefix(st, Len(st))
    BY <1>2, <1>3, <2>1, PrefixAppend
  <2>5. QED
    BY <1>2, <2>2, <2>3, <2>4, PrefixAll
<1>9. \A i \in 1..Len(L) : Prefix(st1, i) = Prefix(st, i)
  BY <1>2, <1>3, FitsFacts, PrefixAppend
<1>10. Len(L) \in Nat /\ Len(st) = Len(L) + 1
  BY FitsFacts
<1>11. Shape(Len(l1), M, st1)
  <2>1. \A i \in 1..Len(L) : L[i] \in 1..(Len(list) - 1)
    BY DEF Fits, Shape
  <2>2. \A i \in 1..Len(L) : \A k \in 1..(i - 1) : L[k] < L[i]
    BY DEF Fits, Shape
  <2>3. \A i \in 1..Len(M) : M[i] \in 1..(Len(l1) - 1)
    BY <1>2, <1>4, <1>5, <1>10, <2>1
  <2>4. ASSUME NEW i \in 1..Len(M), NEW k \in 1..(i - 1) PROVE M[k] < M[i]
    <3>1. k \in 1..Len(L) /\ M[k] = L[k]
      BY <1>5, <1>10
    <3>2. CASE i = Len(L) + 1
      BY <1>2, <1>5, <2>1, <3>1, <3>2
    <3>3. CASE i # Len(L) + 1
      <4>1. i \in 1..Len(L)
        BY <1>5, <1>10, <3>3
      <4>2. QED
        BY <1>5, <2>2, <3>1, <4>1
    <3>4. QED
      BY <3>2, <3>3
  <2>5. QED
    BY <1>4, <1>5, <1>10, <2>3, <2>4 DEF Shape
<1> HIDE DEF M, s1, l1, st1
<1>12. Fits(s1, l1, {}, M, st1)
  BY <1>1, <1>4, <1>5, <1>11 DEF Fits
<1>13. \A i \in 1..Len(M) : /\ All(Prefix(l1, M[i])) = All(Prefix(st1, i))
                            /\ All(Prefix(s1, M[i])) = All(Prefix(st1, i))
  <2>1. TAKE i \in 1..Len(M)
  <2>2. CASE i = Len(L) + 1
    BY <1>5, <1>7, <1>8, <1>10, <2>2
  <2>3. CASE i # Len(L) + 1
    <3>1. i \in 1..Len(L)
      BY <1>5, <1>10, <2>3
    <3>2. QED
      BY <1>1, <1>5, <1>9, <3>1 DEF Content
  <2>4. QED
    BY <2>2, <2>3
<1>14. Content(s1, l1, {}, M, st1)
  BY <1>6, <1>7, <1>13 DEF Content
<1>15. QED
  BY <1>12, <1>14 DEF M, s1, l1, st1

\* The user closes a level: everything above it goes, and the queue.
LEMMA ContentPop ==
  ASSUME NEW sat, NEW list, NEW waiting, NEW L, NEW st, Fits(sat, list, waiting, L, st),
         Len(L) > 0
  PROVE  LET n == L[Len(L)] IN
         /\ Fits(Prefix(sat, n), Prefix(list, n), {}, Prefix(L, Len(L) - 1), Prefix(st, Len(st) - 1))
         /\ Content(sat, list, waiting, L, st) =>
              Content(Prefix(sat, n), Prefix(list, n), {}, Prefix(L, Len(L) - 1),
                      Prefix(st, Len(st) - 1))
<1> DEFINE n == L[Len(L)]
           M == Prefix(L, Len(L) - 1)
           st1 == Prefix(st, Len(st) - 1)
<1>1. /\ sat \in Seq(SUBSET Formulas) /\ list \in Seq(SUBSET Formulas) /\ L \in Seq(Nat)
      /\ st \in Seq(SUBSET Formulas) /\ Len(sat) = Len(list)
  BY DEF Fits
<1>2. Len(list) \in Nat /\ Len(L) \in Nat /\ Len(st) = Len(L) + 1
  BY FitsFacts
<1>3. n \in 0..Len(list) /\ n >= 1 /\ n \in Nat
  <2>1. Len(L) \in 1..Len(L)
    BY <1>2
  <2>2. QED
    BY <1>2, <2>1, FitsFacts
<1>4. Len(L) - 1 \in 0..Len(L) /\ Len(st) - 1 \in 0..Len(st)
  BY <1>2
<1>5. /\ M \in Seq(Nat) /\ Len(M) = Len(L) - 1 /\ \A i \in 1..(Len(L) - 1) : M[i] = L[i]
  BY <1>1, <1>4, PrefixFacts
<1>6. st1 \in Seq(SUBSET Formulas) /\ Len(st1) = Len(st) - 1
  BY <1>1, <1>4, PrefixFacts
<1>7. /\ Prefix(sat, n) \in Seq(SUBSET Formulas) /\ Prefix(list, n) \in Seq(SUBSET Formulas)
      /\ Len(Prefix(sat, n)) = n /\ Len(Prefix(list, n)) = n
  <2> HIDE DEF n
  <2>1. QED
    BY <1>1, <1>3, PrefixFacts
<1>8. \A i \in 1..Len(M) : M[i] = L[i] /\ L[i] \in 1..(n - 1)
  <2>1. \A i \in 1..(Len(L) - 1) : L[i] < n
    BY <1>2 DEF Fits, Shape
  <2>2. \A i \in 1..Len(L) : L[i] \in 1..(Len(list) - 1)
    BY DEF Fits, Shape
  <2>3. QED
    BY <1>2, <1>3, <1>5, <2>1, <2>2
<1> HIDE DEF n, M, st1
<1>9. Shape(n, M, st1)
  <2>1. \A i \in 1..Len(L) : \A k \in 1..(i - 1) : L[k] < L[i]
    BY DEF Fits, Shape
  <2>2. ASSUME NEW i \in 1..Len(M), NEW k \in 1..(i - 1) PROVE M[k] < M[i]
    <3>1. i \in 1..Len(L) /\ i \in 1..(Len(L) - 1) /\ k \in 1..(Len(L) - 1)
      BY <1>2, <1>5
    <3>2. M[i] = L[i] /\ M[k] = L[k] /\ L[k] < L[i]
      BY <1>5, <2>1, <3>1
    <3>3. QED
      BY <3>2
  <2>3. \A i \in 1..Len(M) : M[i] \in 1..(n - 1)
    BY <1>8
  <2>4. QED
    BY <1>2, <1>5, <1>6, <2>2, <2>3 DEF Shape
<1>10. Fits(Prefix(sat, n), Prefix(list, n), {}, M, st1)
  BY <1>3, <1>5, <1>6, <1>7, <1>9 DEF Fits
<1>11. ASSUME Content(sat, list, waiting, L, st)
       PROVE  Content(Prefix(sat, n), Prefix(list, n), {}, M, st1)
  <2>1. Len(L) \in 1..Len(L) /\ Len(L) = Len(st) - 1
    BY <1>2
  <2>2. All(Prefix(list, n)) = All(st1) /\ All(Prefix(sat, n)) = All(st1)
    BY <1>11, <2>1 DEF Content, n, st1
  <2>3. \A i \in 1..Len(M) : M[i] \in 0..n /\ i \in 0..(Len(st) - 1) /\ i \in 1..Len(L)
    BY <1>2, <1>3, <1>5, <1>8
  <2>4. \A i \in 1..Len(M) : /\ Prefix(Prefix(list, n), M[i]) = Prefix(list, M[i])
                             /\ Prefix(Prefix(sat, n), M[i]) = Prefix(sat, M[i])
    BY <1>1, <1>3, <2>3, PrefixPrefix
  <2>5. \A i \in 1..Len(M) : Prefix(st1, i) = Prefix(st, i)
    BY <1>1, <1>4, <2>3, PrefixPrefix DEF st1
  <2>6. \A i \in 1..Len(M) : /\ All(Prefix(Prefix(list, n), M[i])) = All(Prefix(st1, i))
                             /\ All(Prefix(Prefix(sat, n), M[i])) = All(Prefix(st1, i))
    BY <1>8, <1>11, <2>3, <2>4, <2>5 DEF Content
  <2>7. QED
    BY <2>2, <2>6 DEF Content
<1>12. QED
  BY <1>10, <1>11 DEF n, M, st1

-----------------------------------------------------------------------------
(* The operations of the engine. *)

\* The fields that most operations leave alone.
SameRest(d, e) ==
  /\ d.d_userLevels = e.d_userLevels /\ d.d_queryMade = e.d_queryMade
  /\ d.d_needPostsolve = e.d_needPostsolve /\ d.presolved = e.presolved

\* With nothing pending, an engine is in step if its sequences are.
LEMMA GoodDone ==
  ASSUME NEW e \in EngineStates, e.d_pendingPops = 0, NEW st
  PROVE  Good(e, st) <=>
           /\ e.asserts /\ (~Incremental => e.d_userLevels = << >>)
           /\ Fits(e.sat, e.d_assertionList, e.d_assertions, e.d_userLevels, st)
           /\ Incremental \/ ~e.d_queryMade =>
                Content(e.sat, e.d_assertionList, e.d_assertions, e.d_userLevels, st)
           /\ Faults = {} => e.presolved = e.d_needPostsolve
<1>1. e.sat \in Seq(SUBSET Formulas) /\ e.d_assertionList \in Seq(SUBSET Formulas)
  BY DEF EngineStates
<1>2. Len(e.sat) \in Nat /\ Len(e.d_assertionList) \in Nat
  BY <1>1, LenProperties
<1>3. Len(e.sat) - e.d_pendingPops = Len(e.sat) /\
      Len(e.d_assertionList) - e.d_pendingPops = Len(e.d_assertionList)
  BY <1>2
<1>4. KeptOf(e.sat, e) = e.sat /\ KeptOf(e.d_assertionList, e) = e.d_assertionList
  BY <1>1, <1>3, PrefixAll DEF KeptOf
<1>5. Fits(e.sat, e.d_assertionList, e.d_assertions, e.d_userLevels, st) =>
        Len(e.sat) = Len(e.d_assertionList) /\ e.d_pendingPops < Len(e.d_assertionList)
  BY <1>2 DEF Fits
<1>6. QED
  BY <1>4, <1>5 DEF Good

\* doPendingPops
LEMMA PopsGood ==
  ASSUME NEW e, NEW st, Good(e, st)
  PROVE  LET d == doPendingPops(e) IN
         /\ Good(d, st) /\ d \in EngineStates /\ d.d_pendingPops = 0 /\ SameRest(d, e)
         /\ d.sat = KeptOf(e.sat, e) /\ d.d_assertionList = KeptOf(e.d_assertionList, e)
         /\ d.d_assertions = e.d_assertions
<1> DEFINE s == KeptOf(e.sat, e)
           l == KeptOf(e.d_assertionList, e)
           d == [e EXCEPT !.sat = s, !.d_assertionList = l, !.d_pendingPops = 0]
<1>1. doPendingPops(e) = d
  BY DEF doPendingPops, KeptOf
<1>2. e \in EngineStates
  BY DEF Good
<1>3. s \in Seq(SUBSET Formulas) /\ l \in Seq(SUBSET Formulas)
  BY DEF Good, Fits
<1> HIDE DEF s, l
<1>4. d \in EngineStates
  BY <1>2, <1>3 DEF EngineStates
<1>5. /\ d.sat = s /\ d.d_assertionList = l /\ d.d_pendingPops = 0
      /\ d.d_assertions = e.d_assertions /\ d.asserts = e.asserts /\ SameRest(d, e)
  BY <1>2 DEF EngineStates, SameRest
<1> HIDE DEF d
<1>6. Good(d, st)
  BY <1>4, <1>5, GoodDone DEF Good, SameRest, s, l
<1>7. QED
  BY <1>1, <1>4, <1>5, <1>6 DEF s, l

\* Formulas go to the SAT solver: processAssertions, or an exception in it.
Given(e, some, rest) ==
  [e EXCEPT !.asserts = @ /\ e.d_pendingPops = 0, !.sat = AddToTop(@, some),
            !.d_assertions = rest]

\* Some of the pending assertions were given to the PropEngine, the rest wait.
LEMMA GivenGood ==
  ASSUME NEW e, NEW st, Good(e, st), e.d_pendingPops = 0,
         NEW some, NEW rest, some \cup rest = e.d_assertions
  PROVE  LET d == Given(e, some, rest) IN
         /\ Good(d, st) /\ d \in EngineStates /\ d.d_pendingPops = 0 /\ SameRest(d, e)
         /\ d.sat = AddToTop(e.sat, some) /\ d.d_assertionList = e.d_assertionList
         /\ d.d_assertions = rest
<1> DEFINE s == AddToTop(e.sat, some)
           yes == e.asserts /\ e.d_pendingPops = 0
           d == Given(e, some, rest)
<1>1. e \in EngineStates /\ e.asserts
  BY DEF Good
<1>2. yes = TRUE
  BY <1>1 DEF EngineStates
<1>3. Fits(e.sat, e.d_assertionList, e.d_assertions, e.d_userLevels, st)
  BY <1>1, GoodDone
<1>4. /\ some \subseteq Formulas /\ rest \subseteq Formulas
      /\ e.sat \in Seq(SUBSET Formulas) /\ Len(e.sat) > 0
  BY <1>3 DEF Fits
<1>5. s \in Seq(SUBSET Formulas) /\ Len(s) = Len(e.sat)
  BY <1>4, AddToTopFacts
<1>6. Incremental \/ ~e.d_queryMade => Content(s, e.d_assertionList, rest, e.d_userLevels, st)
  <2>1. Incremental \/ ~e.d_queryMade =>
          Content(e.sat, e.d_assertionList, e.d_assertions, e.d_userLevels, st)
    BY <1>1, GoodDone
  <2>2. QED
    BY <1>3, <2>1, ContentProcess
<1>7. d = [e EXCEPT !.asserts = yes, !.sat = s, !.d_assertions = rest]
  BY DEF Given
<1> HIDE DEF s, yes, d
<1>8. d \in EngineStates
  BY <1>1, <1>2, <1>4, <1>5, <1>7 DEF EngineStates
<1>9. /\ d.sat = s /\ d.d_assertions = rest /\ d.asserts
      /\ d.d_assertionList = e.d_assertionList /\ d.d_pendingPops = 0 /\ SameRest(d, e)
  BY <1>1, <1>2, <1>7 DEF EngineStates, SameRest
<1>10. Fits(s, e.d_assertionList, rest, e.d_userLevels, st)
  BY <1>3, <1>4, <1>5 DEF Fits
<1>11. Good(d, st)
  <2>1. /\ ~Incremental => e.d_userLevels = << >>
        /\ Faults = {} => e.presolved = e.d_needPostsolve
    BY DEF Good
  <2>2. QED
    BY <1>6, <1>8, <1>9, <1>10, <2>1, GoodDone DEF SameRest
<1>12. QED
  BY <1>8, <1>9, <1>11 DEF s, d

\* processAssertions gives all of them.
LEMMA ProcessGood ==
  ASSUME NEW e, NEW st, Good(e, st), e.d_pendingPops = 0
  PROVE  LET d == processAssertions(e) IN
         /\ Good(d, st) /\ d \in EngineStates /\ d.d_pendingPops = 0 /\ SameRest(d, e)
         /\ d.sat = AddToTop(e.sat, e.d_assertions) /\ d.d_assertionList = e.d_assertionList
         /\ d.d_assertions = {}
<1>1. e.d_assertions \cup {} = e.d_assertions
  OBVIOUS
<1>2. processAssertions(e) = Given(e, e.d_assertions, {})
  BY DEF processAssertions, Given
<1>3. QED
  BY <1>1, <1>2, GivenGood

\* An exception may come after some of them.
LEMMA ThrowsGood ==
  ASSUME NEW e, NEW st, Good(e, st), e.d_pendingPops = 0, NEW some \in SUBSET e.d_assertions
  PROVE  Good(Throws(e, some), st)
<1>1. some \cup e.d_assertions = e.d_assertions
  OBVIOUS
<1> DEFINE yes == e.asserts /\ e.d_pendingPops = 0
           s == AddToTop(e.sat, some)
<1>2. e \in EngineStates
  BY DEF Good
<1>3. [e EXCEPT !.asserts = yes, !.sat = s] =
        [e EXCEPT !.asserts = yes, !.sat = s, !.d_assertions = e.d_assertions]
  <2> HIDE DEF yes, s
  <2>1. QED
    BY <1>2 DEF EngineStates
<1>4. Throws(e, some) = Given(e, some, e.d_assertions)
  BY <1>3 DEF Throws, Given
<1>5. QED
  BY <1>1, <1>4, GivenGood

\* postsolve
LEMMA PostsolveGood ==
  ASSUME NEW e, NEW st, Good(e, st)
  PROVE  LET d == postsolve(e) IN
         /\ Good(d, st) /\ d \in EngineStates /\ d.d_pendingPops = e.d_pendingPops
         /\ d.sat = e.sat /\ d.d_assertionList = e.d_assertionList
         /\ d.d_assertions = e.d_assertions /\ d.d_userLevels = e.d_userLevels
         /\ d.d_queryMade = e.d_queryMade
<1>1. e \in EngineStates
  BY DEF Good
<1>2. CASE ~e.d_needPostsolve
  BY <1>1, <1>2 DEF postsolve
<1>3. CASE e.d_needPostsolve
  <2> DEFINE d == [e EXCEPT !.d_needPostsolve = FALSE, !.presolved = FALSE]
  <2>1. postsolve(e) = d
    BY <1>3 DEF postsolve
  <2>2. d \in EngineStates
    BY <1>1 DEF EngineStates
  <2>3. /\ d.d_pendingPops = e.d_pendingPops /\ d.sat = e.sat
        /\ d.d_assertionList = e.d_assertionList /\ d.d_assertions = e.d_assertions
        /\ d.d_userLevels = e.d_userLevels /\ d.d_queryMade = e.d_queryMade
        /\ d.asserts = e.asserts /\ d.presolved = FALSE /\ d.d_needPostsolve = FALSE
    BY <1>1 DEF EngineStates
  <2> HIDE DEF d
  <2>4. Good(d, st)
    BY <2>2, <2>3 DEF Good, KeptOf
  <2>5. QED
    BY <2>1, <2>2, <2>3, <2>4
<1>4. QED
  BY <1>2, <1>3

\* addFormula, on behalf of the user.
LEMMA AddGood ==
  ASSUME NEW e, NEW st, Good(e, st), e.d_pendingPops = 0, NEW f \in Formulas
  PROVE  Good(addFormula(e, f), AddToTop(st, {f}))
<1> DEFINE w == e.d_assertions \cup {f}
           l == AddToTop(e.d_assertionList, {f})
           st1 == AddToTop(st, {f})
           d == [e EXCEPT !.d_assertions = w, !.d_assertionList = l]
<1>1. e \in EngineStates
  BY DEF Good
<1>2. Fits(e.sat, e.d_assertionList, e.d_assertions, e.d_userLevels, st)
  BY <1>1, GoodDone
<1>3. /\ {f} \subseteq Formulas /\ e.d_assertionList \in Seq(SUBSET Formulas)
      /\ st \in Seq(SUBSET Formulas) /\ Len(e.d_assertionList) > 0
  BY <1>2 DEF Fits
<1>4. Len(st) > 0
  BY <1>2, FitsFacts
<1>5. /\ l \in Seq(SUBSET Formulas) /\ Len(l) = Len(e.d_assertionList)
      /\ st1 \in Seq(SUBSET Formulas) /\ Len(st1) = Len(st)
  BY <1>3, <1>4, AddToTopFacts
<1>6. w \subseteq Formulas
  BY <1>2 DEF Fits
<1>7. Incremental \/ ~e.d_queryMade => Content(e.sat, l, w, e.d_userLevels, st1)
  <2>1. Incremental \/ ~e.d_queryMade =>
          Content(e.sat, e.d_assertionList, e.d_assertions, e.d_userLevels, st)
    BY <1>1, GoodDone
  <2>2. QED
    BY <1>2, <2>1, ContentAssert
<1>8. addFormula(e, f) = d
  BY DEF addFormula
<1> HIDE DEF w, l, st1
<1>9. d \in EngineStates
  BY <1>1, <1>5, <1>6 DEF EngineStates
<1>10. /\ d.d_assertions = w /\ d.d_assertionList = l /\ d.sat = e.sat
       /\ d.d_pendingPops = 0 /\ d.asserts = e.asserts /\ SameRest(d, e)
  BY <1>1 DEF EngineStates, SameRest
<1> HIDE DEF d
<1>11. Fits(e.sat, l, w, e.d_userLevels, st1)
  BY <1>2, <1>5, <1>6 DEF Fits, Shape
<1>12. /\ ~Incremental => e.d_userLevels = << >>
       /\ Faults = {} => e.presolved = e.d_needPostsolve
       /\ e.asserts
  BY DEF Good
<1>13. Good(d, st1)
  BY <1>7, <1>9, <1>10, <1>11, <1>12, GoodDone DEF SameRest
<1>14. QED
  BY <1>8, <1>13 DEF st1

-----------------------------------------------------------------------------
(* Levels that checks and the user open. *)

\* Nothing added to the top.
LEMMA AddNothing ==
  ASSUME NEW s \in Seq(SUBSET Formulas), Len(s) > 0
  PROVE  AddToTop(s, {}) = s
<1>1. {} \subseteq Formulas /\ Len(s) \in Nat
  BY LenProperties
<1>2. /\ AddToTop(s, {}) \in Seq(SUBSET Formulas) /\ Len(AddToTop(s, {})) = Len(s)
      /\ AddToTop(s, {})[Len(s)] = s[Len(s)] \cup {}
      /\ \A i \in 1..(Len(s) - 1) : AddToTop(s, {})[i] = s[i]
  BY <1>1, AddToTopFacts
<1>3. s[Len(s)] \cup {} = s[Len(s)]
  OBVIOUS
<1>4. ASSUME NEW i \in 1..Len(s) PROVE AddToTop(s, {})[i] = s[i]
  <2>1. i = Len(s) \/ i \in 1..(Len(s) - 1)
    BY <1>1
  <2>2. QED
    BY <1>2, <1>3, <2>1
<1>5. QED
  BY <1>2, <1>4, SeqEqual

\* Formulas added to a new level.
LEMMA AddToAppend ==
  ASSUME NEW s \in Seq(SUBSET Formulas), NEW X, X \subseteq Formulas
  PROVE  AddToTop(Append(s, {}), X) = Append(s, X)
<1> DEFINE t == Append(s, {})
<1>1. Len(s) \in Nat /\ {} \in SUBSET Formulas /\ X \in SUBSET Formulas
  BY LenProperties
<1>2. /\ t \in Seq(SUBSET Formulas) /\ Len(t) = Len(s) + 1 /\ t[Len(s) + 1] = {}
      /\ \A i \in 1..Len(s) : t[i] = s[i]
  BY <1>1, AppendProperties
<1>3. /\ Append(s, X) \in Seq(SUBSET Formulas) /\ Len(Append(s, X)) = Len(s) + 1
      /\ Append(s, X)[Len(s) + 1] = X /\ \A i \in 1..Len(s) : Append(s, X)[i] = s[i]
  BY <1>1, AppendProperties
<1> HIDE DEF t
<1>4. Len(t) > 0 /\ Len(t) - 1 = Len(s)
  BY <1>1, <1>2
<1>5. /\ AddToTop(t, X) \in Seq(SUBSET Formulas) /\ Len(AddToTop(t, X)) = Len(s) + 1
      /\ AddToTop(t, X)[Len(t)] = t[Len(t)] \cup X
      /\ \A i \in 1..(Len(t) - 1) : AddToTop(t, X)[i] = t[i]
  <2>1. t \in Seq(SUBSET Formulas) /\ Len(t) > 0
    BY <1>2, <1>4
  <2>2. /\ AddToTop(t, X) \in Seq(SUBSET Formulas) /\ Len(AddToTop(t, X)) = Len(t)
        /\ AddToTop(t, X)[Len(t)] = t[Len(t)] \cup X
        /\ \A i \in 1..(Len(t) - 1) : AddToTop(t, X)[i] = t[i]
    BY <2>1, AddToTopFacts
  <2>3. QED
    BY <1>2, <2>2
<1>6. AddToTop(t, X)[Len(s) + 1] = X
  BY <1>2, <1>5
<1>7. ASSUME NEW i \in 1..(Len(s) + 1) PROVE AddToTop(t, X)[i] = Append(s, X)[i]
  <2>1. i = Len(s) + 1 \/ i \in 1..Len(s)
    BY <1>1
  <2>2. QED
    BY <1>2, <1>3, <1>4, <1>5, <1>6, <2>1
<1>8. AddToTop(t, X) = Append(s, X)
  BY <1>3, <1>5, <1>7, SeqEqual
<1>9. QED
  BY <1>8 DEF t

\* processAssertions and internalPush, field by field.
LEMMA ProcessFacts ==
  ASSUME NEW e \in EngineStates, e.d_pendingPops = 0, e.asserts, Len(e.sat) > 0
  PROVE  LET d == processAssertions(e) IN
         /\ d \in EngineStates /\ d.d_pendingPops = 0 /\ d.asserts /\ SameRest(d, e)
         /\ d.sat = AddToTop(e.sat, e.d_assertions) /\ d.d_assertionList = e.d_assertionList
         /\ d.d_assertions = {}
<1> DEFINE yes == e.asserts /\ e.d_pendingPops = 0
           s == AddToTop(e.sat, e.d_assertions)
           d == [e EXCEPT !.asserts = yes, !.sat = s, !.d_assertions = {}]
<1>1. yes = TRUE
  BY DEF EngineStates
<1>2. s \in Seq(SUBSET Formulas)
  BY AddToTopFacts DEF EngineStates
<1>3. processAssertions(e) = d
  BY DEF processAssertions
<1> HIDE DEF yes, s
<1>4. d \in EngineStates
  BY <1>1, <1>2 DEF EngineStates
<1>5. /\ d.d_pendingPops = 0 /\ d.asserts /\ SameRest(d, e) /\ d.sat = s
      /\ d.d_assertionList = e.d_assertionList /\ d.d_assertions = {}
  BY <1>1 DEF EngineStates, SameRest
<1> HIDE DEF d
<1>6. QED
  BY <1>3, <1>4, <1>5 DEF s

\* doPendingPops does nothing if no pop is pending.
LEMMA NothingPending ==
  ASSUME NEW e \in EngineStates, e.d_pendingPops = 0
  PROVE  doPendingPops(e) = e
<1>1. e.sat \in Seq(SUBSET Formulas) /\ e.d_assertionList \in Seq(SUBSET Formulas)
  BY DEF EngineStates
<1>2. Len(e.sat) - e.d_pendingPops = Len(e.sat) /\
      Len(e.d_assertionList) - e.d_pendingPops = Len(e.d_assertionList)
  BY <1>1, LenProperties
<1>3. /\ Prefix(e.sat, Len(e.sat) - e.d_pendingPops) = e.sat
      /\ Prefix(e.d_assertionList, Len(e.d_assertionList) - e.d_pendingPops) = e.d_assertionList
  BY <1>1, <1>2, PrefixAll
<1>4. doPendingPops(e) = [e EXCEPT !.sat = e.sat, !.d_assertionList = e.d_assertionList,
                                   !.d_pendingPops = 0]
  BY <1>3 DEF doPendingPops
<1>5. QED
  BY <1>4 DEF EngineStates

\* What internalPush does.
LEMMA InternalPushFacts ==
  ASSUME Incremental, NEW e \in EngineStates, e.d_pendingPops = 0, e.asserts, Len(e.sat) > 0
  PROVE  LET d == internalPush(e) IN
         /\ d \in EngineStates /\ d.d_pendingPops = 0 /\ d.asserts /\ SameRest(d, e)
         /\ d.sat = Append(AddToTop(e.sat, e.d_assertions), {})
         /\ d.d_assertionList = Append(e.d_assertionList, {})
         /\ d.d_assertions = {}
<1> DEFINE b == processAssertions(e)
           s == Append(b.sat, {})
           l == Append(b.d_assertionList, {})
           d == [b EXCEPT !.sat = s, !.d_assertionList = l]
<1>1. /\ b \in EngineStates /\ b.d_pendingPops = 0 /\ b.asserts /\ SameRest(b, e)
      /\ b.sat = AddToTop(e.sat, e.d_assertions) /\ b.d_assertionList = e.d_assertionList
      /\ b.d_assertions = {}
  BY ProcessFacts
<1>2. internalPush(e) = d
  BY NothingPending DEF internalPush
<1>3. s \in Seq(SUBSET Formulas) /\ l \in Seq(SUBSET Formulas)
  <2>1. /\ {} \in SUBSET Formulas /\ b.sat \in Seq(SUBSET Formulas)
        /\ b.d_assertionList \in Seq(SUBSET Formulas)
    BY <1>1 DEF EngineStates
  <2> HIDE DEF b
  <2>2. QED
    BY <2>1, AppendProperties
<1> HIDE DEF b, s, l
<1>4. d \in EngineStates
  BY <1>1, <1>3 DEF EngineStates
<1>5. /\ d.sat = s /\ d.d_assertionList = l /\ d.d_assertions = b.d_assertions
      /\ d.d_pendingPops = b.d_pendingPops /\ d.asserts = b.asserts /\ SameRest(d, b)
  BY <1>1 DEF EngineStates, SameRest
<1> HIDE DEF d
<1>6. SameRest(d, e)
  BY <1>1, <1>5 DEF SameRest
<1>7. QED
  BY <1>1, <1>2, <1>4, <1>5, <1>6 DEF s, l

\* What checkSatisfiability does with the result.
LEMMA FinishedFacts ==
  ASSUME NEW e \in EngineStates, NEW result \in {"sat", "unsat", "unknown"}, e.d_pendingPops = 0
  PROVE  LET d == Finished(e, result) IN
         /\ d \in EngineStates /\ d.sat = e.sat /\ d.d_assertionList = e.d_assertionList
         /\ d.d_assertions = e.d_assertions /\ d.d_userLevels = e.d_userLevels
         /\ d.d_queryMade = e.d_queryMade /\ d.presolved = e.presolved
         /\ d.asserts = e.asserts /\ d.d_needPostsolve
         /\ d.d_pendingPops = IF Incremental THEN 1 ELSE 0
<1> DEFINE n == IF Incremental THEN 1 ELSE 0
           d == [e EXCEPT !.d_needPostsolve = TRUE, !.d_pendingPops = n,
                          !.d_status = result, !.d_problemExtended = FALSE]
<1>1. n \in Nat
  OBVIOUS
<1>2. Finished(e, result) = d
  <2> DEFINE x == [e EXCEPT !.d_needPostsolve = TRUE]
  <2>1. x.d_pendingPops = 0
    BY DEF EngineStates
  <2>2. internalPop(x) = [x EXCEPT !.d_pendingPops = n]
    <3>1. (IF Incremental THEN x.d_pendingPops + 1 ELSE 0) = n
      BY <2>1
    <3>2. internalPop(x) = [x EXCEPT !.d_pendingPops = IF Incremental THEN x.d_pendingPops + 1 ELSE 0]
      BY DEF internalPop
    <3> HIDE DEF x, n
    <3>3. QED
      BY <3>1, <3>2
  <2> HIDE DEF n
  <2>3. [[x EXCEPT !.d_pendingPops = n] EXCEPT !.d_status = result, !.d_problemExtended = FALSE] = d
    BY DEF EngineStates
  <2>4. QED
    BY <2>2, <2>3 DEF Finished
<1> HIDE DEF n
<1>3. d \in EngineStates
  BY <1>1 DEF EngineStates
<1>4. /\ d.sat = e.sat /\ d.d_assertionList = e.d_assertionList
      /\ d.d_assertions = e.d_assertions /\ d.d_userLevels = e.d_userLevels
      /\ d.d_queryMade = e.d_queryMade /\ d.presolved = e.presolved
      /\ d.asserts = e.asserts /\ d.d_needPostsolve /\ d.d_pendingPops = n
  BY DEF EngineStates
<1> HIDE DEF d
<1>5. QED
  BY <1>2, <1>3, <1>4 DEF n

\* The level of a check goes with the pop that is pending.
LEMMA CheckedGood ==
  ASSUME Incremental, NEW b, NEW st, Good(b, st), b.d_pendingPops = 0, b.d_assertions = {},
         NEW X, X \subseteq Formulas, NEW Y, Y \subseteq Formulas,
         NEW d \in EngineStates, d.sat = Append(b.sat, X),
         d.d_assertionList = Append(b.d_assertionList, Y), d.d_pendingPops = 1,
         d.d_assertions = {}, d.d_userLevels = b.d_userLevels, d.asserts,
         Faults = {} => d.presolved = d.d_needPostsolve
  PROVE  Good(d, st)
<1>1. /\ b \in EngineStates
      /\ Fits(b.sat, b.d_assertionList, {}, b.d_userLevels, st)
      /\ Content(b.sat, b.d_assertionList, {}, b.d_userLevels, st)
  <2>1. b \in EngineStates
    BY DEF Good
  <2>2. QED
    BY <2>1, GoodDone
<1>2. /\ b.sat \in Seq(SUBSET Formulas) /\ b.d_assertionList \in Seq(SUBSET Formulas)
      /\ Len(b.sat) = Len(b.d_assertionList) /\ Len(b.d_assertionList) > 0
      /\ Len(b.sat) \in Nat
  BY <1>1, FitsFacts DEF Fits
<1>3. X \in SUBSET Formulas /\ Y \in SUBSET Formulas
  OBVIOUS
<1>4. Len(d.sat) = Len(b.sat) + 1 /\ Len(d.d_assertionList) = Len(b.d_assertionList) + 1
  BY <1>2, <1>3, AppendProperties
<1>5. Len(d.sat) - 1 = Len(b.sat) /\ Len(d.d_assertionList) - 1 = Len(b.d_assertionList)
  BY <1>2, <1>4
<1>6. KeptOf(d.sat, d) = b.sat
  <2>1. Len(b.sat) \in 0..Len(b.sat)
    BY <1>2
  <2>2. Prefix(Append(b.sat, X), Len(b.sat)) = b.sat
    BY <1>2, <1>3, <2>1, PrefixAppend, PrefixAll
  <2>3. QED
    BY <1>5, <2>2 DEF KeptOf
<1>7. KeptOf(d.d_assertionList, d) = b.d_assertionList
  <2>1. Len(b.d_assertionList) \in 0..Len(b.d_assertionList)
    BY <1>2
  <2>2. Prefix(Append(b.d_assertionList, Y), Len(b.d_assertionList)) = b.d_assertionList
    BY <1>2, <1>3, <2>1, PrefixAppend, PrefixAll
  <2>3. QED
    BY <1>5, <2>2 DEF KeptOf
<1>8. Len(d.sat) = Len(d.d_assertionList) /\ d.d_pendingPops < Len(d.d_assertionList)
  BY <1>2, <1>4
<1>9. QED
  BY <1>1, <1>6, <1>7, <1>8 DEF Good

\* Without --incremental there is one level, and nothing is said after the check.
LEMMA OnceGood ==
  ASSUME ~Incremental, NEW e, NEW st, Good(e, st), NEW d \in EngineStates,
         d.d_pendingPops = 0, d.d_queryMade, d.asserts, d.d_userLevels = e.d_userLevels,
         Len(d.sat) = Len(e.sat), Len(d.d_assertionList) = Len(e.d_assertionList),
         Faults = {} => d.presolved = d.d_needPostsolve
  PROVE  Good(d, st)
<1>1. e \in EngineStates /\ e.d_pendingPops = 0 /\ e.d_userLevels = << >>
  BY DEF Good
<1>2. Fits(e.sat, e.d_assertionList, e.d_assertions, e.d_userLevels, st)
  BY <1>1, GoodDone
<1>3. Fits(d.sat, d.d_assertionList, d.d_assertions, d.d_userLevels, st)
  BY <1>1, <1>2 DEF Fits, EngineStates
<1>4. QED
  BY <1>1, <1>3, GoodDone

\* The loop of pop() ends at the level of the user.
LEMMA PopToUserLevelFacts ==
  ASSUME Incremental, NEW e \in EngineStates, NEW n \in Nat, n = Top(e.d_userLevels),
         Len(e.sat) = Len(e.d_assertionList), n + e.d_pendingPops < Len(e.d_assertionList)
  PROVE  LET d == PopToUserLevel(e) IN
         /\ d \in EngineStates /\ d.sat = Prefix(e.sat, n)
         /\ d.d_assertionList = Prefix(e.d_assertionList, n)
         /\ d.d_pendingPops = 0 /\ d.asserts = e.asserts /\ SameRest(d, e)
<1> DEFINE p == e.d_pendingPops + 1
           k == Len(e.d_assertionList) - p
           y == [e EXCEPT !.d_pendingPops = p]
           s == Prefix(e.sat, k)
           l == Prefix(e.d_assertionList, k)
           e1 == [e EXCEPT !.sat = s, !.d_assertionList = l, !.d_pendingPops = 0]
           m == [e EXCEPT !.sat = Prefix(e.sat, n), !.d_assertionList = Prefix(e.d_assertionList, n),
                          !.d_pendingPops = 0]
<1>1. /\ e.sat \in Seq(SUBSET Formulas) /\ e.d_assertionList \in Seq(SUBSET Formulas)
      /\ e.d_pendingPops \in Nat /\ Len(e.sat) \in Nat
  BY LenProperties DEF EngineStates
<1>2. /\ k \in 0..Len(e.sat) /\ k \in 0..Len(e.d_assertionList)
      /\ n \in 0..k /\ n \in 0..Len(e.sat) /\ p \in Nat
  BY <1>1
<1>3. doPendingPops(internalPop(e)) = e1
  <2>1. internalPop(e) = y
    BY DEF internalPop
  <2> HIDE DEF p
  <2>2. y.sat = e.sat /\ y.d_assertionList = e.d_assertionList /\ y.d_pendingPops = p
    BY DEF EngineStates
  <2>3. doPendingPops(y) = [y EXCEPT !.sat = s, !.d_assertionList = l, !.d_pendingPops = 0]
    BY <2>2 DEF doPendingPops
  <2> HIDE DEF s, l
  <2>4. [y EXCEPT !.sat = s, !.d_assertionList = l, !.d_pendingPops = 0] = e1
    BY DEF EngineStates
  <2>5. QED
    BY <2>1, <2>3, <2>4
<1> HIDE DEF p, y
<1>4. s \in Seq(SUBSET Formulas) /\ l \in Seq(SUBSET Formulas) /\ Len(s) = k /\ Len(l) = k
  <2> HIDE DEF k
  <2>1. QED
    BY <1>1, <1>2, PrefixFacts
<1>5. Prefix(s, n) = Prefix(e.sat, n) /\ Prefix(l, n) = Prefix(e.d_assertionList, n)
  <2> HIDE DEF k
  <2>1. QED
    BY <1>1, <1>2, PrefixPrefix
<1>6. PopToUserLevel(e) = m
  <2>1. e1.sat = s /\ e1.d_assertionList = l
    <3> HIDE DEF s, l
    <3>1. QED
      BY DEF EngineStates
  <2>2. getLevel(e1) = k
    <3> HIDE DEF e1, l, k
    <3>1. QED
      BY <1>4, <2>1 DEF getLevel
  <2>3. CASE n >= k
    <3>1. n = k
      <4> HIDE DEF k
      <4>1. QED
        BY <1>1, <1>2, <2>3
    <3>2. e1 = m
      BY <3>1
    <3>3. PopToUserLevel(e) = e1
      <4> HIDE DEF e1, k
      <4>1. QED
        BY <1>3, <2>2, <2>3 DEF PopToUserLevel
    <3>4. QED
      BY <3>2, <3>3
  <2>4. CASE ~(n >= k)
    <3>1. PopToUserLevel(e) = [e1 EXCEPT !.sat = Prefix(s, n), !.d_assertionList = Prefix(l, n)]
      <4> HIDE DEF e1, k, s, l
      <4>1. QED
        BY <1>3, <2>1, <2>2, <2>4 DEF PopToUserLevel
    <3>2. PopToUserLevel(e) = [e1 EXCEPT !.sat = Prefix(e.sat, n),
                                         !.d_assertionList = Prefix(e.d_assertionList, n)]
      BY <1>5, <3>1
    <3>3. QED
      <4> HIDE DEF s, l
      <4>1. QED
        BY <3>2 DEF EngineStates
  <2>5. QED
    BY <2>3, <2>4
<1>7. Prefix(e.sat, n) \in Seq(SUBSET Formulas) /\ Prefix(e.d_assertionList, n) \in Seq(SUBSET Formulas)
  BY <1>1, <1>2, PrefixFacts
<1>8. m \in EngineStates
  BY <1>7 DEF EngineStates
<1>9. /\ m.sat = Prefix(e.sat, n) /\ m.d_assertionList = Prefix(e.d_assertionList, n)
      /\ m.d_pendingPops = 0 /\ m.asserts = e.asserts /\ SameRest(m, e)
  BY DEF EngineStates, SameRest
<1> HIDE DEF m
<1>10. QED
  BY <1>6, <1>8, <1>9

\* pop
LEMMA PopGood ==
  ASSUME Incremental, NEW e, NEW st, Good(e, st), e.d_userLevels # << >>
  PROVE  Good(Popped(e), Prefix(st, Len(st) - 1))
<1> DEFINE L == e.d_userLevels
           n == L[Len(L)]
           x == [postsolve(e) EXCEPT !.d_problemExtended = TRUE]
           z == PopToUserLevel(x)
           st1 == Prefix(st, Len(st) - 1)
<1>1. /\ e \in EngineStates /\ e.asserts /\ Len(e.sat) = Len(e.d_assertionList)
      /\ e.d_pendingPops < Len(e.d_assertionList)
      /\ Fits(KeptOf(e.sat, e), KeptOf(e.d_assertionList, e), e.d_assertions, L, st)
      /\ Content(KeptOf(e.sat, e), KeptOf(e.d_assertionList, e), e.d_assertions, L, st)
  BY DEF Good
<1>2. /\ e.sat \in Seq(SUBSET Formulas) /\ e.d_assertionList \in Seq(SUBSET Formulas)
      /\ L \in Seq(Nat) /\ e.d_pendingPops \in Nat /\ Len(e.d_assertionList) \in Nat
      /\ Len(e.sat) \in Nat
  BY <1>1, LenProperties DEF EngineStates
<1> DEFINE k == Len(e.d_assertionList) - e.d_pendingPops
<1>3. k \in 0..Len(e.sat) /\ k \in 0..Len(e.d_assertionList)
  BY <1>1, <1>2
<1>4. KeptOf(e.sat, e) = Prefix(e.sat, k) /\ KeptOf(e.d_assertionList, e) = Prefix(e.d_assertionList, k)
  BY <1>1 DEF KeptOf
<1>5. Len(KeptOf(e.d_assertionList, e)) = k
  <2> HIDE DEF k
  <2>1. QED
    BY <1>2, <1>3, <1>4, PrefixFacts
<1>6. Len(L) \in Nat /\ Len(L) > 0
  BY <1>2, EmptySeq, LenProperties
<1>7. n \in Nat /\ n >= 1 /\ n < k
  <2>1. Len(L) \in 1..Len(L)
    BY <1>6
  <2>2. n \in 0..k /\ n < k /\ n >= 1
    <3> HIDE DEF k
    <3>1. QED
      BY <1>1, <1>5, <2>1, FitsFacts
  <2>3. QED
    BY <2>2
<1>8. n + e.d_pendingPops < Len(e.d_assertionList)
  BY <1>2, <1>7
<1>9. n \in 0..k
  BY <1>2, <1>7
<1> HIDE DEF n, k
<1>10. /\ Prefix(KeptOf(e.sat, e), n) = Prefix(e.sat, n)
       /\ Prefix(KeptOf(e.d_assertionList, e), n) = Prefix(e.d_assertionList, n)
  BY <1>2, <1>3, <1>4, <1>9, PrefixPrefix
<1>11. /\ Fits(Prefix(e.sat, n), Prefix(e.d_assertionList, n), {}, Prefix(L, Len(L) - 1), st1)
       /\ Content(Prefix(e.sat, n), Prefix(e.d_assertionList, n), {}, Prefix(L, Len(L) - 1), st1)
  BY <1>1, <1>6, <1>10, ContentPop DEF n
<1>12. /\ x \in EngineStates /\ x.sat = e.sat /\ x.d_assertionList = e.d_assertionList
       /\ x.d_userLevels = L /\ x.d_pendingPops = e.d_pendingPops /\ x.asserts
       /\ Faults = {} => x.presolved = x.d_needPostsolve
  <2> DEFINE v == postsolve(e)
  <2>1. /\ v \in EngineStates /\ v.sat = e.sat /\ v.d_assertionList = e.d_assertionList
        /\ v.d_userLevels = L /\ v.d_pendingPops = e.d_pendingPops /\ Good(v, st)
    BY PostsolveGood
  <2>2. v.asserts /\ (Faults = {} => v.presolved = v.d_needPostsolve)
    BY <2>1 DEF Good
  <2> HIDE DEF v
  <2>3. [v EXCEPT !.d_problemExtended = TRUE] \in EngineStates
    BY <2>1 DEF EngineStates
  <2> DEFINE u == [v EXCEPT !.d_problemExtended = TRUE]
  <2>4. /\ u.sat = v.sat /\ u.d_assertionList = v.d_assertionList
        /\ u.d_userLevels = v.d_userLevels /\ u.d_pendingPops = v.d_pendingPops
        /\ u.asserts = v.asserts /\ u.presolved = v.presolved
        /\ u.d_needPostsolve = v.d_needPostsolve
    BY <2>1 DEF EngineStates
  <2>5. x = u
    BY DEF v
  <2> HIDE DEF u, x
  <2>6. QED
    BY <2>1, <2>2, <2>3, <2>4, <2>5 DEF u
<1> HIDE DEF x
<1>13. /\ z \in EngineStates /\ z.sat = Prefix(e.sat, n)
       /\ z.d_assertionList = Prefix(e.d_assertionList, n)
       /\ z.d_pendingPops = 0 /\ z.asserts /\ SameRest(z, x)
  BY <1>1, <1>7, <1>8, <1>12, PopToUserLevelFacts DEF Top, n
<1> HIDE DEF z
<1> DEFINE yes == z.asserts /\ n < getLevel(e)
           M == Prefix(L, Len(L) - 1)
           d == [z EXCEPT !.d_assertions = {}, !.d_userLevels = M, !.asserts = yes]
<1>14. yes = TRUE
  <2>1. n < Len(e.d_assertionList)
    BY <1>2, <1>7, <1>8
  <2>2. z.asserts = TRUE
    BY <1>13 DEF EngineStates
  <2>3. QED
    BY <2>1, <2>2 DEF getLevel
<1>15. z.d_userLevels = L
  BY <1>12, <1>13 DEF SameRest
<1>16. Popped(e) = d
  <2> DEFINE w == [z EXCEPT !.d_assertions = {}]
  <2>1. notifyPop(PopToUserLevel([postsolve(e) EXCEPT !.d_problemExtended = TRUE])) = w
    BY DEF notifyPop, z, x
  <2>2. w.d_userLevels = L /\ w.asserts = z.asserts
    BY <1>13, <1>15 DEF EngineStates
  <2> HIDE DEF w
  <2>3. Popped(e) = [w EXCEPT !.d_userLevels = M, !.asserts = yes]
    BY <2>1, <2>2 DEF Popped, Top, n
  <2>4. [w EXCEPT !.d_userLevels = M, !.asserts = yes] = d
    <3> HIDE DEF M, yes
    <3>1. QED
      BY <1>13 DEF EngineStates, w
  <2>5. QED
    BY <2>3, <2>4
<1>17. M \in Seq(Nat)
  BY <1>11 DEF Fits
<1> HIDE DEF yes, M
<1>18. d \in EngineStates
  BY <1>13, <1>14, <1>17 DEF EngineStates
<1>19. /\ d.sat = z.sat /\ d.d_assertionList = z.d_assertionList /\ d.d_assertions = {}
       /\ d.d_userLevels = M /\ d.asserts /\ d.d_pendingPops = 0
       /\ d.presolved = z.presolved /\ d.d_needPostsolve = z.d_needPostsolve
  BY <1>13, <1>14 DEF EngineStates
<1> HIDE DEF d
<1>20. Good(d, st1)
  BY <1>11, <1>12, <1>13, <1>18, <1>19, GoodDone DEF SameRest, M
<1>21. QED
  BY <1>16, <1>20

\* push
LEMMA PushGood ==
  ASSUME Incremental, NEW e, NEW st, Good(e, st), e.d_pendingPops = 0, e.d_assertions = {}
  PROVE  Good(internalPush([e EXCEPT !.d_problemExtended = TRUE,
                                     !.d_userLevels = Append(@, getLevel(e))]), Append(st, {}))
<1> DEFINE M == Append(e.d_userLevels, getLevel(e))
           x == [e EXCEPT !.d_problemExtended = TRUE, !.d_userLevels = M]
           d == internalPush(x)
<1>1. /\ e \in EngineStates /\ e.asserts
      /\ Faults = {} => e.presolved = e.d_needPostsolve
  BY DEF Good
<1>2. /\ Fits(e.sat, e.d_assertionList, {}, e.d_userLevels, st)
      /\ Content(e.sat, e.d_assertionList, {}, e.d_userLevels, st)
  BY <1>1, GoodDone
<1>3. /\ Fits(Append(e.sat, {}), Append(e.d_assertionList, {}), {}, M, Append(st, {}))
      /\ Content(Append(e.sat, {}), Append(e.d_assertionList, {}), {}, M, Append(st, {}))
  BY <1>2, ContentPush DEF getLevel
<1>4. M \in Seq(Nat)
  BY <1>3 DEF Fits
<1> HIDE DEF M
<1>5. x \in EngineStates
  BY <1>1, <1>4 DEF EngineStates
<1>6. /\ x.sat = e.sat /\ x.d_assertionList = e.d_assertionList /\ x.d_assertions = {}
      /\ x.d_userLevels = M /\ x.asserts = e.asserts /\ x.d_pendingPops = 0
      /\ x.presolved = e.presolved /\ x.d_needPostsolve = e.d_needPostsolve
  BY <1>1 DEF EngineStates
<1> HIDE DEF x
<1>7. x.sat \in Seq(SUBSET Formulas) /\ Len(x.sat) > 0
  BY <1>2, <1>6 DEF Fits
<1>8. /\ d \in EngineStates /\ d.d_pendingPops = 0 /\ d.asserts /\ SameRest(d, x)
      /\ d.sat = Append(AddToTop(x.sat, {}), {})
      /\ d.d_assertionList = Append(x.d_assertionList, {})
      /\ d.d_assertions = {}
  BY <1>1, <1>5, <1>6, <1>7, InternalPushFacts
<1>9. d.sat = Append(e.sat, {})
  BY <1>6, <1>7, <1>8, AddNothing
<1> HIDE DEF d
<1>10. Good(d, Append(st, {}))
  BY <1>1, <1>3, <1>6, <1>8, <1>9, GoodDone DEF SameRest
<1>11. QED
  BY <1>10 DEF d, x, M

-----------------------------------------------------------------------------
(* Checks. *)

\* checkSatisfiability, before the level of the check is opened; with the queue
\* processed; and what the check is about besides the assertions.
Ready == postsolve(doPendingPops(smt))
Base == processAssertions(Ready)
Asks(q) == {q} \ {NoFormula}

\* The engine is good after the pending pops.
LEMMA ReadyGood ==
  ASSUME Good(smt, stack)
  PROVE  /\ Good(Ready, stack) /\ Ready \in EngineStates /\ Ready.d_pendingPops = 0
         /\ Ready.asserts /\ Ready.d_queryMade = smt.d_queryMade
         /\ Ready.d_userLevels = smt.d_userLevels
         /\ Ready.sat \in Seq(SUBSET Formulas) /\ Len(Ready.sat) > 0
         /\ Ready.d_assertionList \in Seq(SUBSET Formulas) /\ Len(Ready.d_assertionList) > 0
         /\ Ready.d_assertions \subseteq Formulas
<1> DEFINE d == doPendingPops(smt)
<1>1. Good(d, stack) /\ d.d_pendingPops = 0 /\ SameRest(d, smt)
  BY PopsGood
<1> HIDE DEF d
<1>2. /\ Good(postsolve(d), stack) /\ postsolve(d) \in EngineStates
      /\ postsolve(d).d_pendingPops = 0
      /\ postsolve(d).d_queryMade = d.d_queryMade /\ postsolve(d).d_userLevels = d.d_userLevels
  BY <1>1, PostsolveGood
<1>3. Ready = postsolve(d)
  BY DEF Ready, d
<1>4. /\ Good(Ready, stack) /\ Ready \in EngineStates /\ Ready.d_pendingPops = 0
      /\ Ready.d_queryMade = smt.d_queryMade /\ Ready.d_userLevels = smt.d_userLevels
  BY <1>1, <1>2, <1>3 DEF SameRest
<1>5. Ready.asserts
  BY <1>4 DEF Good
<1>6. Fits(Ready.sat, Ready.d_assertionList, Ready.d_assertions, Ready.d_userLevels, stack)
  BY <1>4, GoodDone
<1>7. QED
  BY <1>4, <1>5, <1>6 DEF Fits

\* So is it after the pending assertions.
LEMMA BaseGood ==
  ASSUME Good(smt, stack)
  PROVE  /\ Good(Base, stack) /\ Base \in EngineStates /\ Base.d_pendingPops = 0
         /\ Base.d_assertions = {} /\ Base.d_userLevels = Ready.d_userLevels
         /\ Base.sat = AddToTop(Ready.sat, Ready.d_assertions)
         /\ Base.d_assertionList = Ready.d_assertionList
         /\ Base.sat \in Seq(SUBSET Formulas) /\ Base.d_assertionList \in Seq(SUBSET Formulas)
<1>1. /\ Good(Base, stack) /\ Base \in EngineStates /\ Base.d_pendingPops = 0
      /\ Base.d_assertions = {} /\ SameRest(Base, Ready)
      /\ Base.sat = AddToTop(Ready.sat, Ready.d_assertions)
      /\ Base.d_assertionList = Ready.d_assertionList
  BY ReadyGood, ProcessGood DEF Base
<1>2. QED
  BY <1>1 DEF SameRest, EngineStates

\* The formula of a check is added to the level of the check, if there is one.
With(e, q) ==
  IF q = NoFormula THEN [e EXCEPT !.d_queryMade = TRUE]
  ELSE [addFormula(e, q) EXCEPT !.d_queryMade = TRUE, !.d_problemExtended = TRUE]

\* What the formula of a query changes.
LEMMA WithFormula ==
  ASSUME QueriesOK, NEW q \in Queries, NEW e \in EngineStates, e.d_pendingPops = 0,
         Len(e.d_assertionList) > 0, e.asserts
  PROVE  LET d == With(e, q) IN
         /\ d \in EngineStates /\ d.d_pendingPops = 0 /\ d.asserts /\ d.d_queryMade
         /\ d.sat = e.sat /\ d.d_userLevels = e.d_userLevels
         /\ d.d_assertionList = AddToTop(e.d_assertionList, Asks(q))
         /\ d.d_assertions = e.d_assertions \cup Asks(q)
<1> DEFINE d == With(e, q)
<1>1. e.d_assertionList \in Seq(SUBSET Formulas) /\ e.d_assertions \subseteq Formulas
  BY DEF EngineStates
<1>2. CASE q = NoFormula
  <2>1. Asks(q) = {}
    BY <1>2 DEF Asks
  <2>2. d = [e EXCEPT !.d_queryMade = TRUE]
    BY <1>2 DEF With
  <2> HIDE DEF d
  <2>3. d \in EngineStates
    BY <2>2 DEF EngineStates
  <2>4. /\ d.d_pendingPops = 0 /\ d.asserts /\ d.d_queryMade /\ d.sat = e.sat
        /\ d.d_userLevels = e.d_userLevels /\ d.d_assertionList = e.d_assertionList
        /\ d.d_assertions = e.d_assertions
    BY <2>2 DEF EngineStates
  <2>5. AddToTop(e.d_assertionList, {}) = e.d_assertionList
    BY <1>1, AddNothing
  <2>6. e.d_assertions \cup {} = e.d_assertions
    OBVIOUS
  <2>7. QED
    BY <2>1, <2>3, <2>4, <2>5, <2>6 DEF d
<1>3. CASE q # NoFormula
  <2>1. q \in Formulas
    BY <1>3 DEF QueriesOK
  <2>2. Asks(q) = {q}
    BY <1>3 DEF Asks
  <2> DEFINE l == AddToTop(e.d_assertionList, {q})
             w == e.d_assertions \cup {q}
             m == [e EXCEPT !.d_assertions = w, !.d_assertionList = l, !.d_queryMade = TRUE,
                            !.d_problemExtended = TRUE]
  <2>3. l \in Seq(SUBSET Formulas) /\ w \subseteq Formulas
    BY <1>1, <2>1, AddToTopFacts
  <2>4. d = m
    <3>1. addFormula(e, q) = [e EXCEPT !.d_assertions = w, !.d_assertionList = l]
      BY DEF addFormula
    <3>2. d = [addFormula(e, q) EXCEPT !.d_queryMade = TRUE, !.d_problemExtended = TRUE]
      BY <1>3 DEF With
    <3> HIDE DEF w, l, d
    <3>3. QED
      BY <3>1, <3>2 DEF EngineStates
  <2> HIDE DEF w, l
  <2>5. m \in EngineStates
    BY <2>3 DEF EngineStates
  <2>6. /\ m.d_pendingPops = 0 /\ m.asserts /\ m.d_queryMade /\ m.sat = e.sat
        /\ m.d_userLevels = e.d_userLevels /\ m.d_assertionList = l /\ m.d_assertions = w
    BY DEF EngineStates
  <2>7. QED
    BY <2>2, <2>4, <2>5, <2>6 DEF w, l
<1>4. QED
  BY <1>2, <1>3

\* In incremental mode the check has a level of its own, above what was asserted.
LEMMA PreparedIncremental ==
  ASSUME QueriesOK, Incremental, Good(smt, stack), NEW q \in Queries
  PROVE  LET d == Prepared(q) IN
         /\ d \in EngineStates /\ d.d_pendingPops = 0 /\ d.asserts /\ d.d_queryMade
         /\ d.sat = Append(Base.sat, {}) /\ d.d_assertionList = Append(Base.d_assertionList, Asks(q))
         /\ d.d_assertions = Asks(q) /\ d.d_userLevels = Base.d_userLevels
         /\ Len(d.sat) > 0 /\ Asks(q) \subseteq Formulas
<1> DEFINE e == internalPush(Ready)
           d == Prepared(q)
<1>1. /\ e \in EngineStates /\ e.d_pendingPops = 0 /\ e.asserts /\ SameRest(e, Ready)
      /\ e.sat = Append(Base.sat, {}) /\ e.d_assertionList = Append(Base.d_assertionList, {})
      /\ e.d_assertions = {}
  BY ReadyGood, BaseGood, InternalPushFacts
<1>2. d = With(e, q)
  BY DEF Prepared, Ready, With
<1> HIDE DEF e, d
<1>3. {} \in SUBSET Formulas /\ Asks(q) \subseteq Formulas
  BY DEF QueriesOK, Asks
<1>4. Len(e.d_assertionList) > 0 /\ Len(e.sat) > 0
  <2>1. /\ Len(e.sat) = Len(Base.sat) + 1
        /\ Len(e.d_assertionList) = Len(Base.d_assertionList) + 1
    BY <1>1, <1>3, BaseGood, AppendProperties
  <2>2. Len(Base.sat) \in Nat /\ Len(Base.d_assertionList) \in Nat
    BY BaseGood, LenProperties
  <2>3. QED
    BY <2>1, <2>2
<1>5. /\ d \in EngineStates /\ d.d_pendingPops = 0 /\ d.asserts /\ d.d_queryMade
      /\ d.sat = e.sat /\ d.d_userLevels = e.d_userLevels
      /\ d.d_assertionList = AddToTop(e.d_assertionList, Asks(q))
      /\ d.d_assertions = e.d_assertions \cup Asks(q)
  BY <1>1, <1>2, <1>4, WithFormula
<1>6. d.d_assertionList = Append(Base.d_assertionList, Asks(q))
  BY <1>1, <1>3, <1>5, BaseGood, AddToAppend
<1>7. d.d_assertions = Asks(q)
  BY <1>1, <1>5
<1>8. d.d_userLevels = Base.d_userLevels
  BY <1>1, <1>5, BaseGood DEF SameRest
<1>9. QED
  BY <1>1, <1>3, <1>4, <1>5, <1>6, <1>7, <1>8 DEF d

\* Without --incremental the formula joins what was asserted.
LEMMA PreparedOnce ==
  ASSUME QueriesOK, ~Incremental, Good(smt, stack), NEW q \in Queries
  PROVE  LET d == Prepared(q) IN
         /\ d \in EngineStates /\ d.d_pendingPops = 0 /\ d.asserts /\ d.d_queryMade
         /\ d.sat = Ready.sat /\ Len(d.d_assertionList) = Len(Ready.d_assertionList)
         /\ d.d_assertions = Ready.d_assertions \cup Asks(q)
         /\ d.d_userLevels = Ready.d_userLevels
         /\ Len(d.sat) > 0 /\ Asks(q) \subseteq Formulas
<1> DEFINE d == Prepared(q)
<1>1. d = With(Ready, q)
  <2>1. internalPush(Ready) = Ready
    BY ReadyGood, NothingPending DEF internalPush
  <2>2. QED
    BY <2>1 DEF Prepared, Ready, With
<1> HIDE DEF d
<1>2. Asks(q) \subseteq Formulas
  BY DEF QueriesOK, Asks
<1>3. /\ d \in EngineStates /\ d.d_pendingPops = 0 /\ d.asserts /\ d.d_queryMade
      /\ d.sat = Ready.sat /\ d.d_userLevels = Ready.d_userLevels
      /\ d.d_assertionList = AddToTop(Ready.d_assertionList, Asks(q))
      /\ d.d_assertions = Ready.d_assertions \cup Asks(q)
  BY <1>1, ReadyGood, WithFormula
<1>4. Len(d.d_assertionList) = Len(Ready.d_assertionList)
  BY <1>2, <1>3, ReadyGood, AddToTopFacts
<1>5. QED
  BY <1>2, <1>3, <1>4, ReadyGood DEF d

\* A check is answered: it was about what was asserted and not popped.
LEMMA CheckSatInv ==
  ASSUME QueriesOK, Inv, UNCHANGED session, NEW q \in Queries, NEW result \in {"sat", "unsat", "unknown"},
         checkSat(q, result)
  PROVE  Inv'
<1> DEFINE P == Prepared(q)
           e == processAssertions(P)
           x == [e EXCEPT !.asserts = e.asserts /\ P.d_pendingPops = 0, !.presolved = TRUE]
           d == Finished(x, result)
<1>1. Good(smt, stack) /\ MayCheck
  BY DEF Inv, checkSat
<1>2. smt' = d /\ stack' = stack /\ asked' = All(stack) \cup Asks(q) /\ decided' = All(e.sat)
      /\ extended' = FALSE
  BY DEF checkSat, Asks
<1>3. /\ P \in EngineStates /\ P.d_pendingPops = 0 /\ P.asserts /\ P.d_queryMade
      /\ Len(P.sat) > 0 /\ Asks(q) \subseteq Formulas
  BY <1>1, PreparedIncremental, PreparedOnce
<1> HIDE DEF P
<1>4. /\ e \in EngineStates /\ e.d_pendingPops = 0 /\ e.asserts /\ SameRest(e, P)
      /\ e.sat = AddToTop(P.sat, P.d_assertions) /\ e.d_assertionList = P.d_assertionList
      /\ e.d_assertions = {}
  BY <1>3, ProcessFacts
<1> HIDE DEF e
<1>5. /\ x \in EngineStates /\ x.d_pendingPops = 0 /\ x.asserts /\ x.presolved = TRUE
      /\ x.sat = e.sat /\ x.d_assertionList = P.d_assertionList /\ x.d_assertions = {}
      /\ x.d_userLevels = P.d_userLevels /\ x.d_queryMade
  <2> DEFINE yes == e.asserts /\ P.d_pendingPops = 0
             y == [e EXCEPT !.asserts = yes, !.presolved = TRUE]
  <2>1. yes = TRUE
    BY <1>3, <1>4 DEF EngineStates
  <2>2. x = y
    OBVIOUS
  <2> HIDE DEF yes, x
  <2>3. y \in EngineStates
    BY <1>4, <2>1 DEF EngineStates
  <2>4. /\ y.d_pendingPops = e.d_pendingPops /\ y.asserts = yes /\ y.presolved = TRUE
        /\ y.sat = e.sat /\ y.d_assertionList = e.d_assertionList
        /\ y.d_assertions = e.d_assertions /\ y.d_userLevels = e.d_userLevels
        /\ y.d_queryMade = e.d_queryMade
    BY <1>4 DEF EngineStates
  <2> HIDE DEF y
  <2>5. QED
    BY <1>3, <1>4, <2>1, <2>2, <2>3, <2>4 DEF SameRest
<1> HIDE DEF x
<1>6. /\ d \in EngineStates /\ d.sat = e.sat /\ d.d_assertionList = P.d_assertionList
      /\ d.d_assertions = {} /\ d.d_userLevels = P.d_userLevels
      /\ d.d_queryMade /\ d.presolved = TRUE /\ d.asserts /\ d.d_needPostsolve
      /\ d.d_pendingPops = IF Incremental THEN 1 ELSE 0
  BY <1>5, FinishedFacts
<1> HIDE DEF d
<1>7. d.presolved = d.d_needPostsolve
  <2>1. d.d_needPostsolve = TRUE
    BY <1>6 DEF EngineStates
  <2>2. QED
    BY <1>6, <2>1
<1>8. Good(d, stack) /\ All(e.sat) = All(stack) \cup Asks(q)
  <2>1. CASE Incremental
    <3>1. /\ P.sat = Append(Base.sat, {}) /\ P.d_assertionList = Append(Base.d_assertionList, Asks(q))
          /\ P.d_assertions = Asks(q) /\ P.d_userLevels = Base.d_userLevels
      BY <1>1, <2>1, PreparedIncremental DEF P
    <3>2. /\ Good(Base, stack) /\ Base \in EngineStates /\ Base.d_pendingPops = 0
          /\ Base.d_assertions = {} /\ Base.sat \in Seq(SUBSET Formulas)
      BY <1>1, BaseGood
    <3>3. e.sat = Append(Base.sat, Asks(q))
      BY <1>3, <1>4, <3>1, <3>2, AddToAppend
    <3>4. Good(d, stack)
      BY <1>3, <1>6, <1>7, <2>1, <3>1, <3>2, <3>3, CheckedGood
    <3>5. All(e.sat) = All(Base.sat) \cup Asks(q)
      BY <1>3, <3>2, <3>3, AllAppend
    <3>6. Content(Base.sat, Base.d_assertionList, {}, Base.d_userLevels, stack)
      BY <2>1, <3>2, GoodDone
    <3>7. All(Base.sat) = All(stack)
      BY <3>6 DEF Content
    <3>8. QED
      BY <3>4, <3>5, <3>7
  <2>2. CASE ~Incremental
    <3>1. /\ P.sat = Ready.sat /\ Len(P.d_assertionList) = Len(Ready.d_assertionList)
          /\ P.d_assertions = Ready.d_assertions \cup Asks(q)
          /\ P.d_userLevels = Ready.d_userLevels
      BY <1>1, <2>2, PreparedOnce DEF P
    <3>2. /\ Good(Ready, stack) /\ Ready \in EngineStates /\ Ready.d_pendingPops = 0
          /\ Ready.d_queryMade = smt.d_queryMade
          /\ Ready.sat \in Seq(SUBSET Formulas) /\ Len(Ready.sat) > 0
          /\ Ready.d_assertions \subseteq Formulas
      BY <1>1, ReadyGood
    <3>3. P.d_assertions \subseteq Formulas
      BY <1>3, <3>1, <3>2
    <3>4. Len(e.sat) = Len(Ready.sat)
      BY <1>4, <3>1, <3>2, <3>3, AddToTopFacts
    <3>5. Good(d, stack)
      BY <1>6, <1>7, <2>2, <3>1, <3>2, <3>4, OnceGood
    <3>6. All(e.sat) = All(Ready.sat) \cup P.d_assertions
      BY <1>4, <3>1, <3>2, <3>3, AllAdd
    <3>7. ~Ready.d_queryMade
      BY <1>1, <2>2, <3>2 DEF MayCheck
    <3>8. Content(Ready.sat, Ready.d_assertionList, Ready.d_assertions, Ready.d_userLevels, stack)
      BY <3>2, <3>7, GoodDone
    <3>9. All(Ready.sat) \cup Ready.d_assertions = All(stack)
      BY <3>8 DEF Content
    <3>10. QED
      BY <3>1, <3>5, <3>6, <3>9
  <2>3. QED
    BY <2>1, <2>2
<1>9. asked' \subseteq Formulas
  <2>1. stack \in Seq(SUBSET Formulas)
    BY <1>1 DEF Good, Fits
  <2>2. \A i \in 1..Len(stack) : stack[i] \in SUBSET Formulas
    BY <2>1, ElementOfSeq
  <2>3. All(stack) \subseteq Formulas
    BY <2>2 DEF All
  <2>4. QED
    BY <1>2, <1>3, <2>3
<1>10. QED
  BY <1>2, <1>8, <1>9, InvNext

\* A check ends early.  In incremental mode it has no formula then.
LEMMA EarlyEndInv ==
  ASSUME QueriesOK, PlainChecks, Inv, UNCHANGED session, NEW q \in Queries,
         checkSatRefused(q) \/ checkSatThrown(q)
  PROVE  Inv'
<1> DEFINE P == Prepared(q)
<1>1. Good(smt, stack) /\ MayCheck /\ Faults # {}
  BY DEF Inv, checkSatRefused, checkSatThrown
<1>2. stack' = stack /\ asked' = asked /\ decided' = decided /\ extended' \in BOOLEAN
  BY DEF checkSatRefused, checkSatThrown, history, Inv
<1>3. /\ P \in EngineStates /\ P.d_pendingPops = 0 /\ P.asserts /\ P.d_queryMade
  BY <1>1, PreparedIncremental, PreparedOnce
<1>4. Incremental => Asks(q) = {}
  BY <1>1 DEF PlainChecks, Asks
<1>5. Incremental => /\ P.sat = Append(Base.sat, {})
                     /\ P.d_assertionList = Append(Base.d_assertionList, {})
                     /\ P.d_assertions = {} /\ P.d_userLevels = Base.d_userLevels
  BY <1>1, <1>4, PreparedIncremental
<1>6. ~Incremental => /\ P.sat = Ready.sat /\ P.d_userLevels = Ready.d_userLevels
                      /\ Len(P.d_assertionList) = Len(Ready.d_assertionList)
  BY <1>1, PreparedOnce
<1>7. Good(Ready, stack) /\ Ready.d_pendingPops = 0
  BY <1>1, ReadyGood
<1>8. /\ Good(Base, stack) /\ Base \in EngineStates /\ Base.d_pendingPops = 0
      /\ Base.d_assertions = {}
  BY <1>1, BaseGood
<1> HIDE DEF P
<1>9. Good(P, stack)
  <2>1. CASE Incremental
    <3>1. /\ Fits(Base.sat, Base.d_assertionList, {}, Base.d_userLevels, stack)
          /\ Content(Base.sat, Base.d_assertionList, {}, Base.d_userLevels, stack)
      BY <1>8, <2>1, GoodDone
    <3>2. /\ Fits(P.sat, P.d_assertionList, P.d_assertions, P.d_userLevels, stack)
          /\ Content(P.sat, P.d_assertionList, P.d_assertions, P.d_userLevels, stack)
      BY <1>5, <2>1, <3>1, ContentOpen
    <3>3. QED
      BY <1>1, <1>3, <2>1, <3>2, GoodDone
  <2>2. CASE ~Incremental
    BY <1>1, <1>3, <1>6, <1>7, <2>2, OnceGood
  <2>3. QED
    BY <2>1, <2>2
<1>10. CASE checkSatRefused(q)
  <2> DEFINE d == Finished(P, "unknown")
  <2>1. smt' = d
    BY <1>10 DEF checkSatRefused, P
  <2>2. /\ d \in EngineStates /\ d.sat = P.sat /\ d.d_assertionList = P.d_assertionList
        /\ d.d_assertions = P.d_assertions /\ d.d_userLevels = P.d_userLevels
        /\ d.d_queryMade = P.d_queryMade /\ d.asserts = P.asserts
        /\ d.d_pendingPops = IF Incremental THEN 1 ELSE 0
    BY <1>3, FinishedFacts
  <2> HIDE DEF d
  <2>3. Good(d, stack)
    <3>1. CASE Incremental
      <4>1. {} \subseteq Formulas
        OBVIOUS
      <4>2. QED
        BY <1>1, <1>3, <1>5, <1>8, <2>2, <3>1, <4>1, CheckedGood
    <3>2. CASE ~Incremental
      BY <1>1, <1>3, <1>6, <1>7, <2>2, <3>2, OnceGood
    <3>3. QED
      BY <3>1, <3>2
  <2>4. QED
    BY <1>2, <2>1, <2>3, InvNext DEF Inv
<1>11. CASE checkSatThrown(q)
  <2>1. \/ \E some \in SUBSET Ready.d_assertions : smt' = Throws(Ready, some)
        \/ \E some \in SUBSET P.d_assertions : smt' = Throws(P, some)
        \/ smt' = [processAssertions(P) EXCEPT !.presolved = TRUE]
    BY <1>11 DEF checkSatThrown, P, Ready
  <2>2. CASE \E some \in SUBSET Ready.d_assertions : smt' = Throws(Ready, some)
    BY <1>2, <1>7, <2>2, ThrowsGood, InvNext DEF Inv
  <2>3. CASE \E some \in SUBSET P.d_assertions : smt' = Throws(P, some)
    BY <1>2, <1>3, <1>9, <2>3, ThrowsGood, InvNext DEF Inv
  <2>4. CASE smt' = [processAssertions(P) EXCEPT !.presolved = TRUE]
    <3> DEFINE e == processAssertions(P)
               d == [e EXCEPT !.presolved = TRUE]
    <3>1. Good(e, stack) /\ e \in EngineStates /\ e.d_pendingPops = 0
      BY <1>3, <1>9, ProcessGood
    <3> HIDE DEF e
    <3>2. d \in EngineStates
      BY <3>1 DEF EngineStates
    <3>3. /\ d.sat = e.sat /\ d.d_assertionList = e.d_assertionList
          /\ d.d_assertions = e.d_assertions /\ d.d_userLevels = e.d_userLevels
          /\ d.d_queryMade = e.d_queryMade /\ d.asserts = e.asserts /\ d.d_pendingPops = 0
      BY <3>1 DEF EngineStates
    <3>4. smt' = d
      BY <2>4 DEF e
    <3> HIDE DEF d
    <3>5. Good(d, stack)
      BY <1>1, <3>1, <3>2, <3>3, GoodDone
    <3>6. QED
      BY <1>2, <3>4, <3>5, InvNext DEF Inv
  <2>5. QED
    BY <2>1, <2>2, <2>3, <2>4
<1>12. QED
  BY <1>10, <1>11

-----------------------------------------------------------------------------
(* The theorems. *)

\* A new engine is good.
LEMMA FreshGood == Good(Fresh, << {} >>)
<1> DEFINE s == << {} >>
<1>1. s \in Seq(SUBSET Formulas) /\ Len(s) = 1 /\ s[1] = {}
  OBVIOUS
<1>2. All(s) = {}
  BY <1>1 DEF All
<1>3. << >> \in Seq(Nat) /\ Len(<< >>) = 0
  OBVIOUS
<1>4. Fresh \in EngineStates /\ Fresh.d_pendingPops = 0
  BY DEF Fresh, EngineStates
<1>5. /\ Fresh.sat = s /\ Fresh.d_assertionList = s /\ Fresh.d_assertions = {}
      /\ Fresh.d_userLevels = << >> /\ Fresh.asserts
      /\ Fresh.presolved = FALSE /\ Fresh.d_needPostsolve = FALSE
  BY DEF Fresh
<1> HIDE DEF s
<1>6. Fits(s, s, {}, << >>, s) /\ Content(s, s, {}, << >>, s)
  BY <1>1, <1>2, <1>3 DEF Fits, Shape, Content
<1>7. Good(Fresh, s)
  BY <1>4, <1>5, <1>6, GoodDone
<1>8. QED
  BY <1>7 DEF s

\* Every command keeps the engine in step.
LEMMA StepInv ==
  ASSUME EngineAssumption, PlainSessions, Inv, [Next]_vars PROVE Inv'
<1> DEFINE d == doPendingPops(smt)
<1>1. Good(smt, stack) /\ QueriesOK /\ PlainChecks /\ UNCHANGED session
  BY SessionFacts DEF Inv, Next, vars
<1>2. Good(d, stack) /\ d.d_pendingPops = 0
  BY <1>1, PopsGood
<1>3. Good(processAssertions(d), stack) /\ processAssertions(d).d_pendingPops = 0
      /\ processAssertions(d).d_assertions = {}
  <2> HIDE DEF d
  <2>1. QED
    BY <1>2, ProcessGood
<1> HIDE DEF d
<1>4. ASSUME NEW f \in Formulas, assertFormula(f) PROVE Inv'
  <2>1. Good(smt', stack')
    BY <1>2, <1>4, AddGood DEF assertFormula, d
  <2>2. QED
    BY <1>1, <1>4, <2>1, InvNext DEF Inv, assertFormula
<1>5. ASSUME NEW q \in Queries, NEW result \in {"sat", "unsat", "unknown"}, checkSat(q, result)
      PROVE  Inv'
  BY <1>1, <1>5, CheckSatInv
<1>6. ASSUME NEW q \in Queries, checkSatRefused(q) \/ checkSatThrown(q) PROVE Inv'
  BY <1>1, <1>6, EarlyEndInv
<1>7. CASE push
  <2> DEFINE e == postsolve(processAssertions(d))
  <2>1. Good(e, stack) /\ e.d_pendingPops = 0 /\ e.d_assertions = {}
    BY <1>3, PostsolveGood
  <2>2. Incremental /\ stack' = Append(stack, {})
        /\ smt' = internalPush([e EXCEPT !.d_problemExtended = TRUE,
                                         !.d_userLevels = Append(@, getLevel(e))])
    BY <1>7 DEF push, d
  <2> HIDE DEF e
  <2>3. Good(smt', stack')
    BY <2>1, <2>2, PushGood
  <2>4. QED
    BY <1>1, <1>7, <2>3, InvNext DEF Inv, push
<1>8. CASE pushModal \/ simplify
  BY <1>1, <1>3, <1>8, InvNext DEF Inv, pushModal, simplify, history, d
<1>9. CASE pop
  <2>1. Good(smt', stack')
    BY <1>1, <1>9, PopGood DEF pop
  <2>2. QED
    BY <1>1, <1>9, <2>1, InvNext DEF Inv, pop
<1>10. CASE WorkThrown
  BY <1>1, <1>2, <1>10, ThrowsGood, InvNext DEF Inv, WorkThrown, history, d
<1>11. CASE Touch
  BY <1>1, <1>2, <1>11, InvNext DEF Inv, Touch, history, d
<1>12. CASE resetAssertions
  BY <1>1, <1>12 DEF resetAssertions, PlainChecks
<1>13. CASE reset
  BY <1>1, <1>13, FreshGood, InvNext DEF reset, Inv
<1>14. CASE UNCHANGED vars
  BY <1>1, <1>14, InvNext DEF vars, Inv
<1>15. QED
  BY <1>4, <1>5, <1>6, <1>7, <1>8, <1>9, <1>10, <1>11, <1>12, <1>13, <1>14 DEF Next, Command

\* The invariant says what EngineInStep asks for.
LEMMA InvInStep ==
  ASSUME Inv PROVE EngineInStep
<1>1. /\ smt \in EngineStates /\ smt.asserts /\ Len(smt.sat) = Len(smt.d_assertionList)
      /\ smt.d_pendingPops < Len(smt.d_assertionList)
      /\ Fits(KeptOf(smt.sat, smt), KeptOf(smt.d_assertionList, smt), smt.d_assertions,
              smt.d_userLevels, stack)
      /\ Incremental => Content(KeptOf(smt.sat, smt), KeptOf(smt.d_assertionList, smt),
                                smt.d_assertions, smt.d_userLevels, stack)
      /\ Faults = {} => smt.presolved = smt.d_needPostsolve
  BY DEF Inv, Good
<1>2. TypeOK
  BY <1>1 DEF TypeOK, Inv, Fits
<1>3. HeldIsAsserted
  BY <1>1 DEF HeldIsAsserted, Kept, KeptOf, Content
<1>4. LevelsMatch
  <2> DEFINE n == Len(smt.d_assertionList)
             k == n - smt.d_pendingPops
             L == smt.d_userLevels
  <2>1. n \in Nat /\ smt.d_pendingPops \in Nat /\ smt.d_assertionList \in Seq(SUBSET Formulas)
        /\ Len(L) \in Nat
    BY <1>1, LenProperties DEF EngineStates
  <2>2. k \in 0..n
    BY <1>1, <2>1
  <2>3. Len(KeptOf(smt.d_assertionList, smt)) = k
    BY <2>1, <2>2, PrefixFacts DEF KeptOf
  <2>4. Shape(k, L, stack)
    BY <1>1, <2>3 DEF Fits
  <2>5. Len(L) = Len(stack) - 1
    BY <2>4 DEF Shape
  <2>6. \A i \in 1..Len(L) : L[i] < k
    BY <2>1, <2>4 DEF Shape
  <2>7. \A i \in 1..Len(L) : i > 1 => L[i - 1] < L[i]
    <3>1. \A i \in 1..Len(L) : \A j \in 1..(i - 1) : L[j] < L[i]
      BY <2>4 DEF Shape
    <3>2. \A i \in 1..Len(L) : i > 1 => i - 1 \in 1..(i - 1)
      BY <2>1
    <3>3. QED
      BY <3>1, <3>2
  <2>8. QED
    BY <1>1, <2>5, <2>6, <2>7 DEF LevelsMatch, getLevel
<1>5. NoAssertFails /\ PostsolveOnce
  BY <1>1 DEF NoAssertFails, PostsolveOnce
<1>6. QED
  BY <1>2, <1>3, <1>4, <1>5 DEF EngineInStep

\* The engine, its context and the SAT solver agree between commands, for any
\* sequence of commands but resetAssertions, with any pops pending and after any
\* exception.
THEOREM EngineCorrect ==
  ASSUME EngineAssumption, PlainSessions PROVE Spec => []EngineInStep
<1>1. Init => Inv
  <2> SUFFICES ASSUME Init PROVE Inv
    OBVIOUS
  <2>1. QED
    BY FreshGood DEF Init, Inv
<1>2. Inv /\ [Next]_vars => Inv'
  BY StepInv
<1>3. Inv => EngineInStep
  BY InvInStep
<1>4. QED
  BY <1>1, <1>2, <1>3, PTL DEF Spec

\* Every check that is answered is about what the user has asserted and not popped,
\* and the formula that is checked: no more and no less.
THEOREM AnswersCorrect ==
  ASSUME EngineAssumption, PlainSessions PROVE Spec => []AnswersAboutAssertions
<1>1. Init => Inv
  <2> SUFFICES ASSUME Init PROVE Inv
    OBVIOUS
  <2>1. QED
    BY FreshGood DEF Init, Inv
<1>2. Inv /\ [Next]_vars => Inv'
  BY StepInv
<1>3. Inv => AnswersAboutAssertions
  BY DEF Inv, AnswersAboutAssertions
<1>4. QED
  BY <1>1, <1>2, <1>3, PTL DEF Spec
=============================================================================
