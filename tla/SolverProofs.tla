---------------------------- MODULE SolverProofs ----------------------------
(***************************************************************************)
(* Proofs about Solver, for any problems and any bound on the levels: the  *)
(* theories stay in step with the trail of the SAT solver.                 *)
(*                                                                         *)
(* The second part states the invariant by which the search is sound,      *)
(* SoundInv, and what the operations on the trail and on the clauses do to *)
(* it; that each step of the search preserves it is shown in               *)
(* SolverSoundProofs.                                                      *)
(***************************************************************************)
EXTENDS Solver, TLAPS, SequenceTheorems, FiniteSetTheorems, FunctionTheorems, WellFoundedInduction

-----------------------------------------------------------------------------
(* The inductive invariant, of the core s when the user level is al.         *)

\* s is a sequence, of whatever.
IsSequence(s) == s \in Seq({s[i] : i \in DOMAIN s})

CoreFields ==
  {"trail", "trail_lim", "qhead", "queue", "facts", "known", "saved", "order_heap", "regs"}

HasFields(s) == s = [f \in CoreFields |-> s[f]]

\* r is an entry of variables_to_register.
IsRegistration(r) == r = [var |-> r.var, level |-> r.level]

\* The parts of the core have their fields.
Shaped(s) ==
  /\ HasFields(s)
  /\ IsSequence(s.trail) /\ IsSequence(s.trail_lim) /\ IsSequence(s.queue)
  /\ IsSequence(s.facts) /\ IsSequence(s.saved) /\ IsSequence(s.regs)
  /\ \A i \in DOMAIN s.trail : DOMAIN s.trail[i] = {"lit", "reason", "user", "why"}
  /\ \A k \in DOMAIN s.saved : IsSequence(s.saved[k].queue) /\ IsSequence(s.saved[k].facts)
  /\ \A r \in DOMAIN s.regs : IsRegistration(s.regs[r])

\* m maps each context push to the length of the trail at the time: where the
\* decision level begins, or the entries of higher user levels.
Marks(s, al, m) ==
  /\ m \in [1..Len(s.saved) -> 0..Len(s.trail)]
  /\ \A j, k \in 1..Len(s.saved) : j <= k => m[j] <= m[k]
  /\ \A j \in 1..Len(s.trail_lim) : m[al + j] = s.trail_lim[j]
  /\ \A k \in 1..al : \A i \in 1..Len(s.trail) :
       IF i <= m[k] THEN s.trail[i].user < k ELSE s.trail[i].user >= k

\* Each saved context is that of the beginning of the trail up to its mark.
Restores(s, m) ==
  \A k \in 1..Len(s.saved) : Follows(s.saved[k].facts \o s.saved[k].queue, s.trail, m[k])

\* The contexts follow the trail, and there is one for each level.
InStep(s, al) ==
  /\ Len(s.saved) = al + Len(s.trail_lim)
  /\ \A i \in 1..Len(s.trail) : s.trail[i].user \in 0..al
  /\ Follows(s.facts \o s.queue, s.trail, Len(s.trail))
  /\ \E m : Marks(s, al, m) /\ Restores(s, m)

\* Every atom that exists is registered, and will be after any number of pops:
\* in a context of a decision level it may be missing if cancelUntil registers it
\* again, in one of a user level if pop() deletes the variable.
Registered(s, in, al) ==
  /\ \A v \in TheoryAtom : in[v] \in {-1} \cup 0..al
  /\ \A v \in TheoryAtom : in[v] # -1 => v \in s.known
  /\ \A j \in 1..Len(s.trail_lim) : \A v \in TheoryAtom :
       in[v] # -1 => \/ v \in s.saved[al + j].known
                     \/ \E r \in DOMAIN s.regs : s.regs[r].var = v /\ s.regs[r].level >= j
  /\ \A k \in 1..al : \A v \in TheoryAtom :
       in[v] \in 0..(k - 1) => v \in s.saved[k].known
  /\ \A r \in DOMAIN s.regs : s.regs[r].level \in 0..Len(s.trail_lim)
  /\ \A q, r \in DOMAIN s.regs : q <= r => s.regs[q].level <= s.regs[r].level

Sync(s, in, al) == Shaped(s) /\ InStep(s, al) /\ Registered(s, in, al)

\* The locals of updateLemmas have their fields.
UpdateRight(u) ==
  /\ u = [btlevel |-> u.btlevel, index |-> u.index, conflict |-> u.conflict, back |-> u.back]
  /\ u.btlevel \in Nat

Inv ==
  /\ problem \in Problems
  /\ assertionLevel \in Nat
  /\ UpdateRight(update)
  /\ Sync(Core, intro, assertionLevel)

-----------------------------------------------------------------------------
(* Sequences of whatever. *)

\* A sequence has a length, and its domain is what one expects.
LEMMA SequenceShape ==
  ASSUME NEW s, IsSequence(s)
  PROVE  /\ Len(s) \in Nat
         /\ DOMAIN s = 1..Len(s)
         /\ s = [i \in 1..Len(s) |-> s[i]]
BY LenProperties DEF IsSequence

\* A sequence over any set is one.
LEMMA SequenceOver ==
  ASSUME NEW s, NEW S, s \in Seq(S)
  PROVE  IsSequence(s)
<1>1. Len(s) \in Nat /\ s \in [1..Len(s) -> S]
  BY LenProperties
<1>2. s = [i \in 1..Len(s) |-> s[i]]
  BY <1>1
<1>3. \A i \in 1..Len(s) : s[i] \in {s[j] : j \in DOMAIN s}
  BY <1>1
<1>4. s \in [1..Len(s) -> {s[j] : j \in DOMAIN s}]
  BY <1>2, <1>3
<1> QED  BY <1>1, <1>4 DEF IsSequence

\* A sequence over a set has its elements there.
LEMMA SequenceWithin ==
  ASSUME NEW s, NEW S, IsSequence(s), \A i \in 1..Len(s) : s[i] \in S
  PROVE  s \in Seq(S)
<1>1. Len(s) \in Nat /\ s = [i \in 1..Len(s) |-> s[i]]
  BY SequenceShape
<1>2. s \in [1..Len(s) -> S]
  BY <1>1
<1> QED  BY <1>1, <1>2

\* Two sequences have a set of elements in common.
LEMMA SequencesOver ==
  ASSUME NEW s, NEW t, IsSequence(s), IsSequence(t)
  PROVE  \E S : s \in Seq(S) /\ t \in Seq(S)
<1> DEFINE S == {s[i] : i \in DOMAIN s} \cup {t[i] : i \in DOMAIN t}
<1>1. DOMAIN s = 1..Len(s) /\ DOMAIN t = 1..Len(t)
  BY SequenceShape
<1>2. (\A i \in 1..Len(s) : s[i] \in S) /\ (\A i \in 1..Len(t) : t[i] \in S)
  BY <1>1
<1> HIDE DEF S
<1>3. s \in Seq(S) /\ t \in Seq(S)
  BY <1>2, SequenceWithin
<1> QED  BY <1>3

\* The empty sequence is one.
LEMMA SequenceNone ==
  IsSequence(<<>>) /\ Len(<<>>) = 0
<1>1. <<>> \in Seq({})
  OBVIOUS
<1> QED  BY <1>1, SequenceOver

\* A function on 1..n is a sequence.
LEMMA SequenceFunction ==
  ASSUME NEW n \in Nat, NEW f, f = [i \in 1..n |-> f[i]]
  PROVE  IsSequence(f) /\ Len(f) = n
<1> DEFINE S == {f[i] : i \in 1..n}
<1>1. f \in [1..n -> S]
  OBVIOUS
<1> HIDE DEF S
<1>2. f \in Seq(S)
  BY <1>1
<1>3. Len(f) = n
  BY <1>1
<1> QED  BY <1>2, <1>3, SequenceOver

\* What Append returns.
LEMMA SequenceAppend ==
  ASSUME NEW s, NEW e, IsSequence(s)
  PROVE  /\ IsSequence(Append(s, e))
         /\ Len(Append(s, e)) = Len(s) + 1
         /\ Append(s, e)[Len(s) + 1] = e
         /\ \A i \in 1..Len(s) : Append(s, e)[i] = s[i]
<1> DEFINE S == {s[i] : i \in DOMAIN s} \cup {e}
<1>1. Len(s) \in Nat /\ DOMAIN s = 1..Len(s)
  BY SequenceShape
<1>2. (\A i \in 1..Len(s) : s[i] \in S) /\ e \in S
  BY <1>1
<1> HIDE DEF S
<1>3. s \in Seq(S)
  BY <1>2, SequenceWithin
<1>4. Append(s, e) \in Seq(S) /\ Len(Append(s, e)) = Len(s) + 1
  BY <1>2, <1>3, AppendProperties
<1>5. \A i \in 1..Len(s) + 1 : Append(s, e)[i] = IF i <= Len(s) THEN s[i] ELSE e
  BY <1>1, <1>2, <1>3, AppendProperties
<1>6. Append(s, e)[Len(s) + 1] = e
  BY <1>1, <1>5
<1>7. \A i \in 1..Len(s) : Append(s, e)[i] = s[i]
  BY <1>1, <1>5
<1> QED  BY <1>4, <1>6, <1>7, SequenceOver

\* What concatenation returns.
LEMMA SequenceConcat ==
  ASSUME NEW s, NEW t, IsSequence(s), IsSequence(t)
  PROVE  /\ IsSequence(s \o t)
         /\ Len(s \o t) = Len(s) + Len(t)
         /\ \A i \in 1..Len(s) : (s \o t)[i] = s[i]
         /\ \A i \in 1..Len(t) : (s \o t)[Len(s) + i] = t[i]
<1>1. PICK S : s \in Seq(S) /\ t \in Seq(S)
  BY SequencesOver
<1>2. s \o t \in Seq(S) /\ Len(s \o t) = Len(s) + Len(t)
  BY <1>1, ConcatProperties
<1>3. \A i \in 1..Len(s) + Len(t) : (s \o t)[i] = IF i <= Len(s) THEN s[i] ELSE t[i - Len(s)]
  BY <1>1, ConcatProperties
<1>4. Len(s) \in Nat /\ Len(t) \in Nat
  BY SequenceShape
<1>5. \A i \in 1..Len(s) : (s \o t)[i] = s[i]
  BY <1>3, <1>4
<1>6. ASSUME NEW i \in 1..Len(t)
      PROVE  (s \o t)[Len(s) + i] = t[i]
  <2>1. Len(s) + i \in 1..Len(s) + Len(t) /\ ~ (Len(s) + i <= Len(s))
    BY <1>4
  <2>2. (Len(s) + i) - Len(s) = i
    BY <1>4
  <2> QED  BY <1>3, <2>1, <2>2
<1> QED  BY <1>2, <1>5, <1>6, SequenceOver

\* What SubSeq returns for a prefix.
LEMMA SequencePrefix ==
  ASSUME NEW s, IsSequence(s), NEW n \in 0..Len(s)
  PROVE  /\ IsSequence(SubSeq(s, 1, n))
         /\ Len(SubSeq(s, 1, n)) = n
         /\ \A i \in 1..n : SubSeq(s, 1, n)[i] = s[i]
<1> DEFINE S == {s[i] : i \in DOMAIN s}
<1>1. Len(s) \in Nat /\ DOMAIN s = 1..Len(s)
  BY SequenceShape
<1>2. n \in Nat /\ \A i \in 1..n : s[i] \in S
  BY <1>1
<1> HIDE DEF S
<1>3. /\ SubSeq(s, 1, n) \in Seq(S)
      /\ Len(SubSeq(s, 1, n)) = IF 1 <= n THEN n - 1 + 1 ELSE 0
      /\ \A i \in 1..n - 1 + 1 : SubSeq(s, 1, n)[i] = s[1 + i - 1]
  BY <1>2, SubSeqProperties
<1>4. Len(SubSeq(s, 1, n)) = n
  BY <1>2, <1>3
<1>5. \A i \in 1..n : SubSeq(s, 1, n)[i] = s[i]
  BY <1>2, <1>3
<1> QED  BY <1>3, <1>4, <1>5, SequenceOver

\* Sequences are equal if their elements are.
LEMMA SequenceEqual ==
  ASSUME NEW s, NEW t, IsSequence(s), IsSequence(t), Len(s) = Len(t),
         \A i \in 1..Len(s) : s[i] = t[i]
  PROVE  s = t
<1>1. PICK S : s \in Seq(S) /\ t \in Seq(S)
  BY SequencesOver
<1> QED  BY <1>1, SeqEqual

\* Appending to the second of two sequences appends to both together.
LEMMA ConcatAppend ==
  ASSUME NEW s, NEW t, NEW e, IsSequence(s), IsSequence(t)
  PROVE  s \o Append(t, e) = Append(s \o t, e)
<1> DEFINE a == s \o Append(t, e)
           b == Append(s \o t, e)
<1>1. Len(s) \in Nat /\ Len(t) \in Nat
  BY SequenceShape
<1>2. /\ IsSequence(Append(t, e)) /\ Len(Append(t, e)) = Len(t) + 1
      /\ Append(t, e)[Len(t) + 1] = e
      /\ \A i \in 1..Len(t) : Append(t, e)[i] = t[i]
  BY SequenceAppend
<1>3. /\ IsSequence(s \o t) /\ Len(s \o t) = Len(s) + Len(t)
      /\ \A i \in 1..Len(s) : (s \o t)[i] = s[i]
      /\ \A i \in 1..Len(t) : (s \o t)[Len(s) + i] = t[i]
  BY SequenceConcat
<1>4. /\ IsSequence(a) /\ Len(a) = Len(s) + Len(Append(t, e))
      /\ \A i \in 1..Len(s) : a[i] = s[i]
      /\ \A i \in 1..Len(Append(t, e)) : a[Len(s) + i] = Append(t, e)[i]
  BY <1>2, SequenceConcat
<1>5. /\ IsSequence(b) /\ Len(b) = Len(s \o t) + 1 /\ b[Len(s \o t) + 1] = e
      /\ \A i \in 1..Len(s \o t) : b[i] = (s \o t)[i]
  BY <1>3, SequenceAppend
<1> HIDE DEF a, b
<1>6. Len(a) = Len(b)
  BY <1>1, <1>2, <1>3, <1>4, <1>5
<1>7. ASSUME NEW i \in 1..Len(a)
      PROVE  a[i] = b[i]
  <2>1. CASE i <= Len(s)
    BY <1>1, <1>2, <1>3, <1>4, <1>5, <2>1
  <2>2. CASE i > Len(s)
    <3> DEFINE k == i - Len(s)
    <3>1. k \in 1..Len(t) + 1 /\ i = Len(s) + k
      BY <1>1, <1>2, <1>4, <2>2
    <3> HIDE DEF k
    <3>2. a[i] = Append(t, e)[k]
      BY <1>2, <1>4, <3>1
    <3>3. CASE k = Len(t) + 1
      BY <1>1, <1>2, <1>3, <1>5, <3>1, <3>2, <3>3
    <3>4. CASE k # Len(t) + 1
      <4>1. k \in 1..Len(t) /\ Len(s) + k \in 1..Len(s \o t)
        BY <1>1, <1>3, <3>1, <3>4
      <4> QED  BY <1>2, <1>3, <1>5, <3>1, <3>2, <4>1
    <3> QED  BY <3>3, <3>4
  <2> QED  BY <1>1, <1>4, <2>1, <2>2
<1>8. a = b
  BY <1>4, <1>5, <1>6, <1>7, SequenceEqual
<1> QED  BY <1>8 DEF a, b

\* A literal put in the queue comes after the facts and the queue.
LEMMA ConcatAppendQueue ==
  ASSUME NEW s, NEW l, IsSequence(s.facts), IsSequence(s.queue)
  PROVE  s.facts \o Append(s.queue, l) = Append(s.facts \o s.queue, l)
<1> DEFINE a == s.facts
           b == s.queue
<1>1. IsSequence(a) /\ IsSequence(b)
  OBVIOUS
<1> HIDE DEF a, b
<1>2. a \o Append(b, l) = Append(a \o b, l)
  BY <1>1, ConcatAppend
<1> QED  BY <1>2 DEF a, b

\* The empty sequence is neutral.
LEMMA ConcatNone ==
  ASSUME NEW s, IsSequence(s)
  PROVE  s \o <<>> = s
<1>1. s \in Seq({s[i] : i \in DOMAIN s})
  BY DEF IsSequence
<1> QED  BY <1>1, ConcatEmptySeq

-----------------------------------------------------------------------------
(* The theory literals on the trail. *)

\* The positions of theory literals are finitely many.
LEMMA TheoryLiteralsFinite ==
  ASSUME NEW t, NEW n \in Nat
  PROVE  IsFiniteSet({j \in 1..n : Abs(t[j].lit) \in TheoryAtom})
<1>1. IsFiniteSet(1..n)
  BY FS_Interval
<1> QED  BY <1>1, FS_Subset

\* Their number is a natural number.
LEMMA TheoryCountType ==
  ASSUME NEW t, NEW n \in Nat
  PROVE  TheoryCount(t, n) \in Nat
BY TheoryLiteralsFinite, FS_CardinalityType DEF TheoryCount

\* A longer beginning of the trail has as many theory literals or more, and more if
\* it ends in one.
LEMMA TheoryCountUp ==
  ASSUME NEW t, NEW n \in Nat, NEW i \in 1..n
  PROVE  /\ TheoryCount(t, i) <= TheoryCount(t, n)
         /\ Abs(t[i].lit) \in TheoryAtom => TheoryCount(t, i) \in 1..TheoryCount(t, n)
<1> DEFINE T(k) == {j \in 1..k : Abs(t[j].lit) \in TheoryAtom}
<1>1. IsFiniteSet(T(n)) /\ T(i) \in SUBSET T(n)
  BY TheoryLiteralsFinite
<1>2. IsFiniteSet(T(i)) /\ Cardinality(T(i)) <= Cardinality(T(n))
  BY <1>1, FS_Subset
<1>3. Cardinality(T(i)) \in Nat /\ Cardinality(T(n)) \in Nat
  BY <1>1, <1>2, FS_CardinalityType
<1>4. Abs(t[i].lit) \in TheoryAtom => i \in T(i)
  OBVIOUS
<1>5. Abs(t[i].lit) \in TheoryAtom => Cardinality(T(i)) # 0
  BY <1>2, <1>4, FS_EmptySet
<1> QED  BY <1>2, <1>3, <1>5 DEF TheoryCount

\* There is none among the first 0 literals.
LEMMA TheoryCountNone ==
  ASSUME NEW t
  PROVE  TheoryCount(t, 0) = 0
<1>1. {j \in 1..0 : Abs(t[j].lit) \in TheoryAtom} = {}
  OBVIOUS
<1> QED  BY <1>1, FS_EmptySet DEF TheoryCount

\* The number goes up by one at a theory literal only.
LEMMA TheoryCountNext ==
  ASSUME NEW t, NEW n \in Nat
  PROVE  TheoryCount(t, n + 1) =
           IF Abs(t[n + 1].lit) \in TheoryAtom THEN TheoryCount(t, n) + 1 ELSE TheoryCount(t, n)
<1> DEFINE T(k) == {j \in 1..k : Abs(t[j].lit) \in TheoryAtom}
<1>1. IsFiniteSet(T(n)) /\ n + 1 \notin T(n)
  BY TheoryLiteralsFinite
<1>2. Abs(t[n + 1].lit) \in TheoryAtom => T(n + 1) = T(n) \cup {n + 1}
  OBVIOUS
<1>3. Abs(t[n + 1].lit) \notin TheoryAtom => T(n + 1) = T(n)
  OBVIOUS
<1>4. Cardinality(T(n) \cup {n + 1}) = Cardinality(T(n)) + 1
  BY <1>1, FS_AddElement
<1> QED  BY <1>2, <1>3, <1>4 DEF TheoryCount

\* Only the literals count.
LEMMA TheoryCountSame ==
  ASSUME NEW t, NEW u, NEW n \in Nat, \A i \in 1..n : u[i].lit = t[i].lit, NEW i \in 0..n
  PROVE  TheoryCount(u, i) = TheoryCount(t, i)
<1>1. {j \in 1..i : Abs(u[j].lit) \in TheoryAtom} = {j \in 1..i : Abs(t[j].lit) \in TheoryAtom}
  OBVIOUS
<1> QED  BY <1>1 DEF TheoryCount

\* Follows looks at the first n literals only.
LEMMA FollowsSame ==
  ASSUME NEW q, NEW t, NEW u, NEW n \in Nat, \A i \in 1..n : u[i].lit = t[i].lit,
         NEW k \in 0..n, Follows(q, t, k)
  PROVE  Follows(q, u, k)
<1>1. TheoryCount(u, k) = TheoryCount(t, k)
  BY TheoryCountSame
<1>2. \A i \in 1..k : TheoryCount(u, i) = TheoryCount(t, i)
  BY TheoryCountSame
<1> QED  BY <1>1, <1>2 DEF Follows

\* Nothing follows from an empty trail.
LEMMA FollowsNone ==
  ASSUME NEW t
  PROVE  Follows(<<>>, t, 0)
BY TheoryCountNone, SequenceNone DEF Follows

\* A literal is enqueued.
LEMMA FollowsNext ==
  ASSUME NEW q, IsSequence(q), NEW t, NEW n \in Nat, Follows(q, t, n)
  PROVE  Follows(IF Abs(t[n + 1].lit) \in TheoryAtom THEN Append(q, t[n + 1].lit) ELSE q, t, n + 1)
<1> DEFINE l == t[n + 1].lit
<1>1. Len(q) = TheoryCount(t, n) /\ TheoryCount(t, n) \in Nat
  BY TheoryCountType DEF Follows
<1>2. TheoryCount(t, n + 1) =
        IF Abs(l) \in TheoryAtom THEN TheoryCount(t, n) + 1 ELSE TheoryCount(t, n)
  BY TheoryCountNext
<1>3. \A i \in 1..n : Abs(t[i].lit) \in TheoryAtom =>
        TheoryCount(t, i) \in 1..Len(q) /\ q[TheoryCount(t, i)] = t[i].lit
  BY <1>1, TheoryCountUp DEF Follows
<1>4. CASE Abs(l) \in TheoryAtom
  <2>1. /\ Len(Append(q, l)) = Len(q) + 1 /\ Append(q, l)[Len(q) + 1] = l
        /\ \A i \in 1..Len(q) : Append(q, l)[i] = q[i]
    BY SequenceAppend
  <2>2. ASSUME NEW i \in 1..n + 1, Abs(t[i].lit) \in TheoryAtom
        PROVE  Append(q, l)[TheoryCount(t, i)] = t[i].lit
    <3>1. CASE i = n + 1
      BY <1>1, <1>2, <1>4, <2>1, <3>1
    <3>2. CASE i \in 1..n
      BY <1>3, <2>1, <2>2, <3>2
    <3>3. i = n + 1 \/ i \in 1..n
      OBVIOUS
    <3> QED  BY <3>1, <3>2, <3>3
  <2>3. Len(Append(q, l)) = TheoryCount(t, n + 1)
    BY <1>1, <1>2, <1>4, <2>1
  <2>4. Follows(Append(q, l), t, n + 1)
    BY <2>2, <2>3 DEF Follows
  <2> QED  BY <1>4, <2>4
<1>5. CASE Abs(l) \notin TheoryAtom
  <2>1. \A i \in 1..n + 1 : Abs(t[i].lit) \in TheoryAtom => i \in 1..n
    BY <1>5
  <2>2. Follows(q, t, n + 1)
    BY <1>1, <1>2, <1>3, <1>5, <2>1 DEF Follows
  <2> QED  BY <1>5, <2>2
<1> QED  BY <1>4, <1>5

-----------------------------------------------------------------------------
(* The operations on the core, field by field. *)

\* What uncheckedEnqueue does to each field.
LEMMA EnqueueFields ==
  ASSUME NEW s, HasFields(s), NEW l, NEW from, NEW why
  PROVE  LET t == uncheckedEnqueue(s, l, from, why) IN
         /\ HasFields(t)
         /\ t.trail = Append(s.trail, [lit |-> l, reason |-> from, user |-> assertionLevel,
                                       why |-> why])
         /\ t.queue = IF Abs(l) \in TheoryAtom THEN Append(s.queue, l) ELSE s.queue
         /\ t.trail_lim = s.trail_lim /\ t.facts = s.facts /\ t.known = s.known
         /\ t.saved = s.saved /\ t.regs = s.regs
         /\ t.qhead = s.qhead /\ t.order_heap = s.order_heap
BY DEF HasFields, CoreFields, uncheckedEnqueue

\* What the push of the contexts does.
LEMMA PushFields ==
  ASSUME NEW s, HasFields(s)
  PROVE  LET t == ContextPush(s) IN
         /\ HasFields(t)
         /\ t.saved = Append(s.saved, [queue |-> s.queue, facts |-> s.facts,
                                       known |-> s.known])
         /\ t.trail = s.trail /\ t.trail_lim = s.trail_lim /\ t.queue = s.queue
         /\ t.facts = s.facts /\ t.known = s.known /\ t.regs = s.regs
         /\ t.qhead = s.qhead /\ t.order_heap = s.order_heap
BY DEF HasFields, CoreFields, ContextPush

\* What newDecisionLevel does.
LEMMA NewLevelFields ==
  ASSUME NEW s, HasFields(s)
  PROVE  LET t == newDecisionLevel(s) IN
         /\ HasFields(t)
         /\ t.trail_lim = Append(s.trail_lim, Len(s.trail))
         /\ t.saved = Append(s.saved, [queue |-> s.queue, facts |-> s.facts,
                                       known |-> s.known])
         /\ t.trail = s.trail /\ t.queue = s.queue
         /\ t.facts = s.facts /\ t.known = s.known /\ t.regs = s.regs
         /\ t.qhead = s.qhead /\ t.order_heap = s.order_heap
<1> DEFINE p == [s EXCEPT !.trail_lim = Append(@, Len(s.trail))]
<1>1. /\ HasFields(p) /\ p.trail_lim = Append(s.trail_lim, Len(s.trail))
      /\ p.trail = s.trail /\ p.queue = s.queue /\ p.saved = s.saved
      /\ p.facts = s.facts /\ p.known = s.known /\ p.regs = s.regs
      /\ p.qhead = s.qhead /\ p.order_heap = s.order_heap
  BY DEF HasFields, CoreFields
<1>2. newDecisionLevel(s) = ContextPush(p)
  BY DEF newDecisionLevel
<1> HIDE DEF p
<1> QED  BY <1>1, <1>2, PushFields

\* What n pops of the contexts do.
LEMMA PopFields ==
  ASSUME NEW s, HasFields(s), NEW n,
         NEW k, k = Len(s.saved) - n + 1, k - 1 = Len(s.saved) - n
  PROVE  LET old == s.saved[k]
             t   == ContextPop(s, n)
         IN  /\ HasFields(t)
             /\ t.saved = SubSeq(s.saved, 1, k - 1)
             /\ t.queue = old.queue /\ t.facts = old.facts /\ t.known = old.known
             /\ t.trail = s.trail /\ t.trail_lim = s.trail_lim /\ t.regs = s.regs
             /\ t.qhead = s.qhead /\ t.order_heap = s.order_heap
BY DEF HasFields, CoreFields, ContextPop

\* The atoms above the level lev, from the end of variables_to_register, and the
\* sequence with these at that level.
Above(regs, lev) == {i \in DOMAIN regs : \A j \in i..Len(regs) : regs[j].level > lev}

Again(regs, lev) == {regs[i].var : i \in Above(regs, lev)}

Lowered(regs, lev) ==
  [i \in DOMAIN regs |-> IF i \in Above(regs, lev) THEN [regs[i] EXCEPT !.level = lev]
                                                   ELSE regs[i]]

\* What the registrations at the end of cancelUntil do.
LEMMA ReregisterFields ==
  ASSUME NEW s, HasFields(s), NEW lev, lev = Len(s.trail_lim)
  PROVE  LET t == Reregister(s) IN
         /\ HasFields(t)
         /\ t.known = s.known \cup Again(s.regs, lev)
         /\ t.regs = Lowered(s.regs, lev)
         /\ t.trail = s.trail /\ t.trail_lim = s.trail_lim /\ t.queue = s.queue
         /\ t.facts = s.facts /\ t.saved = s.saved
         /\ t.qhead = s.qhead /\ t.order_heap = s.order_heap
<1> DEFINE k == s.known \cup Again(s.regs, lev)
           r == Lowered(s.regs, lev)
<1>1. NotRegistered(s) = Above(s.regs, lev)
  BY DEF NotRegistered, Above, decisionLevel
<1>2. Reregister(s) = [s EXCEPT !.known = k, !.regs = r]
  BY <1>1, Zenon DEF Reregister, decisionLevel, Again, Lowered
<1> HIDE DEF k, r
<1>3. LET t == [s EXCEPT !.known = k, !.regs = r] IN
      /\ HasFields(t) /\ t.known = k /\ t.regs = r
      /\ t.trail = s.trail /\ t.trail_lim = s.trail_lim /\ t.queue = s.queue
      /\ t.facts = s.facts /\ t.saved = s.saved
      /\ t.qhead = s.qhead /\ t.order_heap = s.order_heap
  BY DEF HasFields, CoreFields
<1> QED  BY <1>2, <1>3, Zenon DEF k, r

\* t is s after cancelUntil(lev), k being the context of the decision level lev + 1.
Cancelled(s, t, lev, k) ==
  /\ HasFields(t)
  /\ t.trail = SubSeq(s.trail, 1, s.trail_lim[lev + 1])
  /\ t.trail_lim = SubSeq(s.trail_lim, 1, lev)
  /\ t.queue = s.saved[k].queue /\ t.facts = s.saved[k].facts
  /\ t.known = s.saved[k].known \cup Again(s.regs, lev)
  /\ t.saved = SubSeq(s.saved, 1, k - 1)
  /\ t.regs = Lowered(s.regs, lev)
  /\ t.qhead = s.trail_lim[lev + 1]
  /\ t.order_heap = s.order_heap \cup
       {Abs(s.trail[i].lit) : i \in (s.trail_lim[lev + 1] + 1)..Len(s.trail)}

\* What cancelUntil does, if it does something.
LEMMA CancelFields ==
  ASSUME NEW s, HasFields(s), IsSequence(s.trail_lim),
         NEW lev \in Nat, lev < Len(s.trail_lim),
         NEW k, k = Len(s.saved) - (Len(s.trail_lim) - lev) + 1,
         k - 1 = Len(s.saved) - (Len(s.trail_lim) - lev)
  PROVE  Cancelled(s, cancelUntil(s, lev), lev, k)
<1> DEFINE n == s.trail_lim[lev + 1]
           depth == Len(s.trail_lim) - lev
           old == s.saved[k]
           heap == {Abs(s.trail[i].lit) : i \in (n + 1)..Len(s.trail)}
           p == ContextPop(s, depth)
           c == [p EXCEPT !.trail = SubSeq(@, 1, n), !.trail_lim = SubSeq(@, 1, lev),
                          !.qhead = n, !.order_heap = @ \cup heap]
<1>1. ~ (decisionLevel(s) <= lev) /\ lev \in 0..Len(s.trail_lim)
  BY SequenceShape DEF decisionLevel
<1>2. /\ HasFields(p)
      /\ p.saved = SubSeq(s.saved, 1, k - 1)
      /\ p.queue = old.queue /\ p.facts = old.facts /\ p.known = old.known
      /\ p.trail = s.trail /\ p.trail_lim = s.trail_lim /\ p.regs = s.regs
      /\ p.qhead = s.qhead /\ p.order_heap = s.order_heap
  <2>1. k = Len(s.saved) - depth + 1 /\ k - 1 = Len(s.saved) - depth
    OBVIOUS
  <2> HIDE DEF depth
  <2> QED  BY <2>1, PopFields
<1>3. cancelUntil(s, lev) = Reregister(c)
  BY <1>1, Zenon DEF cancelUntil, decisionLevel
<1> HIDE DEF p, n, depth, old, heap
<1>4. /\ HasFields(c)
      /\ c.trail = SubSeq(s.trail, 1, n) /\ c.trail_lim = SubSeq(s.trail_lim, 1, lev)
      /\ c.queue = old.queue /\ c.facts = old.facts /\ c.known = old.known
      /\ c.saved = SubSeq(s.saved, 1, k - 1) /\ c.regs = s.regs
      /\ c.qhead = n /\ c.order_heap = s.order_heap \cup heap
  BY <1>2 DEF HasFields, CoreFields
<1> HIDE DEF c
<1>5. Len(c.trail_lim) = lev
  BY <1>1, <1>4, SequencePrefix
<1>6. LET t == Reregister(c) IN
      /\ HasFields(t)
      /\ t.known = c.known \cup Again(c.regs, lev)
      /\ t.regs = Lowered(c.regs, lev)
      /\ t.trail = c.trail /\ t.trail_lim = c.trail_lim /\ t.queue = c.queue
      /\ t.facts = c.facts /\ t.saved = c.saved
      /\ t.qhead = c.qhead /\ t.order_heap = c.order_heap
  BY <1>4, <1>5, ReregisterFields
<1>7. LET t == cancelUntil(s, lev) IN
      /\ HasFields(t)
      /\ t.trail = SubSeq(s.trail, 1, n) /\ t.trail_lim = SubSeq(s.trail_lim, 1, lev)
      /\ t.queue = old.queue /\ t.facts = old.facts
      /\ t.known = old.known \cup Again(s.regs, lev)
      /\ t.saved = SubSeq(s.saved, 1, k - 1)
      /\ t.regs = Lowered(s.regs, lev)
      /\ t.qhead = n /\ t.order_heap = s.order_heap \cup heap
  BY <1>3, <1>4, <1>6
<1> DEFINE t == cancelUntil(s, lev)
<1>8. /\ t.trail = SubSeq(s.trail, 1, s.trail_lim[lev + 1])
      /\ t.queue = s.saved[k].queue /\ t.facts = s.saved[k].facts
      /\ t.known = s.saved[k].known \cup Again(s.regs, lev)
      /\ t.qhead = s.trail_lim[lev + 1]
  BY <1>7 DEF n, old
<1>9. t.order_heap = s.order_heap \cup
        {Abs(s.trail[i].lit) : i \in (s.trail_lim[lev + 1] + 1)..Len(s.trail)}
  BY <1>7 DEF n, heap
<1> HIDE DEF t
<1>10. HasFields(t) /\ t.trail_lim = SubSeq(s.trail_lim, 1, lev)
       /\ t.saved = SubSeq(s.saved, 1, k - 1) /\ t.regs = Lowered(s.regs, lev)
  BY <1>7 DEF t
<1> QED  BY <1>8, <1>9, <1>10 DEF t, Cancelled

-----------------------------------------------------------------------------
(* The operations keep the theories in step. *)

\* Shapes of the sequences of the core.
LEMMA ShapedLengths ==
  ASSUME NEW s, Shaped(s)
  PROVE  /\ Len(s.trail) \in Nat /\ Len(s.trail_lim) \in Nat /\ Len(s.saved) \in Nat
         /\ Len(s.regs) \in Nat /\ Len(s.queue) \in Nat /\ Len(s.facts) \in Nat
         /\ DOMAIN s.trail = 1..Len(s.trail) /\ DOMAIN s.trail_lim = 1..Len(s.trail_lim)
         /\ DOMAIN s.saved = 1..Len(s.saved) /\ DOMAIN s.regs = 1..Len(s.regs)
BY SequenceShape DEF Shaped

\* What the theories do not see may change: the reasons of the literals, the heap,
\* how far the clauses were propagated and how many of the facts wait.
LEMMA SyncSame ==
  ASSUME NEW s, NEW in, NEW al \in Nat, Sync(s, in, al),
         NEW t, Shaped(t),
         Len(t.trail) = Len(s.trail),
         \A i \in 1..Len(s.trail) : t.trail[i].lit = s.trail[i].lit
                                      /\ t.trail[i].user = s.trail[i].user,
         t.trail_lim = s.trail_lim, t.facts \o t.queue = s.facts \o s.queue,
         t.known = s.known, t.saved = s.saved, t.regs = s.regs
  PROVE  Sync(t, in, al)
<1>1. Len(s.trail) \in Nat /\ Len(s.saved) \in Nat
  BY ShapedLengths DEF Sync
<1>2. Follows(t.facts \o t.queue, t.trail, Len(t.trail))
  <2>1. Follows(s.facts \o s.queue, s.trail, Len(s.trail))
    BY DEF Sync, InStep
  <2>2. Follows(s.facts \o s.queue, t.trail, Len(s.trail))
    BY <1>1, <2>1, FollowsSame
  <2> QED  BY <2>2
<1>3. PICK m : Marks(s, al, m) /\ Restores(s, m)
  BY DEF Sync, InStep
<1>4. Marks(t, al, m)
  BY <1>3 DEF Marks
<1>5. Restores(t, m)
  <2> SUFFICES ASSUME NEW k \in 1..Len(s.saved)
               PROVE  Follows(s.saved[k].facts \o s.saved[k].queue, t.trail, m[k])
    BY DEF Restores
  <2>1. Follows(s.saved[k].facts \o s.saved[k].queue, s.trail, m[k])
    BY <1>3 DEF Restores
  <2>2. m[k] \in 0..Len(s.trail)
    BY <1>3 DEF Marks
  <2> QED  BY <1>1, <2>1, <2>2, FollowsSame
<1>6. InStep(t, al)
  BY <1>2, <1>4, <1>5 DEF Sync, InStep
<1>7. Registered(t, in, al)
  BY DEF Sync, Registered
<1> QED  BY <1>6, <1>7 DEF Sync

\* A literal is enqueued on the trail and, if the theories know it, in the queue.
LEMMA SyncEnqueue ==
  ASSUME NEW s, NEW in, Sync(s, in, assertionLevel), assertionLevel \in Nat,
         NEW l, NEW from, NEW why
  PROVE  Sync(uncheckedEnqueue(s, l, from, why), in, assertionLevel)
<1> DEFINE al == assertionLevel
           e == [lit |-> l, reason |-> from, user |-> al, why |-> why]
           t == uncheckedEnqueue(s, l, from, why)
           n == Len(s.trail)
<1>1. /\ HasFields(t)
      /\ t.trail = Append(s.trail, e)
      /\ t.queue = IF Abs(l) \in TheoryAtom THEN Append(s.queue, l) ELSE s.queue
      /\ t.trail_lim = s.trail_lim /\ t.facts = s.facts /\ t.known = s.known
      /\ t.saved = s.saved /\ t.regs = s.regs
  BY EnqueueFields DEF Sync, Shaped
<1> HIDE DEF t
<1>2. /\ Shaped(s) /\ IsSequence(s.trail) /\ IsSequence(s.queue) /\ IsSequence(s.facts)
      /\ n \in Nat /\ Len(s.saved) \in Nat /\ DOMAIN s.trail = 1..n
  BY ShapedLengths DEF Sync, Shaped
<1>3. /\ IsSequence(t.trail) /\ Len(t.trail) = n + 1 /\ t.trail[n + 1] = e
      /\ \A i \in 1..n : t.trail[i] = s.trail[i]
  BY <1>1, <1>2, SequenceAppend
<1>4. IsSequence(t.queue)
  BY <1>1, <1>2, SequenceAppend
<1>5. DOMAIN t.trail = 1..(n + 1)
  BY <1>3, SequenceShape
<1>6. \A i \in 1..(n + 1) : i \in 1..n \/ i = n + 1
  BY <1>2
<1>7. Shaped(t)
  <2>1. DOMAIN e = {"lit", "reason", "user", "why"}
    OBVIOUS
  <2>2. \A i \in DOMAIN t.trail : DOMAIN t.trail[i] = {"lit", "reason", "user", "why"}
    BY <1>2, <1>3, <1>5, <1>6, <2>1 DEF Shaped
  <2> QED  BY <1>1, <1>2, <1>3, <1>4, <2>2 DEF Shaped
<1>8. Follows(t.facts \o t.queue, t.trail, n + 1)
  <2> DEFINE q == s.facts \o s.queue
  <2>1. IsSequence(q)
    BY <1>2, SequenceConcat
  <2>2. Follows(q, s.trail, n)
    BY DEF Sync, InStep
  <2>3. Follows(q, t.trail, n)
    <3>1. (\A i \in 1..n : t.trail[i].lit = s.trail[i].lit) /\ n \in 0..n
      BY <1>2, <1>3
    <3> HIDE DEF q
    <3> QED  BY <1>2, <2>2, <3>1, FollowsSame
  <2>4. Follows(IF Abs(l) \in TheoryAtom THEN Append(q, l) ELSE q, t.trail, n + 1)
    <3>1. t.trail[n + 1].lit = l
      BY <1>3
    <3> HIDE DEF q
    <3> QED  BY <1>2, <2>1, <2>3, <3>1, FollowsNext
  <2>5. t.facts \o t.queue = IF Abs(l) \in TheoryAtom THEN Append(q, l) ELSE q
    <3>1. s.facts \o Append(s.queue, l) = Append(q, l)
      BY <1>2, ConcatAppendQueue, Zenon
    <3> QED  BY <1>1, <3>1
  <2> QED  BY <2>4, <2>5
<1>9. PICK m : Marks(s, al, m) /\ Restores(s, m)
  BY DEF Sync, InStep
<1>10. Marks(t, al, m)
  <2>1. m \in [1..Len(t.saved) -> 0..Len(t.trail)]
    BY <1>1, <1>2, <1>3, <1>9 DEF Marks
  <2>2. ASSUME NEW k \in 1..al, NEW i \in 1..(n + 1)
        PROVE  IF i <= m[k] THEN t.trail[i].user < k ELSE t.trail[i].user >= k
    <3>1. k \in 1..Len(s.saved)
      BY <1>2, ShapedLengths DEF Sync, InStep
    <3>2. m[k] \in 0..n
      BY <1>9, <3>1 DEF Marks
    <3>3. CASE i \in 1..n
      BY <1>3, <1>9, <3>3 DEF Marks
    <3>4. CASE i = n + 1
      <4>1. ~ (i <= m[k])
        BY <1>2, <3>2, <3>4
      <4>2. t.trail[i].user = al
        BY <1>3, <3>4
      <4> QED  BY <4>1, <4>2
    <3> QED  BY <1>6, <3>3, <3>4
  <2> QED  BY <1>1, <1>3, <1>9, <2>1, <2>2 DEF Marks
<1>11. Restores(t, m)
  <2> SUFFICES ASSUME NEW k \in 1..Len(s.saved)
               PROVE  Follows(s.saved[k].facts \o s.saved[k].queue, t.trail, m[k])
    BY <1>1 DEF Restores
  <2>1. Follows(s.saved[k].facts \o s.saved[k].queue, s.trail, m[k])
    BY <1>9 DEF Restores
  <2>2. m[k] \in 0..n
    BY <1>9 DEF Marks
  <2> QED  BY <1>2, <1>3, <2>1, <2>2, FollowsSame
<1>12. \A i \in 1..Len(t.trail) : t.trail[i].user \in 0..al
  <2>1. t.trail[n + 1].user \in 0..al
    BY <1>3
  <2>2. \A i \in 1..n : t.trail[i].user \in 0..al
    <3>1. \A i \in 1..n : s.trail[i].user \in 0..al
      BY DEF Sync, InStep
    <3> QED  BY <1>3, <3>1
  <2>3. Len(t.trail) = n + 1
    BY <1>3
  <2> QED  BY <1>6, <2>1, <2>2, <2>3
<1>13. InStep(t, al)
  BY <1>1, <1>3, <1>8, <1>10, <1>11, <1>12 DEF Sync, InStep
<1>14. Registered(t, in, al)
  BY <1>1 DEF Sync, Registered
<1>15. Sync(t, in, al)
  BY <1>7, <1>13, <1>14 DEF Sync
<1> QED  BY <1>15 DEF t

\* A context push marks the end of the trail.
PushedMarks(s, m) ==
  [k \in 1..(Len(s.saved) + 1) |-> IF k = Len(s.saved) + 1 THEN Len(s.trail) ELSE m[k]]

\* A push marks the present length of the trail.
LEMMA PushMarks ==
  ASSUME NEW s, Shaped(s), NEW al \in Nat, InStep(s, al), NEW m, Marks(s, al, m), Restores(s, m),
         NEW t, t.trail = s.trail,
         t.saved = Append(s.saved, [queue |-> s.queue, facts |-> s.facts, known |-> s.known])
  PROVE  LET p == PushedMarks(s, m) IN
         /\ IsSequence(t.saved) /\ Len(t.saved) = Len(s.saved) + 1
         /\ DOMAIN t.saved = 1..(Len(s.saved) + 1)
         /\ \A k \in 1..Len(s.saved) : t.saved[k] = s.saved[k] /\ p[k] = m[k]
         /\ t.saved[Len(s.saved) + 1] = [queue |-> s.queue, facts |-> s.facts,
                                         known |-> s.known]
         /\ p[Len(s.saved) + 1] = Len(s.trail)
         /\ \A k \in DOMAIN t.saved : IsSequence(t.saved[k].queue) /\ IsSequence(t.saved[k].facts)
         /\ p \in [1..Len(t.saved) -> 0..Len(t.trail)]
         /\ \A j, k \in 1..Len(t.saved) : j <= k => p[j] <= p[k]
         /\ Restores(t, p)
<1> DEFINE c == [queue |-> s.queue, facts |-> s.facts, known |-> s.known]
           n == Len(s.saved)
           p == PushedMarks(s, m)
<1>1. /\ n \in Nat /\ Len(s.trail) \in Nat /\ IsSequence(s.saved) /\ DOMAIN s.saved = 1..n
      /\ IsSequence(s.queue) /\ IsSequence(s.facts)
  BY ShapedLengths DEF Shaped
<1>2. /\ IsSequence(t.saved) /\ Len(t.saved) = n + 1 /\ t.saved[n + 1] = c
      /\ \A k \in 1..n : t.saved[k] = s.saved[k]
  BY <1>1, SequenceAppend
<1>3. DOMAIN t.saved = 1..(n + 1)
  BY <1>2, SequenceShape
<1>4. \A k \in 1..(n + 1) : k \in 1..n \/ k = n + 1
  BY <1>1
<1>5. p[n + 1] = Len(s.trail) /\ \A k \in 1..n : p[k] = m[k]
  BY <1>1 DEF PushedMarks
<1>6. \A k \in 1..n : m[k] \in 0..Len(s.trail)
  BY DEF Marks
<1>7. \A k \in 1..(n + 1) : p[k] \in 0..Len(s.trail)
  <2> DEFINE w == Len(s.trail)
  <2>1. \A k \in 1..n : p[k] \in 0..w
    BY <1>5, <1>6
  <2>2. p[n + 1] = w /\ w \in 0..w
    BY <1>1, <1>5
  <2> HIDE DEF n, p, w
  <2>3. \A k \in 1..(n + 1) : p[k] \in 0..w
    BY <1>4, <2>1, <2>2
  <2> QED  BY <2>3 DEF w
<1>8. p \in [1..(n + 1) -> 0..Len(s.trail)]
  BY <1>7 DEF PushedMarks
<1>9. ASSUME NEW j \in 1..(n + 1), NEW k \in 1..(n + 1), j <= k
      PROVE  p[j] <= p[k]
  <2>1. CASE k = n + 1
    BY <1>1, <1>5, <1>7, <2>1
  <2>2. CASE k \in 1..n
    <3>1. j \in 1..n
      BY <1>1, <1>9, <2>2
    <3> QED  BY <1>5, <1>9, <2>2, <3>1 DEF Marks
  <2> QED  BY <1>4, <2>1, <2>2
<1>10. ASSUME NEW k \in 1..(n + 1)
       PROVE  Follows(t.saved[k].facts \o t.saved[k].queue, s.trail, p[k])
  <2>1. CASE k = n + 1
    <3>1. t.saved[k].facts = s.facts /\ t.saved[k].queue = s.queue /\ p[k] = Len(s.trail)
      BY <1>2, <1>5, <2>1
    <3> QED  BY <3>1 DEF InStep
  <2>2. CASE k \in 1..n
    BY <1>2, <1>5, <2>2 DEF Restores
  <2> QED  BY <1>4, <2>1, <2>2
<1>11. ASSUME NEW k \in 1..(n + 1)
       PROVE  IsSequence(t.saved[k].queue) /\ IsSequence(t.saved[k].facts)
  <2>1. CASE k = n + 1
    BY <1>1, <1>2, <2>1
  <2>2. CASE k \in 1..n
    BY <1>1, <1>2, <2>2 DEF Shaped
  <2> QED  BY <1>4, <2>1, <2>2
<1>12. Restores(t, p)
  BY <1>2, <1>10 DEF Restores
<1> HIDE DEF p
<1> QED  BY <1>2, <1>3, <1>5, <1>8, <1>9, <1>11, <1>12 DEF p

\* A decision level begins.
LEMMA SyncNewLevel ==
  ASSUME NEW s, NEW in, NEW al \in Nat, Sync(s, in, al)
  PROVE  Sync(newDecisionLevel(s), in, al)
<1> DEFINE t == newDecisionLevel(s)
           n == Len(s.saved)
           d == Len(s.trail_lim)
<1>1. /\ HasFields(t)
      /\ t.trail_lim = Append(s.trail_lim, Len(s.trail))
      /\ t.saved = Append(s.saved, [queue |-> s.queue, facts |-> s.facts,
                                    known |-> s.known])
      /\ t.trail = s.trail /\ t.queue = s.queue
      /\ t.facts = s.facts /\ t.known = s.known /\ t.regs = s.regs
  BY NewLevelFields DEF Sync, Shaped
<1> HIDE DEF t
<1>2. Shaped(s) /\ d \in Nat /\ n \in Nat /\ n = al + d /\ IsSequence(s.trail_lim) /\ InStep(s, al)
  BY ShapedLengths DEF Sync, Shaped, InStep
<1>3. /\ IsSequence(t.trail_lim) /\ Len(t.trail_lim) = d + 1
      /\ t.trail_lim[d + 1] = Len(s.trail)
      /\ \A j \in 1..d : t.trail_lim[j] = s.trail_lim[j]
  BY <1>1, <1>2, SequenceAppend
<1>4. PICK m : Marks(s, al, m) /\ Restores(s, m)
  BY DEF Sync, InStep
<1> DEFINE p == PushedMarks(s, m)
<1>5. /\ IsSequence(t.saved) /\ Len(t.saved) = n + 1
      /\ DOMAIN t.saved = 1..(n + 1)
      /\ \A k \in 1..n : t.saved[k] = s.saved[k] /\ p[k] = m[k]
      /\ t.saved[n + 1] = [queue |-> s.queue, facts |-> s.facts, known |-> s.known]
      /\ p[n + 1] = Len(s.trail)
      /\ \A k \in DOMAIN t.saved : IsSequence(t.saved[k].queue) /\ IsSequence(t.saved[k].facts)
      /\ p \in [1..Len(t.saved) -> 0..Len(t.trail)]
      /\ \A j, k \in 1..Len(t.saved) : j <= k => p[j] <= p[k]
      /\ Restores(t, p)
  BY <1>1, <1>2, <1>4, PushMarks
<1> HIDE DEF p
<1>6. Shaped(t)
  BY <1>1, <1>2, <1>3, <1>5 DEF Shaped
<1>7. Marks(t, al, p)
  <2>1. ASSUME NEW j \in 1..(d + 1)
        PROVE  p[al + j] = t.trail_lim[j]
    <3>1. CASE j = d + 1
      <4>1. al + j = n + 1
        BY <1>2, <3>1
      <4> QED  BY <1>3, <1>5, <3>1, <4>1
    <3>2. CASE j \in 1..d
      <4>1. al + j \in 1..n
        BY <1>2, <3>2
      <4> QED  BY <1>3, <1>4, <1>5, <3>2, <4>1 DEF Marks
    <3>3. j = d + 1 \/ j \in 1..d
      BY <1>2
    <3> QED  BY <3>1, <3>2, <3>3
  <2>2. \A k \in 1..al : p[k] = m[k]
    BY <1>2, <1>5
  <2> QED  BY <1>1, <1>3, <1>4, <1>5, <2>1, <2>2 DEF Marks
<1>8. InStep(t, al)
  <2>1. Len(t.saved) = al + Len(t.trail_lim)
    BY <1>2, <1>3, <1>5
  <2> QED  BY <1>1, <1>5, <1>7, <2>1 DEF Sync, InStep
<1>9. Registered(t, in, al)
  <2>1. ASSUME NEW j \in 1..(d + 1), NEW v \in TheoryAtom, in[v] # -1
        PROVE  \/ v \in t.saved[al + j].known
               \/ \E r \in DOMAIN t.regs : t.regs[r].var = v /\ t.regs[r].level >= j
    <3>1. CASE j = d + 1
      <4>1. al + j = n + 1
        BY <1>2, <3>1
      <4>2. v \in s.known
        BY <2>1 DEF Sync, Registered
      <4> QED  BY <1>5, <4>1, <4>2
    <3>2. CASE j \in 1..d
      <4>1. al + j \in 1..n
        BY <1>2, <3>2
      <4>2. t.saved[al + j] = s.saved[al + j]
        BY <1>5, <4>1
      <4>3. \/ v \in s.saved[al + j].known
            \/ \E r \in DOMAIN s.regs : s.regs[r].var = v /\ s.regs[r].level >= j
        BY <2>1, <3>2 DEF Sync, Registered
      <4> QED  BY <1>1, <4>2, <4>3
    <3>3. j = d + 1 \/ j \in 1..d
      BY <1>2
    <3> QED  BY <3>1, <3>2, <3>3
  <2>2. \A k \in 1..al : t.saved[k] = s.saved[k]
    BY <1>2, <1>5
  <2>3. \A r \in DOMAIN t.regs : t.regs[r].level \in 0..Len(t.trail_lim)
    BY <1>1, <1>2, <1>3 DEF Sync, Registered
  <2> QED  BY <1>1, <1>3, <2>1, <2>2, <2>3 DEF Sync, Registered
<1>10. Sync(t, in, al)
  BY <1>6, <1>8, <1>9 DEF Sync
<1> QED  BY <1>10 DEF t

\* At decision level 0 a context push begins a user level.
LEMMA SyncPush ==
  ASSUME NEW s, NEW in, NEW al \in Nat, Sync(s, in, al), Len(s.trail_lim) = 0
  PROVE  Sync(ContextPush(s), in, al + 1)
<1> DEFINE t == ContextPush(s)
           n == Len(s.saved)
<1>1. /\ HasFields(t)
      /\ t.saved = Append(s.saved, [queue |-> s.queue, facts |-> s.facts,
                                    known |-> s.known])
      /\ t.trail = s.trail /\ t.trail_lim = s.trail_lim /\ t.queue = s.queue
      /\ t.facts = s.facts /\ t.known = s.known /\ t.regs = s.regs
  BY PushFields DEF Sync, Shaped
<1> HIDE DEF t
<1>2. Shaped(s) /\ n = al /\ InStep(s, al) /\ Len(s.trail) \in Nat
  BY ShapedLengths DEF Sync, InStep
<1>3. PICK m : Marks(s, al, m) /\ Restores(s, m)
  BY DEF Sync, InStep
<1> DEFINE p == PushedMarks(s, m)
<1>4. /\ IsSequence(t.saved) /\ Len(t.saved) = n + 1
      /\ DOMAIN t.saved = 1..(n + 1)
      /\ \A k \in 1..n : t.saved[k] = s.saved[k] /\ p[k] = m[k]
      /\ t.saved[n + 1] = [queue |-> s.queue, facts |-> s.facts, known |-> s.known]
      /\ p[n + 1] = Len(s.trail)
      /\ \A k \in DOMAIN t.saved : IsSequence(t.saved[k].queue) /\ IsSequence(t.saved[k].facts)
      /\ p \in [1..Len(t.saved) -> 0..Len(t.trail)]
      /\ \A j, k \in 1..Len(t.saved) : j <= k => p[j] <= p[k]
      /\ Restores(t, p)
  BY <1>1, <1>2, <1>3, PushMarks
<1> HIDE DEF p
<1>5. Shaped(t)
  BY <1>1, <1>2, <1>4 DEF Shaped
<1>6. \A i \in 1..Len(s.trail) : s.trail[i].user \in 0..al
  BY DEF Sync, InStep
<1>7. \A k \in 1..(al + 1) : k \in 1..al \/ k = al + 1
  OBVIOUS
<1>8. Marks(t, al + 1, p)
  <2>1. ASSUME NEW k \in 1..(al + 1), NEW i \in 1..Len(s.trail)
        PROVE  IF i <= p[k] THEN s.trail[i].user < k ELSE s.trail[i].user >= k
    <3>1. CASE k = al + 1
      <4>1. p[k] = Len(s.trail)
        BY <1>2, <1>4, <3>1
      <4>2. i <= p[k] /\ s.trail[i].user < k
        BY <1>2, <1>6, <3>1, <4>1
      <4> QED  BY <4>2
    <3>2. CASE k \in 1..al
      BY <1>2, <1>3, <1>4, <3>2 DEF Marks
    <3> QED  BY <1>7, <3>1, <3>2
  <2> QED  BY <1>1, <1>4, <2>1 DEF Marks
<1>9. InStep(t, al + 1)
  <2>1. \A i \in 1..Len(s.trail) : s.trail[i].user \in 0..(al + 1)
    BY <1>6
  <2>2. Len(t.saved) = al + 1 + Len(t.trail_lim)
    <3>1. Len(t.trail_lim) = 0 /\ Len(t.saved) = al + 1
      BY <1>1, <1>2, <1>4
    <3> QED  BY <3>1
  <2> QED  BY <1>1, <1>4, <1>8, <2>1, <2>2 DEF Sync, InStep
<1>10. Registered(t, in, al + 1)
  <2>1. \A v \in TheoryAtom : in[v] \in {-1} \cup 0..(al + 1)
    BY DEF Sync, Registered
  <2>2. ASSUME NEW k \in 1..(al + 1), NEW v \in TheoryAtom, in[v] \in 0..(k - 1)
        PROVE  v \in t.saved[k].known
    <3>1. CASE k = al + 1
      <4>1. v \in s.known
        BY <2>2 DEF Sync, Registered
      <4> QED  BY <1>2, <1>4, <3>1, <4>1
    <3>2. CASE k \in 1..al
      BY <1>2, <1>4, <2>2, <3>2 DEF Sync, Registered
    <3> QED  BY <1>7, <3>1, <3>2
  <2>3. ~ \E j \in 1..Len(t.trail_lim) : TRUE
    BY <1>1
  <2>4. /\ \A v \in TheoryAtom : in[v] # -1 => v \in t.known
        /\ \A r \in DOMAIN t.regs : t.regs[r].level \in 0..Len(t.trail_lim)
        /\ \A q, r \in DOMAIN t.regs : q <= r => t.regs[q].level <= t.regs[r].level
    BY <1>1 DEF Sync, Registered
  <2> QED  BY <2>1, <2>2, <2>3, <2>4 DEF Registered
<1>11. Sync(t, in, al + 1)
  BY <1>5, <1>9, <1>10 DEF Sync
<1> QED  BY <1>11 DEF t

\* t has the contexts of s before the push k, of which p are the marks.
MarkedBelow(s, m, k, t, p) ==
  /\ IsSequence(t.saved) /\ Len(t.saved) = k - 1 /\ DOMAIN t.saved = 1..(k - 1)
  /\ \A j \in 1..(k - 1) : t.saved[j] = s.saved[j] /\ p[j] = m[j]
  /\ IsSequence(t.facts) /\ IsSequence(t.queue)
  /\ \A j \in DOMAIN t.saved : IsSequence(t.saved[j].queue) /\ IsSequence(t.saved[j].facts)
  /\ p \in [1..Len(t.saved) -> 0..Len(t.trail)]
  /\ \A i, j \in 1..Len(t.saved) : i <= j => p[i] <= p[j]
  /\ Restores(t, p)
  /\ Follows(t.facts \o t.queue, t.trail, Len(t.trail))

\* t has the contexts of s before the push k, and the trail up to the mark of that push.
CutAt(s, m, k, t) ==
  /\ t.saved = SubSeq(s.saved, 1, k - 1)
  /\ t.facts = s.saved[k].facts /\ t.queue = s.saved[k].queue
  /\ Len(t.trail) = m[k] /\ \A i \in 1..m[k] : t.trail[i].lit = s.trail[i].lit

\* Context pops to before the push k, with the trail cut at the mark of that push.
LEMMA PopMarks ==
  ASSUME NEW s, Shaped(s), NEW al \in Nat, InStep(s, al), NEW m, Marks(s, al, m), Restores(s, m),
         NEW k \in 1..Len(s.saved), NEW t, CutAt(s, m, k, t)
  PROVE  MarkedBelow(s, m, k, t, [j \in 1..(k - 1) |-> m[j]])
<1> DEFINE n == Len(s.saved)
           p == [j \in 1..(k - 1) |-> m[j]]
<1>1. /\ n \in Nat /\ Len(s.trail) \in Nat /\ IsSequence(s.saved) /\ DOMAIN s.saved = 1..n
      /\ k - 1 \in 0..n /\ k \in 1..n
  BY ShapedLengths DEF Shaped
<1>2. /\ IsSequence(t.saved) /\ Len(t.saved) = k - 1
      /\ \A j \in 1..(k - 1) : t.saved[j] = s.saved[j]
  BY <1>1, SequencePrefix DEF CutAt
<1>3. DOMAIN t.saved = 1..(k - 1)
  BY <1>2, SequenceShape
<1>4. \A j \in 1..(k - 1) : j \in 1..n /\ p[j] = m[j] /\ j <= k
  BY <1>1
<1>5. \A j \in 1..(k - 1) : m[j] \in 0..m[k]
  <2>1. \A j \in 1..n : m[j] \in 0..Len(s.trail)
    BY DEF Marks
  <2>2. \A j \in 1..(k - 1) : m[j] <= m[k]
    BY <1>1, <1>4 DEF Marks
  <2> HIDE DEF n
  <2> QED  BY <1>1, <1>4, <2>1, <2>2
<1>6. p \in [1..(k - 1) -> 0..m[k]]
  BY <1>5
<1>7. \A i, j \in 1..(k - 1) : i <= j => p[i] <= p[j]
  BY <1>4 DEF Marks
<1>8. IsSequence(t.facts) /\ IsSequence(t.queue)
  BY <1>1 DEF Shaped, CutAt
<1>9. \A j \in 1..(k - 1) : IsSequence(t.saved[j].queue) /\ IsSequence(t.saved[j].facts)
  BY <1>1, <1>2, <1>4 DEF Shaped
<1>10. m[k] \in 0..Len(s.trail) /\ m[k] \in Nat
  BY <1>1 DEF Marks
<1>11. Restores(t, p)
  <2> SUFFICES ASSUME NEW j \in 1..(k - 1)
               PROVE  Follows(t.saved[j].facts \o t.saved[j].queue, t.trail, p[j])
    BY <1>2 DEF Restores
  <2>1. Follows(s.saved[j].facts \o s.saved[j].queue, s.trail, m[j])
    BY <1>4 DEF Restores
  <2>2. Follows(s.saved[j].facts \o s.saved[j].queue, t.trail, m[j])
    BY <1>5, <1>10, <2>1, FollowsSame DEF CutAt
  <2> QED  BY <1>2, <1>4, <2>2
<1>12. Follows(t.facts \o t.queue, t.trail, Len(t.trail))
  <2>1. Follows(s.saved[k].facts \o s.saved[k].queue, s.trail, m[k])
    BY <1>1 DEF Restores
  <2>2. m[k] \in 0..m[k]
    BY <1>10
  <2>3. Follows(s.saved[k].facts \o s.saved[k].queue, t.trail, m[k])
    BY <1>10, <2>1, <2>2, FollowsSame DEF CutAt
  <2> QED  BY <2>3 DEF CutAt
<1> HIDE DEF p
<1>13. MarkedBelow(s, m, k, t, p)
  BY <1>2, <1>3, <1>4, <1>6, <1>7, <1>8, <1>9, <1>11, <1>12 DEF MarkedBelow, CutAt
<1> QED  BY <1>13 DEF p

\* variables_to_register after cancelUntil(lev): the levels are cut at lev.
LEMMA LoweredLevels ==
  ASSUME NEW regs, IsSequence(regs), NEW lev \in Nat,
         \A r \in DOMAIN regs : IsRegistration(regs[r]),
         \A r \in DOMAIN regs : regs[r].level \in Nat,
         \A q, r \in DOMAIN regs : q <= r => regs[q].level <= regs[r].level
  PROVE  LET low == Lowered(regs, lev) IN
         /\ IsSequence(low) /\ DOMAIN low = DOMAIN regs
         /\ \A r \in DOMAIN regs :
              /\ IsRegistration(low[r])
              /\ low[r].var = regs[r].var
              /\ low[r].level = IF regs[r].level > lev THEN lev ELSE regs[r].level
         /\ \A r \in DOMAIN regs : regs[r].level > lev => regs[r].var \in Again(regs, lev)
<1> DEFINE n == Len(regs)
           low == Lowered(regs, lev)
<1>1. n \in Nat /\ DOMAIN regs = 1..n
  BY SequenceShape
<1>2. low = [r \in 1..n |-> low[r]] /\ DOMAIN low = 1..n
  BY <1>1 DEF Lowered
<1>3. IsSequence(low)
  <2> HIDE DEF low
  <2> QED  BY <1>1, <1>2, SequenceFunction
<1>4. \A r \in 1..n : r \in Above(regs, lev) <=> regs[r].level > lev
  <2> SUFFICES ASSUME NEW r \in 1..n
               PROVE  r \in Above(regs, lev) <=> regs[r].level > lev
    OBVIOUS
  <2>1. r \in Above(regs, lev) => regs[r].level > lev
    BY <1>1 DEF Above
  <2>2. ASSUME regs[r].level > lev, NEW j \in r..n
        PROVE  regs[j].level > lev
    <3>1. j \in 1..n /\ r <= j
      BY <1>1
    <3>2. regs[r].level <= regs[j].level /\ regs[r].level \in Nat /\ regs[j].level \in Nat
      BY <1>1, <3>1
    <3> QED  BY <2>2, <3>2
  <2> QED  BY <1>1, <2>1, <2>2 DEF Above
<1>5. ASSUME NEW r \in 1..n
      PROVE  /\ IsRegistration(low[r])
             /\ low[r].var = regs[r].var
             /\ low[r].level = IF regs[r].level > lev THEN lev ELSE regs[r].level
  <2>1. low[r] = IF r \in Above(regs, lev) THEN [regs[r] EXCEPT !.level = lev] ELSE regs[r]
    BY <1>1 DEF Lowered
  <2>2. regs[r] = [var |-> regs[r].var, level |-> regs[r].level]
    BY <1>1 DEF IsRegistration
  <2>3. [regs[r] EXCEPT !.level = lev] = [var |-> regs[r].var, level |-> lev]
    BY <2>2
  <2> HIDE DEF low
  <2>4. CASE regs[r].level > lev
    BY <1>4, <2>1, <2>3, <2>4 DEF IsRegistration
  <2>5. CASE ~ (regs[r].level > lev)
    BY <1>1, <1>4, <2>1, <2>5
  <2> QED  BY <2>4, <2>5
<1>6. \A r \in 1..n : regs[r].level > lev => regs[r].var \in Again(regs, lev)
  BY <1>4 DEF Again
<1> HIDE DEF low
<1> QED  BY <1>1, <1>2, <1>3, <1>5, <1>6 DEF low

\* The decision levels above lev go.
LEMMA SyncCancelled ==
  ASSUME NEW s, NEW in, NEW al \in Nat, Sync(s, in, al),
         NEW lev \in Nat, NEW d \in Nat, d = Len(s.trail_lim), lev < d,
         NEW k \in Nat, k = al + (lev + 1), k - 1 = al + lev, k \in 1..Len(s.saved),
         NEW t, Cancelled(s, t, lev, k)
  PROVE  Sync(t, in, al) /\ Len(t.trail_lim) = lev
<1> DEFINE n == s.trail_lim[lev + 1]
<1>1. /\ Shaped(s) /\ InStep(s, al) /\ Registered(s, in, al)
      /\ Len(s.trail) \in Nat /\ DOMAIN s.trail = 1..Len(s.trail)
      /\ IsSequence(s.trail_lim) /\ IsSequence(s.trail) /\ IsSequence(s.regs)
  BY ShapedLengths DEF Sync, Shaped
<1>2. lev + 1 \in 1..d /\ lev \in 0..d
  OBVIOUS
<1> HIDE DEF n
<1>3. PICK m : Marks(s, al, m) /\ Restores(s, m)
  BY <1>1 DEF InStep
<1>4. n = m[k] /\ n \in 0..Len(s.trail)
  BY <1>2, <1>3 DEF Marks, n
<1>5. /\ IsSequence(t.trail) /\ Len(t.trail) = n
      /\ \A i \in 1..n : t.trail[i] = s.trail[i]
  BY <1>1, <1>4, SequencePrefix DEF Cancelled, n
<1>6. /\ IsSequence(t.trail_lim) /\ Len(t.trail_lim) = lev
      /\ \A j \in 1..lev : t.trail_lim[j] = s.trail_lim[j]
  <2>1. t.trail_lim = SubSeq(s.trail_lim, 1, lev) /\ lev \in 0..Len(s.trail_lim)
    BY <1>2 DEF Cancelled
  <2> QED  BY <1>1, <2>1, SequencePrefix
<1> DEFINE p == [j \in 1..(k - 1) |-> m[j]]
<1>7. MarkedBelow(s, m, k, t, p)
  <2>1. /\ t.saved = SubSeq(s.saved, 1, k - 1)
        /\ t.facts = s.saved[k].facts /\ t.queue = s.saved[k].queue
    BY DEF Cancelled
  <2>2. Len(t.trail) = m[k] /\ \A i \in 1..m[k] : t.trail[i].lit = s.trail[i].lit
    BY <1>4, <1>5
  <2>3. CutAt(s, m, k, t)
    BY <2>1, <2>2 DEF CutAt
  <2> QED  BY <1>1, <1>3, <2>3, PopMarks
<1> HIDE DEF p
<1>8. /\ IsSequence(t.regs) /\ DOMAIN t.regs = DOMAIN s.regs
      /\ \A r \in DOMAIN s.regs :
           /\ IsRegistration(t.regs[r])
           /\ t.regs[r].var = s.regs[r].var
           /\ t.regs[r].level = IF s.regs[r].level > lev THEN lev ELSE s.regs[r].level
      /\ \A r \in DOMAIN s.regs : s.regs[r].level > lev => s.regs[r].var \in Again(s.regs, lev)
  <2>1. t.regs = Lowered(s.regs, lev)
    BY DEF Cancelled
  <2>2. /\ \A r \in DOMAIN s.regs : IsRegistration(s.regs[r]) /\ s.regs[r].level \in Nat
        /\ \A q, r \in DOMAIN s.regs : q <= r => s.regs[q].level <= s.regs[r].level
    BY <1>1 DEF Shaped, Registered
  <2> QED  BY <1>1, <2>1, <2>2, LoweredLevels
<1>9. Shaped(t)
  <2>1. DOMAIN t.trail = 1..n /\ \A i \in 1..n : i \in DOMAIN s.trail
    BY <1>1, <1>4, <1>5, SequenceShape
  <2>2. HasFields(t)
    BY DEF Cancelled
  <2>3. \A i \in DOMAIN t.trail : DOMAIN t.trail[i] = {"lit", "reason", "user", "why"}
    BY <1>1, <1>5, <2>1 DEF Shaped
  <2>4. /\ IsSequence(t.facts) /\ IsSequence(t.queue) /\ IsSequence(t.saved)
        /\ \A j \in DOMAIN t.saved : IsSequence(t.saved[j].queue) /\ IsSequence(t.saved[j].facts)
    BY <1>7 DEF MarkedBelow
  <2>5. IsSequence(t.regs) /\ \A r \in DOMAIN t.regs : IsRegistration(t.regs[r])
    BY <1>8
  <2> QED  BY <1>5, <1>6, <2>2, <2>3, <2>4, <2>5 DEF Shaped
<1>10. Marks(t, al, p)
  <2>1. \A j \in 1..lev : p[al + j] = t.trail_lim[j]
    <3> SUFFICES ASSUME NEW j \in 1..lev
                 PROVE  p[al + j] = t.trail_lim[j]
      OBVIOUS
    <3>1. al + j \in 1..(k - 1) /\ j \in 1..d
      BY <1>2
    <3> QED  BY <1>3, <1>6, <1>7, <3>1 DEF Marks, MarkedBelow
  <2>2. ASSUME NEW j \in 1..al, NEW i \in 1..n
        PROVE  IF i <= p[j] THEN t.trail[i].user < j ELSE t.trail[i].user >= j
    <3>1. p[j] = m[j]
      <4>1. j \in 1..(k - 1)
        OBVIOUS
      <4> QED  BY <1>7, <4>1 DEF MarkedBelow
    <3>2. t.trail[i] = s.trail[i] /\ i \in 1..Len(s.trail)
      BY <1>4, <1>5
    <3> QED  BY <1>3, <3>1, <3>2 DEF Marks
  <2> QED  BY <1>5, <1>6, <1>7, <2>1, <2>2 DEF Marks, MarkedBelow
<1>11. InStep(t, al)
  <2>1. ASSUME NEW i \in 1..n
        PROVE  t.trail[i].user \in 0..al
    <3>1. t.trail[i] = s.trail[i] /\ i \in 1..Len(s.trail)
      BY <1>4, <1>5
    <3> QED  BY <1>1, <3>1 DEF InStep
  <2> QED  BY <1>5, <1>6, <1>7, <1>10, <2>1 DEF InStep, MarkedBelow
<1>12. ASSUME NEW v \in TheoryAtom, in[v] # -1
       PROVE  v \in t.known
  <2>1. \/ v \in s.saved[k].known
        \/ \E r \in DOMAIN s.regs : s.regs[r].var = v /\ s.regs[r].level >= lev + 1
    BY <1>1, <1>2, <1>12 DEF Registered
  <2>2. \A r \in DOMAIN s.regs : s.regs[r].level \in Nat
    BY <1>1 DEF Registered
  <2> QED  BY <1>8, <2>1, <2>2 DEF Cancelled
<1>13. ASSUME NEW j \in 1..lev, NEW v \in TheoryAtom, in[v] # -1
       PROVE  \/ v \in t.saved[al + j].known
              \/ \E r \in DOMAIN t.regs : t.regs[r].var = v /\ t.regs[r].level >= j
  <2>1. al + j \in 1..(k - 1) /\ j \in 1..d
    BY <1>2
  <2>2. \/ v \in s.saved[al + j].known
        \/ \E r \in DOMAIN s.regs : s.regs[r].var = v /\ s.regs[r].level >= j
    BY <1>1, <1>13, <2>1 DEF Registered
  <2>3. CASE v \in s.saved[al + j].known
    BY <1>7, <2>1, <2>3 DEF MarkedBelow
  <2>4. ASSUME NEW r \in DOMAIN s.regs, s.regs[r].var = v, s.regs[r].level >= j
        PROVE  r \in DOMAIN t.regs /\ t.regs[r].var = v /\ t.regs[r].level >= j
    <3> DEFINE a == s.regs[r].level
               b == t.regs[r].level
    <3>1. r \in DOMAIN t.regs /\ t.regs[r].var = v /\ b = IF a > lev THEN lev ELSE a
      BY <1>8, <2>4
    <3>2. a \in Nat /\ a >= j
      BY <1>1, <2>4 DEF Registered
    <3> HIDE DEF a, b
    <3>3. b >= j
      BY <3>1, <3>2
    <3> QED  BY <3>1, <3>3 DEF b
  <2> QED  BY <2>2, <2>3, <2>4
<1>14. ASSUME NEW j \in 1..al, NEW v \in TheoryAtom, in[v] \in 0..(j - 1)
       PROVE  v \in t.saved[j].known
  <2>1. t.saved[j] = s.saved[j]
    BY <1>7 DEF MarkedBelow
  <2> QED  BY <1>1, <1>14, <2>1 DEF Registered
<1>15. \A r \in DOMAIN s.regs : s.regs[r].level \in Nat
  BY <1>1 DEF Registered
<1>16. \A r \in DOMAIN t.regs : t.regs[r].level \in 0..lev
  BY <1>8, <1>15
<1>17. \A q, r \in DOMAIN t.regs : q <= r => t.regs[q].level <= t.regs[r].level
  <2> SUFFICES ASSUME NEW q \in DOMAIN s.regs, NEW r \in DOMAIN s.regs, q <= r
               PROVE  t.regs[q].level <= t.regs[r].level
    BY <1>8
  <2>1. s.regs[q].level <= s.regs[r].level
    BY <1>1 DEF Registered
  <2> QED  BY <1>8, <1>15, <2>1
<1>18. Registered(t, in, al)
  BY <1>1, <1>6, <1>12, <1>13, <1>14, <1>16, <1>17 DEF Registered
<1> QED  BY <1>6, <1>9, <1>11, <1>18 DEF Sync

\* cancelUntil keeps the theories in step, and leaves lev decision levels.
LEMMA SyncCancel ==
  ASSUME NEW s, NEW in, NEW al \in Nat, Sync(s, in, al), NEW lev \in Nat
  PROVE  /\ Sync(cancelUntil(s, lev), in, al)
         /\ Len(cancelUntil(s, lev).trail_lim) <= lev
<1> DEFINE t == cancelUntil(s, lev)
           d == Len(s.trail_lim)
           w == Len(s.saved)
           k == al + (lev + 1)
<1>1. HasFields(s) /\ IsSequence(s.trail_lim) /\ d \in Nat /\ w = al + d
  BY ShapedLengths DEF Sync, Shaped, InStep
<1>2. CASE d <= lev
  <2>1. t = s
    BY <1>2, Zenon DEF cancelUntil, decisionLevel
  <2> QED  BY <1>2, <2>1
<1>3. CASE lev < d
  <2>1. /\ k = w - (d - lev) + 1 /\ k - 1 = w - (d - lev)
        /\ k \in Nat /\ k - 1 = al + lev /\ k \in 1..w
    <3> HIDE DEF d, w
    <3> QED  BY <1>1, <1>3
  <2> HIDE DEF k
  <2>2. Cancelled(s, t, lev, k)
    <3>1. /\ k = Len(s.saved) - (Len(s.trail_lim) - lev) + 1
          /\ k - 1 = Len(s.saved) - (Len(s.trail_lim) - lev)
      BY <2>1
    <3>2. HasFields(s) /\ IsSequence(s.trail_lim) /\ lev < Len(s.trail_lim)
      BY <1>1, <1>3
    <3> HIDE DEF t
    <3>3. Cancelled(s, cancelUntil(s, lev), lev, k)
      BY <3>1, <3>2, CancelFields
    <3> QED  BY <3>3 DEF t
  <2>3. k = al + (lev + 1)
    BY DEF k
  <2> HIDE DEF t
  <2>4. Sync(t, in, al) /\ Len(t.trail_lim) = lev
    BY <1>1, <1>3, <2>1, <2>2, <2>3, SyncCancelled
  <2> QED  BY <2>4 DEF t
<1> QED
  <2> HIDE DEF d, t
  <2>1. d <= lev \/ lev < d
    BY <1>1
  <2> QED  BY <1>2, <1>3, <2>1 DEF t

\* The entries left by pop() are those up to the mark of the user level.
LEMMA RemainingIsMark ==
  ASSUME NEW t, NEW len \in Nat, len = Len(t), NEW u \in Nat, NEW n \in 0..len,
         \A i \in 1..len : t[i].user \in Nat,
         \A i \in 1..len : IF i <= n THEN t[i].user < u + 1 ELSE t[i].user >= u + 1
  PROVE  Remaining(t, u) = n
<1> DEFINE P(x) == /\ x > 0 => t[x].user <= u
                   /\ \A i \in (x + 1)..len : t[i].user > u
<1>1. P(n)
  <2>1. ASSUME n > 0
        PROVE  t[n].user <= u
    <3>1. n \in 1..len
      BY <2>1
    <3> QED  BY <3>1
  <2>2. ASSUME NEW i \in (n + 1)..len
        PROVE  t[i].user > u
    <3>1. i \in 1..len /\ ~ (i <= n)
      OBVIOUS
    <3> QED  BY <3>1
  <2> QED  BY <2>1, <2>2
<1>2. ASSUME NEW x \in 0..len, P(x)
      PROVE  x = n
  <2>1. CASE x < n
    <3>1. n \in (x + 1)..len /\ n > 0 /\ n \in 1..len
      BY <2>1
    <3>2. t[n].user > u /\ t[n].user <= u /\ t[n].user \in Nat
      BY <1>1, <1>2, <3>1
    <3> QED  BY <3>2
  <2>2. CASE n < x
    <3>1. x \in (n + 1)..len /\ x > 0 /\ x \in 1..len
      BY <2>2
    <3>2. t[x].user > u /\ t[x].user <= u /\ t[x].user \in Nat
      BY <1>1, <1>2, <3>1
    <3> QED  BY <3>2
  <2> QED  BY <2>1, <2>2
<1>3. Remaining(t, u) = CHOOSE x \in 0..len : P(x)
  BY DEF Remaining
<1> HIDE DEF P
<1> QED  BY <1>1, <1>2, <1>3

\* Only the reasons of the entries change.
SameButReasons(t, u) ==
  /\ IsSequence(u) /\ Len(u) = Len(t) /\ DOMAIN u = 1..Len(u)
  /\ \A i \in 1..Len(t) : /\ u[i].lit = t[i].lit /\ u[i].user = t[i].user
                          /\ DOMAIN u[i] = {"lit", "reason", "user", "why"}

\* An entry with another reason is an entry.
LEMMA ReasonChanged ==
  ASSUME NEW e, DOMAIN e = {"lit", "reason", "user", "why"}, NEW r
  PROVE  LET f == [e EXCEPT !.reason = r] IN
         /\ DOMAIN f = {"lit", "reason", "user", "why"}
         /\ f.lit = e.lit /\ f.user = e.user
OBVIOUS

\* removeClause changes reasons only.
LEMMA UnlockedSame ==
  ASSUME NEW t, IsSequence(t), NEW cs,
         \A i \in 1..Len(t) : DOMAIN t[i] = {"lit", "reason", "user", "why"}
  PROVE  SameButReasons(t, Unlocked(t, cs))
<1> DEFINE u == Unlocked(t, cs)
<1>1. Len(t) \in Nat /\ DOMAIN t = 1..Len(t)
  BY SequenceShape
<1>2. /\ u = [i \in 1..Len(t) |-> u[i]] /\ DOMAIN u = 1..Len(t)
      /\ \A i \in 1..Len(t) : u[i] = IF t[i].reason \in cs THEN [t[i] EXCEPT !.reason = Undef]
                                                          ELSE t[i]
  BY <1>1 DEF Unlocked
<1> HIDE DEF u
<1>3. IsSequence(u) /\ Len(u) = Len(t)
  BY <1>1, <1>2, SequenceFunction
<1>4. ASSUME NEW i \in 1..Len(t)
      PROVE  /\ u[i].lit = t[i].lit /\ u[i].user = t[i].user
             /\ DOMAIN u[i] = {"lit", "reason", "user", "why"}
  <2> DEFINE e == t[i]
             f == [e EXCEPT !.reason = Undef]
  <2>1. DOMAIN e = {"lit", "reason", "user", "why"}
    OBVIOUS
  <2>2. /\ DOMAIN f = {"lit", "reason", "user", "why"}
        /\ f.lit = e.lit /\ f.user = e.user
    BY <2>1, ReasonChanged
  <2>3. u[i] = IF e.reason \in cs THEN f ELSE e
    BY <1>2
  <2> HIDE DEF e, f
  <2>4. u[i].lit = e.lit /\ u[i].user = e.user /\ DOMAIN u[i] = {"lit", "reason", "user", "why"}
    BY <2>1, <2>2, <2>3
  <2> QED  BY <2>4 DEF e
<1> QED  BY <1>2, <1>3, <1>4 DEF SameButReasons, u

\* t is s after context pop to the user level u, with the variables above it deleted.
Popped(s, t, u) ==
  /\ HasFields(t)
  /\ SameButReasons(SubSeq(s.trail, 1, Remaining(s.trail, u)), t.trail)
  /\ t.trail_lim = s.trail_lim
  /\ t.queue = s.saved[u + 1].queue /\ t.facts = s.saved[u + 1].facts
  /\ t.known = s.saved[u + 1].known
  /\ t.saved = SubSeq(s.saved, 1, u)
  /\ t.regs = <<>>

\* A user level goes, with its variables.
LEMMA SyncPopped ==
  ASSUME NEW s, NEW in, NEW u \in Nat, Sync(s, in, u + 1), Len(s.trail_lim) = 0,
         NEW t, Popped(s, t, u),
         NEW to, \A v \in TheoryAtom : to[v] = IF in[v] > u THEN -1 ELSE in[v]
  PROVE  Sync(t, to, u)
<1> DEFINE al == u + 1
<1>1. /\ Shaped(s) /\ InStep(s, al) /\ Registered(s, in, al) /\ al \in Nat
      /\ Len(s.trail) \in Nat /\ DOMAIN s.trail = 1..Len(s.trail)
      /\ IsSequence(s.trail) /\ IsSequence(s.trail_lim)
      /\ al \in 1..Len(s.saved) /\ al - 1 = u
  <2>1. /\ Shaped(s) /\ InStep(s, al) /\ Registered(s, in, al) /\ al \in Nat
        /\ Len(s.trail) \in Nat /\ DOMAIN s.trail = 1..Len(s.trail)
        /\ IsSequence(s.trail) /\ IsSequence(s.trail_lim)
    BY ShapedLengths DEF Sync, Shaped
  <2>2. Len(s.saved) = al + Len(s.trail_lim)
    BY <2>1 DEF InStep
  <2>3. Len(s.saved) = al
    BY <2>1, <2>2
  <2> QED  BY <2>1, <2>3
<1>2. PICK m : Marks(s, al, m) /\ Restores(s, m)
  BY <1>1 DEF InStep
<1> DEFINE n == m[al]
<1>3. n \in 0..Len(s.trail)
  BY <1>1, <1>2 DEF Marks
<1>4. \A i \in 1..Len(s.trail) : s.trail[i].user \in Nat /\ s.trail[i].user <= al
  BY <1>1 DEF InStep
<1>5. \A i \in 1..Len(s.trail) : IF i <= n THEN s.trail[i].user < al ELSE s.trail[i].user >= al
  <2>1. al \in 1..al
    BY <1>1
  <2> QED  BY <1>2, <2>1 DEF Marks
<1> HIDE DEF n
<1>6. Remaining(s.trail, u) = n
  BY <1>1, <1>3, <1>4, <1>5, RemainingIsMark
<1>7. /\ IsSequence(t.trail) /\ Len(t.trail) = n /\ DOMAIN t.trail = 1..n
      /\ \A i \in 1..n : /\ t.trail[i].lit = s.trail[i].lit /\ t.trail[i].user = s.trail[i].user
                         /\ DOMAIN t.trail[i] = {"lit", "reason", "user", "why"}
                         /\ i \in 1..Len(s.trail)
  <2> DEFINE b == SubSeq(s.trail, 1, n)
  <2>1. IsSequence(b) /\ Len(b) = n /\ \A i \in 1..n : b[i] = s.trail[i]
    BY <1>1, <1>3, SequencePrefix
  <2>2. SameButReasons(b, t.trail)
    BY <1>6 DEF Popped
  <2> HIDE DEF b
  <2>3. \A i \in 1..n : i \in 1..Len(s.trail)
    BY <1>1, <1>3
  <2> QED  BY <2>1, <2>2, <2>3 DEF SameButReasons
<1> DEFINE p == [j \in 1..(al - 1) |-> m[j]]
<1>8. MarkedBelow(s, m, al, t, p)
  <2>1. /\ t.saved = SubSeq(s.saved, 1, al - 1)
        /\ t.facts = s.saved[al].facts /\ t.queue = s.saved[al].queue
    BY <1>1 DEF Popped
  <2>2. Len(t.trail) = m[al] /\ \A i \in 1..m[al] : t.trail[i].lit = s.trail[i].lit
    BY <1>7 DEF n
  <2> HIDE DEF al
  <2>3. CutAt(s, m, al, t)
    BY <2>1, <2>2 DEF CutAt
  <2> QED  BY <1>1, <1>2, <2>3, PopMarks
<1> HIDE DEF p
<1>9. /\ HasFields(t) /\ t.trail_lim = s.trail_lim /\ t.known = s.saved[al].known
      /\ t.regs = <<>> /\ IsSequence(t.regs) /\ DOMAIN t.regs = {}
  BY SequenceNone DEF Popped
<1>10. Shaped(t)
  BY <1>1, <1>7, <1>8, <1>9 DEF Shaped, MarkedBelow
<1>11. \A k \in 1..u : k \in 1..al /\ k \in 1..(al - 1)
  BY <1>1
<1>12. Marks(t, u, p)
  <2>1. ASSUME NEW k \in 1..u, NEW i \in 1..n
        PROVE  IF i <= p[k] THEN t.trail[i].user < k ELSE t.trail[i].user >= k
    <3>1. p[k] = m[k]
      BY <1>8, <1>11 DEF MarkedBelow
    <3> QED  BY <1>2, <1>7, <1>11, <3>1 DEF Marks
  <2>2. \A j \in 1..Len(t.trail_lim) : p[u + j] = t.trail_lim[j]
    BY <1>9
  <2> QED  BY <1>7, <1>8, <2>1, <2>2 DEF Marks, MarkedBelow
<1>13. InStep(t, u)
  <2>1. \A i \in 1..n : t.trail[i].user \in 0..u
    BY <1>1, <1>4, <1>5, <1>7
  <2>2. Len(t.saved) = u /\ Len(t.trail_lim) = 0
    BY <1>1, <1>8, <1>9 DEF MarkedBelow
  <2>3. Len(t.saved) = u + Len(t.trail_lim)
    BY <2>2
  <2> QED  BY <1>7, <1>8, <1>12, <2>1, <2>3 DEF InStep, MarkedBelow
<1>14. Registered(t, to, u)
  <2>1. ASSUME NEW v \in TheoryAtom
        PROVE  to[v] \in {-1} \cup 0..u /\ (to[v] # -1 => v \in t.known /\ to[v] = in[v])
    <3>1. in[v] \in {-1} \cup 0..al /\ to[v] = IF in[v] > u THEN -1 ELSE in[v]
      BY <1>1 DEF Registered
    <3>2. to[v] \in {-1} \cup 0..u /\ (to[v] # -1 => in[v] \in 0..u /\ to[v] = in[v])
      BY <1>1, <3>1
    <3>3. al \in 1..al /\ al - 1 = u
      BY <1>1
    <3>4. in[v] \in 0..(al - 1) => v \in s.saved[al].known
      BY <1>1, <3>3 DEF Registered
    <3> QED  BY <1>9, <3>2, <3>3, <3>4
  <2>2. ASSUME NEW k \in 1..u, NEW v \in TheoryAtom, to[v] \in 0..(k - 1)
        PROVE  v \in t.saved[k].known
    <3>1. in[v] \in 0..(k - 1)
      BY <2>1, <2>2
    <3>2. t.saved[k] = s.saved[k]
      BY <1>8, <1>11 DEF MarkedBelow
    <3> QED  BY <1>1, <1>11, <3>1, <3>2 DEF Registered
  <2>3. ~ \E j \in 1..Len(t.trail_lim) : TRUE
    BY <1>9
  <2> QED  BY <1>9, <2>1, <2>2, <2>3 DEF Registered
<1> QED  BY <1>10, <1>13, <1>14 DEF Sync

\* SetToSeq lists a finite set.
LEMMA SetToSeqLists ==
  ASSUME NEW S, IsFiniteSet(S)
  PROVE  /\ Cardinality(S) \in Nat
         /\ SetToSeq(S) \in [1..Cardinality(S) -> S]
         /\ \A x \in S : \E i \in 1..Cardinality(S) : SetToSeq(S)[i] = x
<1> DEFINE n == Cardinality(S)
           f == SetToSeq(S)
<1>1. n \in Nat /\ ExistsBijection(1..n, S)
  BY FS_CardinalityType
<1>2. \E g \in [1..n -> S] : IsInjective(g)
  BY <1>1 DEF ExistsBijection, Bijection, Injection
<1>3. f \in [1..n -> S] /\ IsInjective(f)
  BY <1>2 DEF SetToSeq
<1> HIDE DEF f
<1>4. f \in Injection(1..n, S)
  BY <1>3 DEF Injection
<1>5. Cardinality(1..n) = n
  BY <1>1, FS_Interval
<1>6. f \in Surjection(1..n, S)
  BY <1>4, <1>5, FS_Injection
<1>7. \A x \in S : \E i \in 1..n : f[i] = x
  BY <1>6 DEF Surjection
<1> QED  BY <1>1, <1>3, <1>7 DEF f

\* Atoms of the theories that newVar creates.
NewAtoms(C) == NewVars(C) \cap TheoryAtom

\* Theory atoms are atoms, of which there are finitely many.
LEMMA TheoryAtoms ==
  ASSUME problem \in Problems
  PROVE  TheoryAtom \subseteq Atom /\ IsFiniteSet(TheoryAtom)
<1>1. problem.theory \in SUBSET SUBSET Lit
  BY SolverAssumption DEF Problem
<1>2. \A l \in Lit : Abs(l) \in Atom
  <2>1. \A v \in Atom : v \in Nat /\ v > 0
    BY SolverAssumption
  <2> QED  BY <2>1 DEF Lit, Abs
<1>3. TheoryAtom \subseteq Atom
  BY <1>1, <1>2 DEF TheoryAtom, Theory, Vars
<1> QED  BY <1>3, SolverAssumption, FS_Subset

\* e lists the atoms N as introduced at decision level d.
ListsAt(e, N, d) ==
  /\ IsSequence(e)
  /\ \A i \in 1..Len(e) : IsRegistration(e[i]) /\ e[i].level = d /\ e[i].var \in N
  /\ \A v \in N : \E i \in 1..Len(e) : e[i].var = v

\* What newVar does to each field.
LEMMA NewVarFields ==
  ASSUME NEW s, HasFields(s), NEW C, problem \in Problems
  PROVE  LET t == newVar(s, C) IN
         /\ HasFields(t)
         /\ t.known = s.known \cup NewAtoms(C)
         /\ \E e : t.regs = s.regs \o e /\ ListsAt(e, NewAtoms(C), Len(s.trail_lim))
         /\ t.trail = s.trail /\ t.trail_lim = s.trail_lim /\ t.queue = s.queue
         /\ t.facts = s.facts /\ t.saved = s.saved
         /\ t.qhead = s.qhead /\ t.order_heap = s.order_heap \cup NewVars(C)
<1> DEFINE atoms == SetToSeq(NewAtoms(C))
           d == Len(s.trail_lim)
           e == [i \in DOMAIN atoms |-> [var |-> atoms[i], level |-> d]]
           n == Cardinality(NewAtoms(C))
<1>1. newVar(s, C) =
        [s EXCEPT !.order_heap = @ \cup NewVars(C), !.known = @ \cup NewAtoms(C),
                  !.regs = @ \o e]
  BY Zenon DEF newVar, NewAtoms, decisionLevel
<1>2. IsFiniteSet(NewAtoms(C))
  BY TheoryAtoms, FS_Subset DEF NewAtoms
<1>3. /\ n \in Nat /\ DOMAIN atoms = 1..n /\ \A i \in 1..n : atoms[i] \in NewAtoms(C)
      /\ \A x \in NewAtoms(C) : \E i \in 1..n : atoms[i] = x
  BY <1>2, SetToSeqLists
<1> HIDE DEF atoms, n, d
<1>4. /\ e = [i \in 1..n |-> e[i]]
      /\ \A i \in 1..n : e[i] = [var |-> atoms[i], level |-> d]
  BY <1>3
<1> HIDE DEF e
<1>5. IsSequence(e) /\ Len(e) = n
  BY <1>3, <1>4, SequenceFunction
<1>6. \A i \in 1..n : IsRegistration(e[i]) /\ e[i].level = d /\ e[i].var = atoms[i]
  BY <1>4 DEF IsRegistration
<1>7. ListsAt(e, NewAtoms(C), d)
  BY <1>3, <1>5, <1>6 DEF ListsAt
<1>8. LET t == [s EXCEPT !.order_heap = @ \cup NewVars(C), !.known = @ \cup NewAtoms(C),
                         !.regs = @ \o e]
      IN  /\ HasFields(t)
          /\ t.known = s.known \cup NewAtoms(C) /\ t.regs = s.regs \o e
          /\ t.trail = s.trail /\ t.trail_lim = s.trail_lim /\ t.queue = s.queue
          /\ t.facts = s.facts /\ t.saved = s.saved
          /\ t.qhead = s.qhead /\ t.order_heap = s.order_heap \cup NewVars(C)
  BY DEF HasFields, CoreFields
<1> QED  BY <1>1, <1>7, <1>8 DEF d

\* Variables are made at the user level, and registered at the decision level.
LEMMA SyncNewVar ==
  ASSUME NEW s, Sync(s, intro, assertionLevel), assertionLevel \in Nat, problem \in Problems,
         NEW C
  PROVE  Sync(newVar(s, C), introduced(C), assertionLevel)
<1> DEFINE t == newVar(s, C)
           al == assertionLevel
           N == NewAtoms(C)
           d == Len(s.trail_lim)
           to == introduced(C)
<1>1. /\ Shaped(s) /\ HasFields(s) /\ InStep(s, al) /\ Registered(s, intro, al)
      /\ d \in Nat /\ IsSequence(s.regs)
  BY ShapedLengths DEF Sync, Shaped
<1>2. /\ HasFields(t) /\ t.known = s.known \cup N
      /\ \E e : t.regs = s.regs \o e /\ ListsAt(e, N, d)
      /\ t.trail = s.trail /\ t.trail_lim = s.trail_lim /\ t.queue = s.queue
      /\ t.facts = s.facts /\ t.saved = s.saved
  BY <1>1, NewVarFields
<1>3. \A v \in TheoryAtom : to[v] = IF v \in N THEN al ELSE intro[v]
  BY TheoryAtoms DEF introduced, NewAtoms
<1>4. N \subseteq TheoryAtom
  BY DEF NewAtoms
<1> HIDE DEF t, N, to
<1>5. PICK e : t.regs = s.regs \o e /\ ListsAt(e, N, d)
  BY <1>2
<1> DEFINE n == Len(s.regs)
           w == Len(e)
<1>6. n \in Nat /\ w \in Nat /\ DOMAIN s.regs = 1..n
  BY <1>1, <1>5, SequenceShape DEF ListsAt
<1>7. /\ IsSequence(t.regs) /\ Len(t.regs) = n + w
      /\ \A i \in 1..n : t.regs[i] = s.regs[i]
      /\ \A i \in 1..w : t.regs[n + i] = e[i]
  BY <1>1, <1>5, SequenceConcat DEF ListsAt
<1>8. DOMAIN t.regs = 1..(n + w)
  BY <1>7, SequenceShape
<1> HIDE DEF n, w
<1>9. \A i \in 1..(n + w) : i \in 1..n \/ \E j \in 1..w : i = n + j
  <2> SUFFICES ASSUME NEW i \in 1..(n + w), i \notin 1..n
               PROVE  \E j \in 1..w : i = n + j
    OBVIOUS
  <2>1. i - n \in 1..w /\ i = n + (i - n)
    BY <1>6
  <2> QED  BY <2>1
<1>10. \A r \in 1..n : IsRegistration(s.regs[r]) /\ s.regs[r].level \in 0..d
  BY <1>1, <1>6 DEF Shaped, Registered
<1>11. \A i \in 1..w : IsRegistration(e[i]) /\ e[i].level = d
  BY <1>5 DEF ListsAt, w
<1>12. ASSUME NEW r \in 1..(n + w)
       PROVE  IsRegistration(t.regs[r]) /\ t.regs[r].level \in 0..d
  <2>1. CASE r \in 1..n
    BY <1>7, <1>10, <2>1
  <2>2. ASSUME NEW j \in 1..w, r = n + j
        PROVE  IsRegistration(t.regs[r]) /\ t.regs[r].level \in 0..d
    <3>1. t.regs[r] = e[j] /\ e[j].level \in 0..d
      BY <1>1, <1>7, <1>11, <2>2
    <3> QED  BY <1>11, <3>1
  <2> QED  BY <1>9, <2>1, <2>2
<1>13. ASSUME NEW q \in 1..(n + w), NEW r \in 1..(n + w), q <= r
       PROVE  t.regs[q].level <= t.regs[r].level
  <2>1. CASE r \in 1..n
    <3>1. q \in 1..n
      BY <1>6, <1>13, <2>1
    <3> QED  BY <1>1, <1>6, <1>7, <1>13, <2>1, <3>1 DEF Registered
  <2>2. ASSUME NEW j \in 1..w, r = n + j
        PROVE  t.regs[q].level <= t.regs[r].level
    <3>1. t.regs[r].level = d
      BY <1>7, <1>11, <2>2
    <3>2. t.regs[q].level \in 0..d
      BY <1>12
    <3> QED  BY <1>1, <3>1, <3>2
  <2> QED  BY <1>9, <2>1, <2>2
<1>14. Shaped(t)
  BY <1>1, <1>2, <1>7, <1>8, <1>12 DEF Shaped
<1>15. InStep(t, al)
  BY <1>1, <1>2 DEF InStep, Marks, Restores
<1>16. \A v \in TheoryAtom : to[v] \in {-1} \cup 0..al
  BY <1>1, <1>3 DEF Registered
<1>17. \A v \in TheoryAtom : to[v] # -1 => v \in t.known
  BY <1>1, <1>2, <1>3 DEF Registered
<1>18. ASSUME NEW j \in 1..d, NEW v \in TheoryAtom, to[v] # -1
       PROVE  \/ v \in t.saved[al + j].known
              \/ \E r \in DOMAIN t.regs : t.regs[r].var = v /\ t.regs[r].level >= j
  <2>1. CASE v \in N
    <3>1. PICK i \in 1..w : e[i].var = v
      BY <1>5, <2>1 DEF ListsAt, w
    <3>2. n + i \in 1..(n + w)
      BY <1>6
    <3>3. t.regs[n + i].var = v /\ t.regs[n + i].level = d /\ d >= j
      BY <1>1, <1>7, <1>11, <3>1
    <3> QED  BY <1>8, <3>2, <3>3
  <2>2. CASE v \notin N
    <3>1. \/ v \in s.saved[al + j].known
          \/ \E r \in 1..n : s.regs[r].var = v /\ s.regs[r].level >= j
      BY <1>1, <1>3, <1>6, <1>18, <2>2 DEF Registered
    <3>2. \A r \in 1..n : r \in 1..(n + w)
      BY <1>6
    <3> QED  BY <1>2, <1>7, <1>8, <3>1, <3>2
  <2> QED  BY <2>1, <2>2
<1>19. ASSUME NEW k \in 1..al, NEW v \in TheoryAtom, to[v] \in 0..(k - 1)
       PROVE  v \in t.saved[k].known
  <2>1. v \notin N
    BY <1>3, <1>19
  <2> QED  BY <1>1, <1>2, <1>3, <1>19, <2>1 DEF Registered
<1>20. Registered(t, to, al)
  BY <1>2, <1>8, <1>12, <1>13, <1>16, <1>17, <1>18, <1>19 DEF Registered
<1>21. Sync(t, to, al)
  BY <1>14, <1>15, <1>20 DEF Sync
<1> QED  BY <1>21 DEF t, to

\* Reasons may change.
LEMMA SyncReasons ==
  ASSUME NEW s, NEW in, NEW al \in Nat, Sync(s, in, al), NEW trl, SameButReasons(s.trail, trl),
         NEW t, HasFields(t), t.trail = trl,
         t.trail_lim = s.trail_lim, t.queue = s.queue, t.facts = s.facts,
         t.known = s.known, t.saved = s.saved, t.regs = s.regs
  PROVE  Sync(t, in, al)
<1>1. /\ IsSequence(t.trail) /\ Len(t.trail) = Len(s.trail) /\ DOMAIN t.trail = 1..Len(t.trail)
      /\ \A i \in 1..Len(s.trail) :
           /\ t.trail[i].lit = s.trail[i].lit /\ t.trail[i].user = s.trail[i].user
           /\ DOMAIN t.trail[i] = {"lit", "reason", "user", "why"}
  BY DEF SameButReasons
<1>2. Shaped(t)
  <2>1. Shaped(s)
    BY DEF Sync
  <2> QED  BY <1>1, <2>1 DEF Shaped
<1> QED  BY <1>1, <1>2, SyncSame

\* The explanations of lazy entries change reasons only.
LEMMA ExplainSame ==
  ASSUME IsSequence(trail), NEW E,
         \A i \in DOMAIN trail : DOMAIN trail[i] = {"lit", "reason", "user", "why"}
  PROVE  SameButReasons(trail, Explain(E).trail)
<1> DEFINE ref == CHOOSE f \in Injection(E, NewRefs(Cardinality(E))) : TRUE
           u == [i \in DOMAIN trail |-> IF i \in E THEN [trail[i] EXCEPT !.reason = ref[i]]
                                                   ELSE trail[i]]
<1>1. Explain(E).trail = u
  BY DEF Explain
<1>2. Len(trail) \in Nat /\ DOMAIN trail = 1..Len(trail)
  BY SequenceShape
<1> HIDE DEF ref
<1>3. /\ u = [i \in 1..Len(trail) |-> u[i]] /\ DOMAIN u = 1..Len(trail)
      /\ \A i \in 1..Len(trail) : u[i] = IF i \in E THEN [trail[i] EXCEPT !.reason = ref[i]]
                                                    ELSE trail[i]
  BY <1>2
<1> HIDE DEF u
<1>4. IsSequence(u) /\ Len(u) = Len(trail)
  BY <1>2, <1>3, SequenceFunction
<1>5. ASSUME NEW i \in 1..Len(trail)
      PROVE  /\ u[i].lit = trail[i].lit /\ u[i].user = trail[i].user
             /\ DOMAIN u[i] = {"lit", "reason", "user", "why"}
  <2> DEFINE e == trail[i]
             f == [e EXCEPT !.reason = ref[i]]
  <2>1. DOMAIN e = {"lit", "reason", "user", "why"}
    BY <1>2
  <2>2. /\ DOMAIN f = {"lit", "reason", "user", "why"}
        /\ f.lit = e.lit /\ f.user = e.user
    BY <2>1, ReasonChanged
  <2>3. u[i] = IF i \in E THEN f ELSE e
    BY <1>3
  <2> HIDE DEF e, f
  <2>4. u[i].lit = e.lit /\ u[i].user = e.user /\ DOMAIN u[i] = {"lit", "reason", "user", "why"}
    BY <2>1, <2>2, <2>3
  <2> QED  BY <2>4 DEF e
<1>6. SameButReasons(trail, u)
  BY <1>3, <1>4, <1>5 DEF SameButReasons
<1> QED  BY <1>1, <1>6

-----------------------------------------------------------------------------
(* Levels are natural numbers. *)

\* A set of natural numbers has a least one.
LEMMA NatMin ==
  ASSUME NEW T, T \subseteq Nat, T # {}
  PROVE  Min(T) \in T /\ \A y \in T : Min(T) <= y
<1> DEFINE R == {ss \in Nat \X Nat : ss[1] < ss[2]}
<1>1. IsWellFoundedOn(R, Nat)
  BY NatLessThanWellFounded, Zenon DEF OpToRel
<1>2. ASSUME NEW x \in Nat, NEW y \in Nat
      PROVE  <<y, x>> \in R <=> y < x
  OBVIOUS
<1> HIDE DEF R
<1>3. PICK x \in T : \A y \in T : ~ (<<y, x>> \in R)
  BY <1>1, WFMin, Zenon
<1>4. \A y \in T : x <= y
  <2> SUFFICES ASSUME NEW y \in T
               PROVE  x <= y
    OBVIOUS
  <2>1. x \in Nat /\ y \in Nat /\ <<y, x>> \notin R
    BY <1>3
  <2> QED  BY <1>2, <2>1
<1> QED  BY <1>4 DEF Min

\* The level of a literal is a natural number.
LEMMA LevelType ==
  ASSUME NEW s, Shaped(s), NEW l
  PROVE  level(s, l) \in Nat
<1> DEFINE T == {k \in DOMAIN s.trail_lim : s.trail_lim[k] < trail_index(s, l)}
<1>1. Len(s.trail_lim) \in Nat /\ DOMAIN s.trail_lim = 1..Len(s.trail_lim)
  BY ShapedLengths
<1>2. IsFiniteSet(1..Len(s.trail_lim))
  BY <1>1, FS_Interval
<1>3. IsFiniteSet(T)
  BY <1>1, <1>2, FS_Subset
<1> QED  BY <1>3, FS_CardinalityType DEF level, levelAt

-----------------------------------------------------------------------------
(* The state. *)

\* The core has the values of the variables.
LEMMA CoreShape ==
  /\ HasFields(Core)
  /\ Core.trail = trail /\ Core.trail_lim = trail_lim /\ Core.queue = queue
  /\ Core.facts = facts /\ Core.known = known /\ Core.saved = saved
  /\ Core.regs = variables_to_register /\ Core.qhead = qhead /\ Core.order_heap = order_heap
BY DEF Core, HasFields, CoreFields

\* Becomes(s) makes s the next core.
LEMMA BecomesIs ==
  ASSUME NEW s, HasFields(s), Becomes(s)
  PROVE  Core' = s
BY DEF Becomes, Core, HasFields, CoreFields

\* It stays if its variables stay.
LEMMA CoreUnchanged ==
  ASSUME UNCHANGED coreVars
  PROVE  Core' = Core
BY DEF coreVars, Core

\* The invariant of the next state, said of the next core.
LEMMA SyncNext ==
  ASSUME problem' = problem, Sync(Core', intro', assertionLevel')
  PROVE  Sync(Core, intro, assertionLevel)'
<1>1. TheoryAtom' = TheoryAtom
  BY DEF TheoryAtom, Theory
<1>2. Shaped(Core)'
  BY DEF Sync, Shaped
<1>3. ASSUME NEW q, NEW n, Follows(q, Core'.trail, n)
      PROVE  Follows(q, Core.trail, n)'
  <2>1. ASSUME NEW k
        PROVE  TheoryCount(Core.trail, k)' = TheoryCount(Core'.trail, k)
    BY <1>1 DEF TheoryCount
  <2> QED  BY <1>1, <1>3, <2>1 DEF Follows
<1>4. InStep(Core, assertionLevel)'
  <2>1. Follows(Core.facts \o Core.queue, Core.trail, Len(Core.trail))'
    BY <1>3 DEF Sync, InStep
  <2>2. PICK m : Marks(Core', assertionLevel', m) /\ Restores(Core', m)
    BY DEF Sync, InStep
  <2>3. Marks(Core, assertionLevel, m)'
    BY <2>2 DEF Marks
  <2>4. Restores(Core, m)'
    BY <1>3, <2>2 DEF Restores
  <2> QED  BY <2>1, <2>3, <2>4 DEF Sync, InStep
<1>5. Registered(Core, intro, assertionLevel)'
  BY <1>1 DEF Sync, Registered
<1> QED  BY <1>2, <1>4, <1>5 DEF Sync

-----------------------------------------------------------------------------
(* The steps. *)

\* What a step has to show.
Preserved ==
  UpdateRight(update') /\ assertionLevel' \in Nat /\ Sync(Core', intro', assertionLevel')

\* That is enough.
LEMMA PreservedInv ==
  ASSUME Inv, Preserved, UNCHANGED problem
  PROVE  Inv'
<1>1. Sync(Core, intro, assertionLevel)'
  BY SyncNext DEF Preserved
<1>2. UpdateRight(update)'
  BY DEF Preserved, UpdateRight
<1> QED  BY <1>1, <1>2 DEF Inv, Preserved

\* The core becomes a value that is in step.
LEMMA PreservedBecomes ==
  ASSUME NEW s, Becomes(s), UpdateRight(update'), assertionLevel' \in Nat,
         Sync(s, intro', assertionLevel')
  PROVE  Preserved
<1>1. HasFields(s)
  BY DEF Sync, Shaped
<1>2. Core' = s
  BY <1>1, BecomesIs
<1> QED  BY <1>2 DEF Preserved

\* The core does not change.
LEMMA PreservedSame ==
  ASSUME Inv, UNCHANGED <<coreVars, intro, assertionLevel>>, UpdateRight(update')
  PROVE  Preserved
<1>1. Core' = Core
  BY CoreUnchanged
<1> QED  BY <1>1 DEF Preserved, Inv

\* What the invariant says of the core.
LEMMA InvCore ==
  ASSUME Inv
  PROVE  /\ Sync(Core, intro, assertionLevel) /\ assertionLevel \in Nat
         /\ Shaped(Core) /\ HasFields(Core) /\ problem \in Problems /\ UpdateRight(update)
BY DEF Inv, Sync, Shaped

\* The locals of a new call of updateLemmas.
LEMMA UpdateNew ==
  /\ UpdateRight(NoUpdate)
  /\ \A s, back : Shaped(s) => UpdateRight(UpdateLocals(s, back))
<1>1. UpdateRight(NoUpdate)
  BY DEF NoUpdate, UpdateRight
<1>2. ASSUME NEW s, NEW back, Shaped(s)
      PROVE  UpdateRight(UpdateLocals(s, back))
  <2>1. decisionLevel(s) \in Nat
    BY <1>2, ShapedLengths DEF decisionLevel
  <2> QED  BY <2>1 DEF UpdateLocals, UpdateRight
<1> QED  BY <1>1, <1>2

\* So when propagate is called.
LEMMA PropagateUpdate ==
  ASSUME NEW s, Shaped(s), NEW ls, NEW ty, Propagate(s, ls, ty)
  PROVE  UpdateRight(update')
<1>1. update' = NoUpdate \/ update' = UpdateLocals(s, "begin")
  BY DEF Propagate
<1> QED  BY <1>1, UpdateNew

\* Only how far clauses were propagated, or the heap, changes in the core.
LEMMA SyncOther ==
  ASSUME Inv, NEW t, HasFields(t),
         t.trail = trail, t.trail_lim = trail_lim, t.facts = facts, t.queue = queue,
         t.known = known, t.saved = saved, t.regs = variables_to_register
  PROVE  Sync(t, intro, assertionLevel)
<1>1. /\ t.trail = Core.trail /\ t.trail_lim = Core.trail_lim /\ t.facts = Core.facts
      /\ t.queue = Core.queue /\ t.known = Core.known /\ t.saved = Core.saved
      /\ t.regs = Core.regs
  BY CoreShape
<1>2. Sync(Core, intro, assertionLevel) /\ assertionLevel \in Nat /\ Shaped(Core)
  BY InvCore
<1> HIDE DEF Inv
<1>3. Shaped(t)
  BY <1>1, <1>2 DEF Shaped
<1> QED  BY <1>1, <1>2, <1>3, SyncSame

\* addClause_ at decision level 0: new variables, and a unit clause is enqueued.
LEMMA StepAddClause ==
  ASSUME Inv, NEW C, addClause(C)
  PROVE  Preserved
<1> DEFINE s == newVar(Core, C)
<1>1. /\ Sync(s, introduced(C), assertionLevel) /\ Shaped(s)
      /\ assertionLevel \in Nat /\ UpdateRight(update)
  BY InvCore, SyncNewVar DEF Sync
<1>2. intro' = introduced(C) /\ assertionLevel' = assertionLevel
  BY DEF addClause
<1>3. \/ Becomes(s)
      \/ \E l, from : Becomes(uncheckedEnqueue(s, l, from, {}))
  BY Zenon DEF addClause
<1>4. update' = update \/ update' = NoUpdate \/ update' = UpdateLocals(s, "begin")
  BY DEF addClause
<1> HIDE DEF s
<1>5. UpdateRight(update')
  BY <1>1, <1>4, UpdateNew
<1>6. CASE Becomes(s)
  BY <1>1, <1>2, <1>5, <1>6, PreservedBecomes
<1>7. ASSUME NEW l, NEW from, Becomes(uncheckedEnqueue(s, l, from, {}))
      PROVE  Preserved
  <2>1. \/ Sync(uncheckedEnqueue(s, l, from, {}), intro', assertionLevel')
    BY <1>1, <1>2, SyncEnqueue
  <2> QED  BY <1>1, <1>2, <1>5, <1>7, <2>1, PreservedBecomes
<1> QED  BY <1>3, <1>6, <1>7

\* cancelUntil(0) leaves no decision level.
LEMMA CancelAll ==
  ASSUME Inv
  PROVE  LET s == cancelUntil(Core, 0) IN
         Sync(s, intro, assertionLevel) /\ Shaped(s) /\ Len(s.trail_lim) = 0
<1> DEFINE s == cancelUntil(Core, 0)
<1>1. Sync(s, intro, assertionLevel) /\ Len(s.trail_lim) <= 0
  BY InvCore, SyncCancel
<1> HIDE DEF s
<1>2. Shaped(s) /\ Len(s.trail_lim) \in Nat
  BY <1>1, ShapedLengths DEF Sync
<1>3. Len(s.trail_lim) = 0
  BY <1>1, <1>2
<1> QED  BY <1>1, <1>2, <1>3 DEF s

\* push: back to decision level 0, and a context for the user level.
LEMMA StepPush ==
  ASSUME Inv, push
  PROVE  Preserved
<1> DEFINE s == cancelUntil(Core, 0)
<1>1. /\ Becomes(ContextPush(s)) /\ assertionLevel' = assertionLevel + 1
      /\ intro' = intro /\ update' = update
  BY DEF push
<1>2. /\ Sync(s, intro, assertionLevel) /\ Len(s.trail_lim) = 0
      /\ assertionLevel \in Nat /\ UpdateRight(update)
  BY CancelAll, InvCore
<1> HIDE DEF s
<1>3. Sync(ContextPush(s), intro', assertionLevel')
  BY <1>1, <1>2, SyncPush
<1> QED  BY <1>1, <1>2, <1>3, PreservedBecomes

\* pop: back to decision level 0, then to the context and the trail of the level below.
LEMMA StepPop ==
  ASSUME Inv, pop
  PROVE  Preserved
<1> DEFINE s == cancelUntil(Core, 0)
           u == assertionLevel - 1
           n == Remaining(s.trail, u)
           cs == {c \in DOMAIN ca : ca[c].level > u}
           heap == {Abs(s.trail[i].lit) : i \in (n + 1)..Len(s.trail)}
           p == ContextPop(s, 1)
           t == [p EXCEPT !.trail = Unlocked(SubSeq(s.trail, 1, n), cs), !.qhead = n,
                          !.order_heap = @ \cup heap, !.regs = <<>>]
           to == [v \in Atom |-> IF intro[v] > u THEN -1 ELSE intro[v]]
<1>1. /\ assertionLevel > 0 /\ Becomes(t) /\ assertionLevel' = u
      /\ intro' = to /\ update' = update
  BY Zenon DEF pop
<1>2. /\ Sync(s, intro, assertionLevel) /\ Shaped(s) /\ HasFields(s) /\ Len(s.trail_lim) = 0
      /\ assertionLevel \in Nat /\ UpdateRight(update) /\ problem \in Problems
  BY CancelAll, InvCore DEF Shaped
<1>3. u \in Nat /\ u + 1 = assertionLevel
  BY <1>1, <1>2
<1>4. Len(s.saved) = u + 1 /\ Sync(s, intro, u + 1)
  BY <1>2, <1>3 DEF Sync, InStep
<1> HIDE DEF s, u, cs, heap
<1>5. Popped(s, t, u)
  <2>1. /\ HasFields(p) /\ p.saved = SubSeq(s.saved, 1, u)
        /\ p.queue = s.saved[u + 1].queue /\ p.facts = s.saved[u + 1].facts
        /\ p.known = s.saved[u + 1].known /\ p.trail_lim = s.trail_lim
    <3> DEFINE k == u + 1
    <3>1. k = Len(s.saved) - 1 + 1 /\ k - 1 = Len(s.saved) - 1 /\ k - 1 = u
      BY <1>3, <1>4
    <3> HIDE DEF k
    <3>2. /\ HasFields(p) /\ p.saved = SubSeq(s.saved, 1, k - 1)
          /\ p.queue = s.saved[k].queue /\ p.facts = s.saved[k].facts
          /\ p.known = s.saved[k].known /\ p.trail_lim = s.trail_lim
      BY <1>2, <3>1, PopFields
    <3> QED  BY <3>1, <3>2 DEF k
  <2> DEFINE b == SubSeq(s.trail, 1, n)
             tr == Unlocked(b, cs)
  <2>2. SameButReasons(b, tr)
    <3>1. IsSequence(b) /\ Len(b) = n /\ \A i \in 1..n : b[i] = s.trail[i] /\ i \in DOMAIN s.trail
      <4>1. n \in 0..Len(s.trail)
        <5>1. PICK m : Marks(s, u + 1, m)
          BY <1>4 DEF Sync, InStep
        <5>2. m[u + 1] \in 0..Len(s.trail)
          BY <1>3, <1>4, <5>1 DEF Marks
        <5>3. \A i \in 1..Len(s.trail) : s.trail[i].user \in Nat
          BY <1>3, <1>4 DEF Sync, InStep
        <5>4. \A i \in 1..Len(s.trail) : IF i <= m[u + 1] THEN s.trail[i].user < u + 1
                                                        ELSE s.trail[i].user >= u + 1
          <6>1. u + 1 \in 1..(u + 1)
            BY <1>3
          <6> QED  BY <5>1, <6>1 DEF Marks
        <5>5. Len(s.trail) \in Nat
          BY <1>2, ShapedLengths
        <5>6. n = m[u + 1]
          BY <1>3, <5>2, <5>3, <5>4, <5>5, RemainingIsMark
        <5> QED  BY <5>2, <5>6
      <4>2. IsSequence(s.trail) /\ DOMAIN s.trail = 1..Len(s.trail) /\ Len(s.trail) \in Nat
        BY <1>2, ShapedLengths DEF Shaped
      <4> HIDE DEF n
      <4>3. \A i \in 1..n : i \in 1..Len(s.trail)
        BY <4>1, <4>2
      <4> QED  BY <4>1, <4>2, <4>3, SequencePrefix
    <3>2. \A i \in 1..Len(b) : DOMAIN b[i] = {"lit", "reason", "user", "why"}
      BY <1>2, <3>1 DEF Shaped
    <3> HIDE DEF b
    <3> QED  BY <3>1, <3>2, UnlockedSame
  <2> HIDE DEF p, b, tr, n
  <2> DEFINE w == [p EXCEPT !.trail = tr, !.qhead = n, !.order_heap = @ \cup heap,
                            !.regs = <<>>]
  <2>3. /\ HasFields(w) /\ w.trail = tr /\ w.regs = <<>>
        /\ w.saved = p.saved /\ w.queue = p.queue /\ w.facts = p.facts /\ w.known = p.known
        /\ w.trail_lim = p.trail_lim
    BY <2>1 DEF HasFields, CoreFields
  <2> HIDE DEF w
  <2>4. Popped(s, w, u)
    BY <2>1, <2>2, <2>3 DEF Popped, b, n
  <2> QED  BY <2>4 DEF w, tr, b
<1>6. \A v \in TheoryAtom : to[v] = IF intro[v] > u THEN -1 ELSE intro[v]
  BY <1>2, TheoryAtoms
<1> HIDE DEF t, to
<1>7. Sync(t, to, u)
  BY <1>2, <1>3, <1>4, <1>5, <1>6, SyncPopped
<1> QED  BY <1>1, <1>2, <1>3, <1>7, PreservedBecomes

\* solve: back to decision level 0.
LEMMA StepSolve ==
  ASSUME Inv, solve
  PROVE  Preserved
<1> DEFINE s == cancelUntil(Core, 0)
<1>1. /\ Becomes(s) /\ UNCHANGED <<intro, assertionLevel>>
      /\ Propagate(s, lemmas, "with") \/ update' = update
  BY DEF solve
<1>2. /\ Sync(s, intro, assertionLevel) /\ Shaped(s) /\ assertionLevel \in Nat
      /\ UpdateRight(update)
  BY CancelAll, InvCore
<1> HIDE DEF s
<1>3. UpdateRight(update')
  BY <1>1, <1>2, PropagateUpdate
<1> QED  BY <1>1, <1>2, <1>3, PreservedBecomes

\* Only how far clauses were propagated, or the heap, changes in the state.
LEMMA PreservedOther ==
  ASSUME Inv, UpdateRight(update'),
         UNCHANGED <<trail, trail_lim, queue, facts, known, saved, variables_to_register,
                     intro, assertionLevel>>
  PROVE  Preserved
<1> DEFINE t == Core'
<1>1. /\ HasFields(t)
      /\ t.trail = trail /\ t.trail_lim = trail_lim /\ t.facts = facts /\ t.queue = queue
      /\ t.known = known /\ t.saved = saved /\ t.regs = variables_to_register
  BY DEF Core, HasFields, CoreFields
<1> HIDE DEF t
<1>2. Sync(t, intro, assertionLevel)
  BY <1>1, SyncOther
<1> QED  BY <1>2, InvCore DEF t, Preserved

\* propagateBool takes a literal.
LEMMA StepNextFact ==
  ASSUME Inv, NextFact
  PROVE  Preserved
BY PreservedOther, InvCore DEF NextFact, userVars

\* A literal is enqueued.
LEMMA PreservedEnqueue ==
  ASSUME Inv, NEW l, NEW from, NEW why, Becomes(uncheckedEnqueue(Core, l, from, why)),
         UNCHANGED <<intro, assertionLevel>>, UpdateRight(update')
  PROVE  Preserved
<1>1. /\ Sync(uncheckedEnqueue(Core, l, from, why), intro', assertionLevel')
      /\ assertionLevel' \in Nat
  BY InvCore, SyncEnqueue
<1> QED  BY <1>1, PreservedBecomes

\* propagateBool visits a clause: it may enqueue a literal.
LEMMA StepVisitWatch ==
  ASSUME Inv, NEW c, VisitWatch(c)
  PROVE  Preserved
<1>1. UNCHANGED <<intro, assertionLevel, update>>
  BY DEF VisitWatch, userVars
<1>2. \/ UNCHANGED coreVars
      \/ \E l : Becomes(uncheckedEnqueue(Core, l, c, {}))
      \/ Becomes([Core EXCEPT !.qhead = Len(trail)])
  BY Zenon DEF VisitWatch
<1>3. UpdateRight(update')
  BY <1>1, InvCore
<1>4. CASE UNCHANGED coreVars
  BY <1>1, <1>3, <1>4, PreservedSame
<1>5. ASSUME NEW l, Becomes(uncheckedEnqueue(Core, l, c, {}))
      PROVE  Preserved
  BY <1>1, <1>3, <1>5, PreservedEnqueue
<1>6. CASE Becomes([Core EXCEPT !.qhead = Len(trail)])
  <2>1. UNCHANGED <<trail, trail_lim, queue, facts, known, saved, variables_to_register>>
    BY <1>6 DEF Becomes, Core
  <2> QED  BY <1>1, <1>3, <2>1, PreservedOther
<1> QED  BY <1>2, <1>4, <1>5, <1>6

\* The steps that leave the core and the levels alone.
LEMMA StepBoolDone ==
  ASSUME Inv, BoolDone
  PROVE  Preserved
BY PreservedSame, InvCore DEF BoolDone

\* theoryCheck moves the queue to the facts.
LEMMA StepTheoryCheck ==
  ASSUME Inv, TheoryCheck
  PROVE  Preserved
<1> DEFINE q == facts \o queue
           t == [Core EXCEPT !.facts = q, !.queue = <<>>]
<1>1. Becomes(t) /\ UNCHANGED <<intro, assertionLevel, update>>
  BY DEF TheoryCheck, Core, userVars
<1>2. /\ HasFields(t)
      /\ t.trail = Core.trail /\ t.trail_lim = Core.trail_lim /\ t.facts = q /\ t.queue = <<>>
      /\ t.known = Core.known /\ t.saved = Core.saved /\ t.regs = Core.regs
  BY DEF Core, HasFields, CoreFields
<1>3. IsSequence(q) /\ q \o <<>> = q
  <2>1. IsSequence(facts) /\ IsSequence(queue)
    BY InvCore, CoreShape DEF Shaped
  <2>2. IsSequence(q)
    BY <2>1, SequenceConcat
  <2> QED  BY <2>2, ConcatNone
<1>4. q = Core.facts \o Core.queue
  BY CoreShape
<1> HIDE DEF t, q
<1>5. Shaped(t)
  BY <1>2, <1>3, InvCore, SequenceNone DEF Shaped
<1>6. Sync(t, intro, assertionLevel)
  <2>1. t.facts \o t.queue = Core.facts \o Core.queue
    BY <1>2, <1>3, <1>4
  <2> HIDE DEF Inv
  <2> QED  BY <1>2, <1>5, <2>1, InvCore, SyncSame
<1> QED  BY <1>1, <1>6, InvCore, PreservedBecomes

\* A lemma or a conflict of the theories: new variables.
LEMMA StepTheoryLemma ==
  ASSUME Inv, NEW t, NEW removable, TheoryLemma(t, removable)
  PROVE  Preserved
<1> DEFINE s == newVar(Core, t)
<1>1. /\ Becomes(s) /\ intro' = introduced(t)
      /\ UNCHANGED <<assertionLevel, update>>
  BY DEF TheoryLemma, userVars
<1>2. Sync(s, introduced(t), assertionLevel)
  BY InvCore, SyncNewVar
<1> HIDE DEF s
<1> QED  BY <1>1, <1>2, InvCore, PreservedBecomes

\* The theories propagate a literal.
LEMMA StepTheoryPropagates ==
  ASSUME Inv, NEW t, NEW l, TheoryPropagates(t, l)
  PROVE  Preserved
<1>1. /\ Becomes(uncheckedEnqueue(Core, l, Lazy, t))
      /\ UNCHANGED <<intro, assertionLevel, update>>
  BY DEF TheoryPropagates, userVars
<1> QED  BY <1>1, InvCore, PreservedEnqueue

\* The check is over, and updateLemmas may begin.
LEMMA StepTheoryDone ==
  ASSUME Inv, TheoryDone
  PROVE  Preserved
<1>1. UNCHANGED <<coreVars, intro, assertionLevel>>
  BY DEF TheoryDone
<1>2. update' = update \/ update' = UpdateLocals(Core, "theory")
  BY DEF TheoryDone
<1>3. UpdateRight(update')
  BY <1>2, InvCore, UpdateNew
<1> QED  BY <1>1, <1>3, PreservedSame

\* updateLemmas records a conflict.
LEMMA UpdateConflict ==
  ASSUME NEW u, UpdateRight(u), NEW conflict
  PROVE  UpdateRight([u EXCEPT !.conflict = conflict])
<1> DEFINE f == [u EXCEPT !.conflict = conflict]
<1>1. /\ f = [btlevel |-> u.btlevel, index |-> u.index, conflict |-> conflict, back |-> u.back]
      /\ u.btlevel \in Nat
  BY DEF UpdateRight
<1> HIDE DEF f
<1>2. UpdateRight(f)
  BY <1>1 DEF UpdateRight
<1> QED  BY <1>2 DEF f

\* updateLemmas has sorted the lemmas.
LEMMA UpdateSorted ==
  ASSUME NEW u, UpdateRight(u), NEW lev \in Nat, NEW index, NEW conflict
  PROVE  UpdateRight([u EXCEPT !.btlevel = lev, !.index = index, !.conflict = conflict])
<1> DEFINE f == [u EXCEPT !.btlevel = lev]
           g == [f EXCEPT !.index = index]
<1>1. /\ f = [btlevel |-> lev, index |-> u.index, conflict |-> u.conflict, back |-> u.back]
      /\ lev \in Nat
  BY DEF UpdateRight
<1> HIDE DEF f
<1>2. /\ g = [btlevel |-> f.btlevel, index |-> index, conflict |-> f.conflict, back |-> f.back]
      /\ f.btlevel \in Nat
  BY <1>1
<1> HIDE DEF g
<1>3. UpdateRight(g)
  BY <1>2 DEF UpdateRight
<1>4. UpdateRight([g EXCEPT !.conflict = conflict])
  BY <1>3, UpdateConflict
<1> QED  BY <1>4 DEF f, g

\* updateLemmas backtracks to the level of the lemmas that propagate.
LEMMA StepSortLemmas ==
  ASSUME Inv, SortLemmas
  PROVE  Preserved
<1> DEFINE n == Len(lemmas) - Len(order)
           new == [k \in 1..n |-> Sorted(Core, lemmas[Len(order) + k].c)]
           empty == \E k \in DOMAIN new : new[k] = <<>>
           levels == {OwnLevel(new[k]) : k \in {k \in DOMAIN new : Propagates(new[k])}}
           zero == IF empty THEN {0} ELSE {}
           all == {update.btlevel} \cup levels \cup zero
           lev == Min(all)
           s == cancelUntil(Core, lev)
<1>1. Becomes(s) /\ UNCHANGED <<intro, assertionLevel>>
  BY DEF SortLemmas, userVars
<1>2. \E index, conflict :
        update' = [update EXCEPT !.btlevel = lev, !.index = index, !.conflict = conflict]
  <2> DEFINE to == IF empty THEN Lazy ELSE update.conflict
  <2>1. update' = [update EXCEPT !.btlevel = lev, !.index = Len(s.trail), !.conflict = to]
    BY DEF SortLemmas
  <2> HIDE DEF lev, s, to
  <2> QED  BY <2>1
<1>3. lev \in Nat
  <2>1. \A m : OwnLevel(m) \in Nat
    BY InvCore, LevelType DEF OwnLevel
  <2>2. levels \subseteq Nat
    <3> HIDE DEF new
    <3> QED  BY <2>1
  <2>3. update.btlevel \in Nat
    BY InvCore DEF UpdateRight
  <2>4. zero \subseteq Nat
    <3>1. zero = {0} \/ zero = {}
      OBVIOUS
    <3> HIDE DEF zero
    <3> QED  BY <3>1
  <2> HIDE DEF levels, zero
  <2>5. all \subseteq Nat /\ all # {}
    BY <2>2, <2>3, <2>4
  <2> HIDE DEF all
  <2>6. Min(all) \in all
    BY <2>5, NatMin
  <2> QED  BY <2>5, <2>6
<1> HIDE DEF lev
<1>4. Sync(s, intro, assertionLevel)
  BY <1>3, InvCore, SyncCancel
<1>5. UpdateRight(update')
  <2>1. PICK index, conflict :
          update' = [update EXCEPT !.btlevel = lev, !.index = index, !.conflict = conflict]
    BY <1>2
  <2>2. UpdateRight(update)
    BY InvCore
  <2>3. UpdateRight([update EXCEPT !.btlevel = lev, !.index = index, !.conflict = conflict])
    BY <1>3, <2>2, UpdateSorted, Zenon
  <2> QED  BY <2>1, <2>3, Zenon
<1> HIDE DEF s
<1> QED  BY <1>1, <1>4, <1>5, InvCore, PreservedBecomes

\* updateLemmas attaches a lemma, and may enqueue its first literal.
LEMMA StepAttachLemma ==
  ASSUME Inv, AttachLemma
  PROVE  Preserved
<1>1. UNCHANGED <<intro, assertionLevel>>
  BY DEF AttachLemma, userVars
<1>2. \/ update' = update /\ \E l, from : Becomes(uncheckedEnqueue(Core, l, from, {}))
      \/ UNCHANGED coreVars /\ \E conflict : update' = [update EXCEPT !.conflict = conflict]
  BY Zenon DEF AttachLemma
<1>3. UpdateRight(update')
  BY <1>2, InvCore, UpdateConflict
<1>4. ASSUME NEW l, NEW from, Becomes(uncheckedEnqueue(Core, l, from, {}))
      PROVE  Preserved
  BY <1>1, <1>3, <1>4, PreservedEnqueue
<1>5. CASE UNCHANGED coreVars
  BY <1>1, <1>3, <1>5, PreservedSame
<1> QED  BY <1>2, <1>4, <1>5

\* updateLemmas returns.
LEMMA StepLemmasDone ==
  ASSUME Inv, LemmasDone
  PROVE  Preserved
<1>1. UNCHANGED <<coreVars, intro, assertionLevel>> /\ update' = NoUpdate
  BY DEF LemmasDone
<1> QED  BY <1>1, UpdateNew, PreservedSame

\* The check ends.
LEMMA StepAnswers ==
  ASSUME Inv, NEW a, Answers(a)
  PROVE  Preserved
<1>1. UNCHANGED <<coreVars, intro, assertionLevel, update>>
  BY DEF Answers
<1> QED  BY <1>1, InvCore, PreservedSame

\* The explanations of the analysed conflict change reasons, the backjump cancels
\* decision levels, and the learnt literal is enqueued.
LEMMA StepConflict ==
  ASSUME Inv, Conflict
  PROVE  Preserved
<1>1. UNCHANGED <<intro, assertionLevel>>
  BY DEF Conflict, userVars
<1>2. PICK E, l, from, btlevel, ls :
        LET s == cancelUntil([Core EXCEPT !.trail = Explain(E).trail], btlevel)
            t == uncheckedEnqueue(s, l, from, {})
        IN  btlevel \in Nat /\ Becomes(t) /\ Propagate(t, ls, "with")
  <2> DEFINE r == Resolution
             uip == CHOOSE l \in AtCurrent(r.lits) : TRUE
             rest == r.lits \ {uip}
             gone == {l \in rest : trail_index(Core, l) \in Redundant(rest)}
             kept == rest \ gone
             max_level == LearntLevel(r.level, gone)
             lits == <<uip>> \o ByRank([l \in kept |-> trail_index(Core, l)])
             btlevel == IF kept = {} THEN 0 ELSE level(Core, lits[2])
             lazy(I) == {i \in I \cap DOMAIN trail : trail[i].reason = Lazy}
             asked == lazy(r.on \cup Indices(r.lits))
  <2>1. PICK more \in SUBSET lazy(Visited(rest)) :
          LET x == Explain(asked \cup more)
              s == cancelUntil([Core EXCEPT !.trail = x.trail], btlevel)
              t == uncheckedEnqueue(s, uip, IF kept = {} THEN Undef ELSE NewRef(x.ca), {})
          IN  Becomes(t) /\ \E ls \in LemmasOnCancel(<<>>, btlevel) : Propagate(t, ls, "with")
    BY Zenon DEF Conflict
  <2>2. btlevel \in Nat
    <3> HIDE DEF kept, lits
    <3> QED  BY InvCore, LevelType
  <2> HIDE DEF r, uip, rest, gone, kept, lits, btlevel, asked
  <2> QED  BY <2>1, <2>2, Zenon
<1> DEFINE trl == Explain(E).trail
           x == [Core EXCEPT !.trail = trl]
           s == cancelUntil(x, btlevel)
           t == uncheckedEnqueue(s, l, from, {})
<1>3. btlevel \in Nat /\ Becomes(t) /\ Propagate(t, ls, "with")
  BY <1>2, Zenon
<1>4. SameButReasons(Core.trail, trl)
  <2>1. IsSequence(trail) /\ \A i \in DOMAIN trail : DOMAIN trail[i] = {"lit", "reason", "user", "why"}
    BY InvCore, CoreShape DEF Shaped
  <2> QED  BY <2>1, CoreShape, ExplainSame
<1> HIDE DEF trl
<1>5. /\ HasFields(x) /\ x.trail = trl
      /\ x.trail_lim = Core.trail_lim /\ x.queue = Core.queue /\ x.facts = Core.facts
      /\ x.known = Core.known /\ x.saved = Core.saved /\ x.regs = Core.regs
  BY DEF Core, HasFields, CoreFields
<1> HIDE DEF x
<1>6. Sync(x, intro, assertionLevel)
  BY <1>4, <1>5, InvCore, SyncReasons
<1>7. Sync(s, intro, assertionLevel)
  BY <1>3, <1>6, InvCore, SyncCancel
<1> HIDE DEF s
<1>8. Sync(t, intro, assertionLevel)
  BY <1>7, InvCore, SyncEnqueue
<1> HIDE DEF t
<1>9. UpdateRight(update')
  BY <1>3, <1>8, PropagateUpdate DEF Sync
<1> QED  BY <1>1, <1>3, <1>8, <1>9, InvCore, PreservedBecomes

\* A call of propagate with the core as it is.
LEMMA PreservedPropagate ==
  ASSUME Inv, NEW s, Sync(s, intro, assertionLevel), Becomes(s), NEW ls, NEW ty,
         Propagate(s, ls, ty), UNCHANGED <<intro, assertionLevel>>
  PROVE  Preserved
<1>1. UpdateRight(update')
  BY PropagateUpdate DEF Sync
<1> QED  BY <1>1, InvCore, PreservedBecomes

\* The final check ends, or goes back to propagate.
LEMMA StepFinal ==
  ASSUME Inv, Final
  PROVE  Preserved
<1>1. \/ /\ \E ty : Propagate(Core, <<>>, ty)
         /\ UNCHANGED <<coreVars, intro, assertionLevel>>
      \/ Answers("sat")
  BY Zenon DEF Final, userVars
<1>2. ASSUME NEW ty, Propagate(Core, <<>>, ty), UNCHANGED <<coreVars, intro, assertionLevel>>
      PROVE  Preserved
  <2>1. UpdateRight(update')
    BY <1>2, InvCore, PropagateUpdate
  <2> QED  BY <1>2, <2>1, PreservedSame
<1>3. CASE Answers("sat")
  BY <1>3, StepAnswers
<1> QED  BY <1>1, <1>2, <1>3

\* A restart: back to decision level 0.
LEMMA StepRestart ==
  ASSUME Inv, Restart
  PROVE  Preserved
<1> DEFINE s == cancelUntil(Core, 0)
<1>1. PICK ls : Becomes(s) /\ Propagate(s, ls, "with") /\ UNCHANGED <<intro, assertionLevel>>
  BY Zenon DEF Restart, userVars
<1>2. Sync(s, intro, assertionLevel)
  BY CancelAll
<1> HIDE DEF s
<1> QED  BY <1>1, <1>2, PreservedPropagate

\* The resources are spent: back to decision level 0.
LEMMA StepInterrupt ==
  ASSUME Inv, Interrupt
  PROVE  Preserved
<1> DEFINE s == cancelUntil(Core, 0)
<1>1. Becomes(s) /\ UNCHANGED <<intro, assertionLevel, update>>
  BY DEF Interrupt
<1>2. Sync(s, intro, assertionLevel)
  BY CancelAll
<1> HIDE DEF s
<1> QED  BY <1>1, <1>2, InvCore, PreservedBecomes

\* The reasons that were removed clauses are gone.
LEMMA StepRemoved ==
  ASSUME Inv, NEW cs, Removed(cs)
  PROVE  Preserved
<1> DEFINE t == Core'
           trl == Unlocked(trail, cs)
<1>1. /\ UNCHANGED <<intro, assertionLevel, update>>
      /\ UNCHANGED <<trail_lim, queue, facts, known, saved, variables_to_register>>
      /\ trail' = trl
  BY DEF Removed, userVars
<1>2. /\ HasFields(t) /\ t.trail = trail' /\ t.trail_lim = trail_lim' /\ t.queue = queue'
      /\ t.facts = facts' /\ t.known = known' /\ t.saved = saved'
      /\ t.regs = variables_to_register'
  BY DEF Core, HasFields, CoreFields
<1>3. SameButReasons(Core.trail, trl)
  <2>1. /\ IsSequence(trail) /\ DOMAIN trail = 1..Len(trail)
        /\ \A i \in DOMAIN trail : DOMAIN trail[i] = {"lit", "reason", "user", "why"}
    BY InvCore, CoreShape, SequenceShape DEF Shaped
  <2>2. \A i \in 1..Len(trail) : DOMAIN trail[i] = {"lit", "reason", "user", "why"}
    BY <2>1
  <2> QED  BY <2>1, <2>2, CoreShape, UnlockedSame
<1> HIDE DEF t, trl
<1>4. /\ t.trail = trl /\ t.trail_lim = Core.trail_lim /\ t.queue = Core.queue
      /\ t.facts = Core.facts /\ t.known = Core.known /\ t.saved = Core.saved
      /\ t.regs = Core.regs
  BY <1>1, <1>2, CoreShape
<1>5. Sync(t, intro, assertionLevel)
  BY <1>2, <1>3, <1>4, InvCore, SyncReasons
<1> QED  BY <1>1, <1>5, InvCore DEF t, Preserved

\* A decision: a level begins and a literal is enqueued.
LEMMA StepDecide ==
  ASSUME Inv, NEW l, Decide(l)
  PROVE  Preserved
<1> DEFINE heap == (order_heap \cap unassigned) \ {Abs(l)}
           x == [Core EXCEPT !.order_heap = heap]
           y == newDecisionLevel(x)
           s == uncheckedEnqueue(y, l, Undef, {})
<1>1. /\ Becomes(s) /\ Propagate(s, <<>>, "with")
      /\ UNCHANGED <<intro, assertionLevel>>
  BY DEF Decide, Core, userVars
<1>2. /\ HasFields(x) /\ x.trail = trail /\ x.trail_lim = trail_lim /\ x.facts = facts
      /\ x.queue = queue /\ x.known = known /\ x.saved = saved
      /\ x.regs = variables_to_register
  BY DEF Core, HasFields, CoreFields
<1> HIDE DEF x
<1>3. Sync(x, intro, assertionLevel)
  BY <1>2, SyncOther
<1>4. Sync(y, intro, assertionLevel)
  BY <1>3, InvCore, SyncNewLevel
<1> HIDE DEF y
<1>5. Sync(s, intro, assertionLevel)
  BY <1>4, InvCore, SyncEnqueue
<1> HIDE DEF s
<1> QED  BY <1>1, <1>5, PreservedPropagate

\* Nothing is left to decide.
LEMMA StepAllDecided ==
  ASSUME Inv, AllDecided
  PROVE  Preserved
<1> DEFINE s == [Core EXCEPT !.order_heap = {}]
<1>1. /\ Becomes(s) /\ Propagate(s, <<>>, "final")
      /\ UNCHANGED <<intro, assertionLevel>>
  BY DEF AllDecided, userVars
<1>2. /\ HasFields(s) /\ s.trail = trail /\ s.trail_lim = trail_lim /\ s.facts = facts
      /\ s.queue = queue /\ s.known = known /\ s.saved = saved
      /\ s.regs = variables_to_register
  BY DEF Core, HasFields, CoreFields
<1> HIDE DEF s
<1>3. Sync(s, intro, assertionLevel)
  BY <1>2, SyncOther
<1> QED  BY <1>1, <1>3, PreservedPropagate

-----------------------------------------------------------------------------
(* The invariant. *)

\* Nothing is on the trail, and no variable exists.
LEMMA InvInit ==
  ASSUME Init
  PROVE  Inv
<1>1. /\ problem \in Problems /\ assertionLevel = 0 /\ update = NoUpdate
      /\ Core.trail = <<>> /\ Core.trail_lim = <<>> /\ Core.queue = <<>> /\ Core.facts = <<>>
      /\ Core.saved = <<>> /\ Core.regs = <<>> /\ Core.known = {}
      /\ intro = [v \in Atom |-> -1]
  BY CoreShape DEF Init
<1>2. DOMAIN <<>> = {} /\ Len(<<>>) = 0
  OBVIOUS
<1>3. <<>> \o <<>> = <<>>
  BY SequenceNone, ConcatNone
<1>4. Shaped(Core)
  BY <1>1, <1>2, SequenceNone, CoreShape DEF Shaped
<1>5. InStep(Core, 0)
  <2> DEFINE m == [k \in 1..0 |-> 0]
  <2>1. 1..0 = {}
    OBVIOUS
  <2>2. Marks(Core, 0, m)
    BY <1>1, <1>2, <2>1 DEF Marks
  <2>3. Restores(Core, m)
    BY <1>1, <1>2, <2>1 DEF Restores
  <2> HIDE DEF m
  <2>4. Follows(Core.facts \o Core.queue, Core.trail, Len(Core.trail))
    BY <1>1, <1>2, <1>3, FollowsNone
  <2>5. Len(Core.saved) = 0 + Len(Core.trail_lim)
    BY <1>1, <1>2
  <2>6. \A i \in 1..Len(Core.trail) : Core.trail[i].user \in 0..0
    BY <1>1, <1>2, <2>1
  <2> QED  BY <2>2, <2>3, <2>4, <2>5, <2>6 DEF InStep
<1>6. Registered(Core, intro, 0)
  <2>1. \A v \in TheoryAtom : intro[v] = -1
    BY <1>1, TheoryAtoms
  <2>2. 1..0 = {} /\ DOMAIN Core.regs = {} /\ Len(Core.trail_lim) = 0
    BY <1>1, <1>2
  <2>3. \A k \in 1..0 : FALSE
    BY <2>2
  <2>4. \A k \in 1..0 : \A v \in TheoryAtom : intro[v] \in 0..(k - 1) => v \in Core.saved[k].known
    BY <2>3
  <2>5. \A j \in 1..Len(Core.trail_lim) : FALSE
    BY <2>2
  <2> QED  BY <2>1, <2>2, <2>4, <2>5 DEF Registered
<1>7. Sync(Core, intro, assertionLevel)
  BY <1>1, <1>4, <1>5, <1>6 DEF Sync
<1> QED  BY <1>1, <1>7, UpdateNew DEF Inv

\* Each step preserves the invariant.
LEMMA InvNext ==
  ASSUME Inv, [Next]_vars
  PROVE  Inv'
<1>1. CASE Next
  <2> SUFFICES Preserved
    BY <1>1, PreservedInv DEF Next
  <2>1. CASE push
    BY <2>1, StepPush
  <2>2. CASE pop
    BY <2>2, StepPop
  <2>3. CASE solve
    BY <2>3, StepSolve
  <2>4. ASSUME NEW C \in Input, addClause(C)
        PROVE  Preserved
    BY <2>4, StepAddClause
  <2>5. CASE NextFact
    BY <2>5, StepNextFact
  <2>6. ASSUME NEW c \in watching, VisitWatch(c)
        PROVE  Preserved
    BY <2>6, StepVisitWatch
  <2>7. CASE BoolDone
    BY <2>7, StepBoolDone
  <2>8. CASE TheoryCheck
    BY <2>8, StepTheoryCheck
  <2>9. ASSUME NEW t, TheorySends(t)
        PROVE  Preserved
    BY <2>9, StepTheoryLemma DEF TheorySends
  <2>10. ASSUME NEW t, NEW l, TheoryRefutes(t, l)
         PROVE  Preserved
    BY <2>10, StepTheoryLemma DEF TheoryRefutes
  <2>11. ASSUME NEW t, NEW l, TheoryPropagates(t, l)
         PROVE  Preserved
    BY <2>11, StepTheoryPropagates
  <2>12. CASE TheoryDone
    BY <2>12, StepTheoryDone
  <2>13. CASE SortLemmas
    BY <2>13, StepSortLemmas
  <2>14. CASE AttachLemma
    BY <2>14, StepAttachLemma
  <2>15. CASE LemmasDone
    BY <2>15, StepLemmasDone
  <2>16. CASE ConflictAtZero
    BY <2>16, StepAnswers DEF ConflictAtZero
  <2>17. CASE Conflict
    BY <2>17, StepConflict
  <2>18. CASE Final
    BY <2>18, StepFinal
  <2>19. CASE Restart
    BY <2>19, StepRestart
  <2>20. CASE Interrupt
    BY <2>20, StepInterrupt
  <2>21. CASE simplify
    BY <2>21, StepRemoved DEF simplify
  <2>22. ASSUME NEW cs, reduceDB(cs)
         PROVE  Preserved
    BY <2>22, StepRemoved DEF reduceDB
  <2>23. ASSUME NEW l, Decide(l)
         PROVE  Preserved
    BY <2>23, StepDecide
  <2>24. CASE AllDecided
    BY <2>24, StepAllDecided
  <2>25. CASE User
    BY <2>1, <2>2, <2>3, <2>4, <2>25 DEF User
  <2>26. CASE Search
    BY <2>5, <2>6, <2>7, <2>8, <2>9, <2>10, <2>11, <2>12, <2>13, <2>14, <2>15, <2>16, <2>17,
       <2>18, <2>19, <2>20, <2>21, <2>22, <2>23, <2>24, <2>26, Zenon DEF Search
  <2> QED  BY <1>1, <2>25, <2>26 DEF Next
<1>2. CASE UNCHANGED vars
  <2>1. UNCHANGED <<coreVars, intro, assertionLevel, update, problem>>
    BY <1>2 DEF vars, userVars
  <2>2. Preserved
    BY <2>1, InvCore, PreservedSame
  <2> QED  BY <2>1, <2>2, PreservedInv
<1> QED  BY <1>1, <1>2

\* The invariant says more than what the theories see.
LEMMA InvInSync ==
  ASSUME Inv
  PROVE  TheoryInSync
<1>1. /\ Sync(Core, intro, assertionLevel) /\ assertionLevel \in Nat
      /\ Core.trail = trail /\ Core.queue = queue /\ Core.facts = facts /\ Core.known = known
      /\ Core.saved = saved
  BY InvCore, CoreShape
<1>2. Len(Core.trail_lim) \in Nat
  BY <1>1, ShapedLengths DEF Sync
<1>3. Follows(facts \o queue, trail, Len(trail))
  BY <1>1 DEF Sync, InStep
<1>4. \A v \in TheoryAtom : intro[v] # -1 => v \in known
  BY <1>1 DEF Sync, Registered
<1>5. Len(saved) = decisionLevel(Core) + assertionLevel
  BY <1>1, <1>2 DEF Sync, InStep, decisionLevel
<1> QED  BY <1>3, <1>4, <1>5 DEF TheoryInSync

\* The theories see the trail, whatever the search does: the facts asserted to them
\* and those that wait in the queue of TheoryProxy are the theory literals of the
\* trail, in its order, each atom that exists is registered with them, and there is
\* one context for each decision and user level; so after each backjump to the middle
\* of what was asserted, each lemma that cancels levels, each restart, push and pop.
THEOREM TheoriesInSync == Spec => []TheoryInSync
<1>1. Init => Inv
  BY InvInit
<1>2. Inv /\ [Next]_vars => Inv'
  BY InvNext
<1>3. Inv => TheoryInSync
  BY InvInSync
<1> QED  BY <1>1, <1>2, <1>3, PTL DEF Spec

-----------------------------------------------------------------------------
(* What the trail t, with the decision levels beginning after the indices    *)
(* lim, rests on: the clauses cs, the levels in at which variables were      *)
(* introduced, the user level al and the clauses ins asserted at each level. *)

\* The clauses asserted up to the user level u, and the theories.
AssertedIn(ins, u) == Theory \cup UNION {ins[w] : w \in 0..u}

\* Entries at decision level 0, and at the last one.
AtZero(lim, i) == \A k \in DOMAIN lim : i <= lim[k]
AtTop(lim, i) == \A k \in DOMAIN lim : lim[k] < i

\* l is false by an entry before i.
FalseBefore(t, l, i) == \E j \in DOMAIN t : j < i /\ t[j].lit = -l

\* Premises, in the clauses cs.
PremisesIn(cs, e) ==
  CASE e.reason = Undef -> {}
    [] e.reason = Lazy  -> e.why \ {e.lit}
    [] OTHER            -> ToSet(cs[e.reason].lits) \ {e.lit}

\* The entry i of the trail t rests on its reason.
Rests(t, cs, i) ==
  /\ t[i].reason > 0 => /\ t[i].reason \in DOMAIN cs
                        /\ cs[t[i].reason].lits[1] = t[i].lit
                        /\ cs[t[i].reason].level <= t[i].user
  /\ t[i].reason = Lazy => t[i].why \in Theory /\ t[i].lit \in t[i].why /\ t[i].why # {t[i].lit}
  /\ \A l \in PremisesIn(cs, t[i]) : FalseBefore(t, l, i)

\* The trail is a well-founded graph on variables that exist as long as it does.
Graph(t, cs, in, al) ==
  /\ t \in Seq(Entry)
  /\ \A i, j \in DOMAIN t : Abs(t[i].lit) = Abs(t[j].lit) => i = j
  /\ \A i \in DOMAIN t : Rests(t, cs, i)
  /\ \A i \in DOMAIN t : t[i].user <= al /\ in[Abs(t[i].lit)] \in 0..t[i].user
  /\ \A i, j \in DOMAIN t : i <= j => t[i].user <= t[j].user

\* Each decision level has its decision, and above level 0 nothing else is without
\* a reason; the decision levels below the last one are propagated.
Decisions(t, lim, q) ==
  /\ lim \in Seq(Nat)
  /\ \A j, k \in DOMAIN lim : j < k => lim[j] < lim[k]
  /\ \A k \in DOMAIN lim : lim[k] < Len(t) /\ lim[k] <= q
  /\ \A i \in DOMAIN t :
       t[i].reason = Undef => AtZero(lim, i) \/ \E k \in DOMAIN lim : i = lim[k] + 1
  /\ q \in 0..Len(t)

\* What is assigned at decision level 0 follows from what is asserted.
Fixed(t, lim, ins) ==
  \A i \in DOMAIN t : AtZero(lim, i) => Entails(AssertedIn(ins, t[i].user), {t[i].lit})

\* The clause C follows from what is asserted up to the level lev, and its
\* variables are of these levels.
Follow(C, lev, in, ins) ==
  /\ Entails(AssertedIn(ins, lev), C)
  /\ \A v \in Vars(C) : in[v] \in 0..lev

\* So do the clauses of the database.
Database(cs, in, al, ins) ==
  /\ IsFiniteSet(DOMAIN cs) /\ DOMAIN cs \subseteq Nat \ {0}
  /\ cs \in [DOMAIN cs -> [lits : Seq(Lit), level : 0..MaxLevel, removable : BOOLEAN]]
  /\ \A c \in DOMAIN cs : /\ Len(cs[c].lits) > 1 /\ cs[c].level <= al
                          /\ Follow(ToSet(cs[c].lits), cs[c].level, in, ins)

Introduced(in, al) == in \in [Atom -> -1..MaxLevel] /\ \A v \in Atom : in[v] <= al

\* Variables that are not assigned are in the heap.
Decidable(s, in) ==
  \A v \in Atom : in[v] # -1 => v \in s.order_heap \/ v \in Vars(Lits(s.trail))

\* The types of the rest of the core.
CoreTyped(s) ==
  /\ s.queue \in Seq(Lit) /\ s.facts \in Seq(Lit) /\ s.known \subseteq TheoryAtom
  /\ s.saved \in Seq([queue : Seq(Lit), facts : Seq(Lit), known : SUBSET TheoryAtom])
  /\ s.regs \in Seq([var : TheoryAtom, level : Nat])
  /\ s.order_heap \subseteq Atom

\* All that is said of the core s.
Sound(s, cs, in, al, ins) ==
  /\ Graph(s.trail, cs, in, al)
  /\ Decisions(s.trail, s.trail_lim, s.qhead)
  /\ Fixed(s.trail, s.trail_lim, ins)
  /\ Decidable(s, in)
  /\ CoreTyped(s)

Inconsistent(ins, u) == ~Consistent({}, AssertedIn(ins, u))

\* The levels, and what ok and trail_ok say.
Levels(al, o, ins, tk, ch, ans) ==
  /\ al \in 0..MaxLevel /\ o \in BOOLEAN
  /\ ins \in [0..MaxLevel -> SUBSET SUBSET Lit]
  /\ tk \in Seq(BOOLEAN) /\ Len(tk) = al
  /\ ch \in 0..problem.checks
  /\ ~o => Inconsistent(ins, al)
  /\ \A u \in DOMAIN tk : ~tk[u] => Inconsistent(ins, u - 1)
  /\ ans \in {"none", "sat", "unsat", "unknown"}
  /\ ans = "unsat" => Inconsistent(ins, al)

\* A conflict is a false clause with a literal of the last decision level, or, at
\* decision level 0, none.
ConflictIn(c, t, lim, cs, al, ins) ==
  \/ c = Lazy /\ lim = <<>> /\ Inconsistent(ins, al)
  \/ /\ c \in DOMAIN cs
     /\ \A l \in ToSet(cs[c].lits) : -l \in Lits(t)
     /\ \E i \in DOMAIN t : -t[i].lit \in ToSet(cs[c].lits) /\ AtTop(lim, i)

\* Lemmas that wait are valid, and about variables that exist.
Lemma(m, in, ins) ==
  /\ m \in [c : SUBSET Lit, removable : BOOLEAN]
  /\ Entails(AssertedIn(ins, 0), m.c)
  /\ \A l \in m.c : -l \notin m.c /\ in[Abs(l)] # -1

Pending(ls, in, ins) ==
  /\ ls \in Seq([c : SUBSET Lit, removable : BOOLEAN])
  /\ \A i \in DOMAIN ls : Lemma(ls[i], in, ins)

\* m is the lemma c sorted when the trail was what it is up to ix, or longer.
InOrder(m, c, t, lim, ix, conflict) ==
  /\ m \in Seq(Lit) /\ ToSet(m) = c
  /\ Len(m) = 0 => conflict # Undef
  /\ Len(m) = 1 => lim = <<>> \/ \E i \in DOMAIN t : t[i].lit = m[1] /\ AtZero(lim, i)
  /\ \A i \in DOMAIN t : Len(m) > 1 /\ i <= ix /\ t[i].lit = -m[2] =>
       /\ \A k \in 3..Len(m) : FalseBefore(t, m[k], i)
       /\ \/ AtTop(lim, i)
          \/ \E j \in DOMAIN t : /\ t[j].lit = m[1]
                                 /\ \A k \in DOMAIN lim : i <= lim[k] => j <= lim[k]

\* updateLemmas, with the pending lemmas ls, of which od are sorted, and its locals u.
Updating(ls, od, u, p, s, cs, in, al, ins) ==
  /\ Pending(ls, in, ins)
  /\ od \in Seq(Seq(Lit))
  /\ ls # <<>> => p \in {"output", "lemmas", "attach"}
  /\ od # <<>> => p \in {"lemmas", "attach"}
  /\ Len(od) <= Len(ls) /\ (p = "attach" => Len(od) = Len(ls))
  /\ p \in {"lemmas", "attach"} =>
       /\ u.btlevel = Len(s.trail_lim) /\ u.index \in 0..Len(s.trail)
       /\ p = "lemmas" /\ od # <<>> => u.index = Len(s.trail)
       /\ \A k \in DOMAIN od :
            InOrder(od[k], ls[k].c, s.trail, s.trail_lim, u.index, u.conflict)
       /\ u.conflict # Undef => ConflictIn(u.conflict, s.trail, s.trail_lim, cs, al, ins)
  /\ p # "attach" => u.conflict \in {Undef, Lazy}

\* Where the search is.
Searching(p, ty, rc, an, wt, cf, s, cs, al, ins) ==
  /\ p \in {"user", "bool", "theory", "output", "lemmas", "attach", "decide", "conflict"}
  /\ ty \in {"without", "with", "final"} /\ rc \in BOOLEAN
  /\ p = "user" /\ an = "none" => s.trail_lim = <<>>
  /\ ty = "without" => s.trail_lim = <<>> /\ p \in {"user", "bool"}
  /\ p = "decide" /\ ty = "with" => s.qhead = Len(s.trail)
  /\ wt # {} => /\ p = "bool" /\ cf = Undef
                /\ s.qhead > 0 /\ AtTop(s.trail_lim, s.qhead)
  /\ \A c \in wt : /\ c \in DOMAIN cs
                   /\ -s.trail[s.qhead].lit \in {cs[c].lits[1], cs[c].lits[2]}
  /\ p = "conflict" => cf # Undef
  /\ cf # Undef => /\ p \in {"bool", "conflict"} /\ (p = "bool" => s.qhead = Len(s.trail))
                   /\ ConflictIn(cf, s.trail, s.trail_lim, cs, al, ins)

SoundInv ==
  /\ Introduced(intro, assertionLevel)
  /\ Database(ca, intro, assertionLevel, inputs)
  /\ Sound(Core, ca, intro, assertionLevel, inputs)
  /\ Levels(assertionLevel, ok, inputs, trail_ok, checks, answer)
  /\ Updating(lemmas, order, update, pc, Core, ca, intro, assertionLevel, inputs)
  /\ Searching(pc, type, recheck, answer, watching, confl, Core, ca, assertionLevel, inputs)

-----------------------------------------------------------------------------
(* Literals and clauses. *)

\* What the negation and the variable of a literal are.
LEMMA LitFacts ==
  /\ \A l \in Lit : /\ -l \in Lit /\ -(-l) = l /\ Abs(l) \in Atom /\ Abs(-l) = Abs(l)
                    /\ l # -l /\ l \in Int /\ Abs(l) \in Nat /\ Abs(l) > 0
  /\ \A l, k \in Lit : Abs(l) = Abs(k) <=> (l = k \/ l = -k)
  /\ \A v \in Atom : v \in Lit /\ Abs(v) = v
<1>1. \A v \in Atom : v \in Nat /\ v > 0
  BY SolverAssumption
<1>2. ASSUME NEW l \in Lit
      PROVE  /\ -l \in Lit /\ -(-l) = l /\ Abs(l) \in Atom /\ Abs(-l) = Abs(l)
             /\ l # -l /\ l \in Int /\ Abs(l) \in Nat /\ Abs(l) > 0
  <2>1. CASE l \in Atom
    BY <1>1, <2>1 DEF Lit, Abs
  <2>2. ASSUME NEW v \in Atom, l = -v
        PROVE  /\ -l \in Lit /\ -(-l) = l /\ Abs(l) \in Atom /\ Abs(-l) = Abs(l)
               /\ l # -l /\ l \in Int /\ Abs(l) \in Nat /\ Abs(l) > 0
    <3>1. v \in Nat /\ v > 0 /\ -l = v
      BY <1>1, <2>2
    <3> QED  BY <2>2, <3>1 DEF Lit, Abs
  <2> QED  BY <2>1, <2>2 DEF Lit
<1>3. ASSUME NEW l \in Lit, NEW k \in Lit
      PROVE  Abs(l) = Abs(k) <=> (l = k \/ l = -k)
  BY <1>2 DEF Abs
<1>4. ASSUME NEW v \in Atom
      PROVE  v \in Lit /\ Abs(v) = v
  BY <1>1, <1>4 DEF Lit, Abs
<1> QED  BY <1>2, <1>3, <1>4

\* A is an assignment that satisfies the clauses D.
Models(A, D) == A \in Assignments /\ \A C \in D : C \cap A # {}

\* An assignment has one of each two opposite literals.
LEMMA AssignmentLits ==
  ASSUME NEW A \in Assignments
  PROVE  A \subseteq Lit /\ \A l \in Lit : l \in A <=> -l \notin A
<1>1. A \subseteq Lit /\ \A v \in Atom : (v \in A) # (-v \in A)
  BY DEF Assignments
<1>2. ASSUME NEW l \in Lit
      PROVE  l \in A <=> -l \notin A
  <2>1. CASE l \in Atom
    BY <1>1, <2>1
  <2>2. ASSUME NEW v \in Atom, l = -v
        PROVE  l \in A <=> -l \notin A
    <3>1. -l = v
      BY <2>2, LitFacts
    <3> QED  BY <1>1, <2>2, <3>1
  <2> QED  BY <2>1, <2>2 DEF Lit
<1> QED  BY <1>1, <1>2

\* A clause is entailed iff it has a literal in each model.
LEMMA EntailsModels ==
  ASSUME NEW D, NEW C \in SUBSET Lit
  PROVE  Entails(D, C) <=> \A A : Models(A, D) => C \cap A # {}
<1>1. ASSUME Entails(D, C), NEW A, Models(A, D)
      PROVE  C \cap A # {}
  <2>1. A \in Assignments /\ \A X \in D : X \cap A # {}
    BY <1>1 DEF Models
  <2>2. ~ ({-l : l \in C} \subseteq A)
    BY <1>1, <2>1 DEF Entails, Consistent
  <2>3. PICK l \in C : -l \notin A
    BY <2>2
  <2>4. l \in A
    BY <2>1, <2>3, AssignmentLits
  <2> QED  BY <2>3, <2>4
<1>2. ASSUME \A A : Models(A, D) => C \cap A # {}
      PROVE  Entails(D, C)
  <2> SUFFICES ASSUME NEW A \in Assignments, {-l : l \in C} \subseteq A,
                      \A X \in D : X \cap A # {}
               PROVE  FALSE
    BY DEF Entails, Consistent
  <2>1. Models(A, D)
    BY DEF Models
  <2>2. PICK l \in C : l \in A
    BY <1>2, <2>1
  <2>3. -l \in A
    OBVIOUS
  <2> QED  BY <2>2, <2>3, AssignmentLits
<1> QED  BY <1>1, <1>2

\* There is no model iff the clauses are inconsistent.
LEMMA InconsistentModels ==
  ASSUME NEW D
  PROVE  ~Consistent({}, D) <=> \A A : ~Models(A, D)
BY DEF Consistent, Models

\* More clauses have fewer models.
LEMMA ModelsFewer ==
  ASSUME NEW D, NEW E, D \subseteq E
  PROVE  \A A : Models(A, E) => Models(A, D)
BY DEF Models

\* What is asserted up to a level is asserted up to a higher one, and when more is.
LEMMA AssertedMore ==
  ASSUME NEW ins, NEW to, NEW u \in Nat, NEW w \in Nat, u <= w,
         \A k \in 0..u : ins[k] \subseteq to[k]
  PROVE  AssertedIn(ins, u) \subseteq AssertedIn(to, w)
<1>1. \A k \in 0..u : k \in 0..w
  OBVIOUS
<1> QED  BY <1>1 DEF AssertedIn

\* So what is entailed stays.
LEMMA EntailsMore ==
  ASSUME NEW ins, NEW to, NEW u \in Nat, NEW w \in Nat, u <= w,
         \A k \in 0..u : ins[k] \subseteq to[k], NEW C \in SUBSET Lit
  PROVE  /\ Entails(AssertedIn(ins, u), C) => Entails(AssertedIn(to, w), C)
         /\ Inconsistent(ins, u) => Inconsistent(to, w)
<1>1. AssertedIn(ins, u) \subseteq AssertedIn(to, w)
  BY AssertedMore
<1>2. \A A : Models(A, AssertedIn(to, w)) => Models(A, AssertedIn(ins, u))
  BY <1>1, ModelsFewer
<1> QED  BY <1>2, EntailsModels, InconsistentModels DEF Inconsistent
-----------------------------------------------------------------------------
(* Levels and positions on the trail. *)

\* The decision levels that begin before an index are the first ones, up to its level.
LEMMA LevelAt ==
  ASSUME NEW s, NEW i \in Int, s.trail_lim \in Seq(Nat),
         \A j, k \in DOMAIN s.trail_lim : j < k => s.trail_lim[j] < s.trail_lim[k]
  PROVE  /\ levelAt(s, i) \in 0..Len(s.trail_lim)
         /\ \A k \in DOMAIN s.trail_lim : s.trail_lim[k] < i <=> k <= levelAt(s, i)
<1> DEFINE lim == s.trail_lim
           n == Len(lim)
           T == {k \in 1..n : lim[k] < i}
           U == {k \in 1..(n + 1) : k \notin T}
           m == Min(U)
<1>1. n \in Nat /\ DOMAIN lim = 1..n /\ \A k \in 1..n : lim[k] \in Nat
  BY LenProperties, ElementOfSeq
<1>2. n + 1 \in U /\ U \subseteq Nat
  BY <1>1
<1>3. m \in U /\ \A k \in U : m <= k
  BY <1>2, NatMin
<1> HIDE DEF m
<1>4. \A k \in 1..n : k \in T <=> k <= m - 1
  <2>1. ASSUME NEW k \in 1..n, k \in T
        PROVE  k <= m - 1
    <3> SUFFICES ASSUME m <= k
                 PROVE  FALSE
      BY <1>1, <1>2, <1>3
    <3>1. m \in 1..n /\ m \notin T
      BY <1>1, <1>2, <1>3
    <3>2. m \in 1..n /\ ~ (lim[m] < i)
      BY <3>1
    <3>3. m < k => lim[m] < lim[k]
      BY <1>1, <3>1
    <3>4. m = k \/ m < k
      BY <3>1
    <3> QED  BY <1>1, <2>1, <3>2, <3>3, <3>4
  <2>2. ASSUME NEW k \in 1..n, k <= m - 1
        PROVE  k \in T
    <3>1. k \notin U
      BY <1>1, <1>2, <1>3, <2>2
    <3>2. k \in 1..(n + 1)
      BY <1>1
    <3> HIDE DEF T
    <3> QED  BY <3>1, <3>2
  <2> QED  BY <2>1, <2>2
<1>5. m \in 1..(n + 1)
  BY <1>3 DEF U
<1>6. T = 1..(m - 1)
  BY <1>1, <1>4, <1>5
<1>7. levelAt(s, i) = m - 1
  <2>1. levelAt(s, i) = Cardinality(T)
    BY <1>1 DEF levelAt
  <2>2. Cardinality(1..(m - 1)) = m - 1
    BY <1>1, <1>5, FS_Interval
  <2> QED  BY <1>6, <2>1, <2>2
<1> QED  BY <1>1, <1>4, <1>5, <1>7

\* In particular for those at level 0, at the last level, and for two indices.
LEMMA LevelIs ==
  ASSUME NEW s, NEW q, Decisions(s.trail, s.trail_lim, q), NEW i \in Int, NEW j \in Int
  PROVE  /\ levelAt(s, i) \in 0..Len(s.trail_lim)
         /\ levelAt(s, i) = 0 <=> AtZero(s.trail_lim, i)
         /\ levelAt(s, i) = Len(s.trail_lim) <=> AtTop(s.trail_lim, i)
         /\ levelAt(s, i) <= levelAt(s, j)
              <=> \A k \in DOMAIN s.trail_lim : j <= s.trail_lim[k] => i <= s.trail_lim[k]
         /\ i <= j => levelAt(s, i) <= levelAt(s, j)
<1> DEFINE lim == s.trail_lim
           n == Len(lim)
           a == levelAt(s, i)
           b == levelAt(s, j)
<1>1. n \in Nat /\ DOMAIN lim = 1..n /\ \A k \in 1..n : lim[k] \in Nat
  BY LenProperties, ElementOfSeq DEF Decisions
<1>2. /\ a \in 0..n /\ b \in 0..n
      /\ \A k \in 1..n : lim[k] < i <=> k <= a
      /\ \A k \in 1..n : lim[k] < j <=> k <= b
  BY <1>1, LevelAt DEF Decisions
<1> HIDE DEF a, b, n
<1>3. a = 0 <=> \A k \in 1..n : i <= lim[k]
  <2>1. ASSUME a # 0
        PROVE  \E k \in 1..n : lim[k] < i
    <3>1. 1 \in 1..n /\ 1 <= a
      BY <1>1, <1>2, <2>1
    <3> QED  BY <1>2, <3>1
  <2>2. ASSUME a = 0, NEW k \in 1..n
        PROVE  i <= lim[k]
    BY <1>1, <1>2, <2>2
  <2> QED  BY <1>1, <2>1, <2>2
<1>4. a = n <=> \A k \in 1..n : lim[k] < i
  <2>1. ASSUME a # n
        PROVE  \E k \in 1..n : ~ (lim[k] < i)
    <3>1. n \in 1..n /\ ~ (n <= a)
      BY <1>1, <1>2, <2>1
    <3> QED  BY <1>2, <3>1
  <2>2. ASSUME a = n, NEW k \in 1..n
        PROVE  lim[k] < i
    BY <1>1, <1>2, <2>2
  <2> QED  BY <2>1, <2>2
<1>5. a <= b <=> \A k \in 1..n : j <= lim[k] => i <= lim[k]
  <2>1. ASSUME a <= b, NEW k \in 1..n, j <= lim[k]
        PROVE  i <= lim[k]
    <3>1. ~ (k <= b)
      BY <1>1, <1>2, <2>1
    <3> QED  BY <1>1, <1>2, <2>1, <3>1
  <2>2. ASSUME ~ (a <= b)
        PROVE  \E k \in 1..n : j <= lim[k] /\ ~ (i <= lim[k])
    <3>1. a \in 1..n /\ ~ (a <= b) /\ a <= a
      BY <1>1, <1>2, <2>2
    <3>2. lim[a] < i /\ ~ (lim[a] < j) /\ lim[a] \in Nat
      BY <1>1, <1>2, <3>1
    <3> QED  BY <3>1, <3>2
  <2> QED  BY <2>1, <2>2
<1>6. i <= j => a <= b
  <2> SUFFICES ASSUME i <= j
               PROVE  \A k \in 1..n : j <= lim[k] => i <= lim[k]
    BY <1>5
  <2> QED  BY <1>1
<1> QED  BY <1>1, <1>2, <1>3, <1>4, <1>5, <1>6 DEF AtZero, AtTop, a, b, n

\* The fields of the entries.
LEMMA EntryLits ==
  ASSUME NEW t \in Seq(Entry)
  PROVE  /\ DOMAIN t = 1..Len(t) /\ Len(t) \in Nat
         /\ \A i \in DOMAIN t : /\ t[i] \in Entry /\ t[i].lit \in Lit
                                /\ t[i].reason \in Nat \cup {Lazy}
                                /\ t[i].user \in 0..MaxLevel
                                /\ t[i].why \in {{}} \cup Theory
<1>1. DOMAIN t = 1..Len(t) /\ Len(t) \in Nat /\ \A i \in 1..Len(t) : t[i] \in Entry
  BY ElementOfSeq, LenProperties
<1>2. \A e \in Entry : /\ e.lit \in Lit /\ e.reason \in Nat \cup {Lazy}
                       /\ e.user \in 0..MaxLevel /\ e.why \in {{}} \cup Theory
  BY DEF Entry
<1> HIDE DEF Entry
<1> QED  BY <1>1, <1>2

\* Where a literal is on the trail, with its levels.
LEMMA AssignedAt ==
  ASSUME NEW s, NEW cs, NEW in, NEW al, Graph(s.trail, cs, in, al),
         NEW i \in DOMAIN s.trail, NEW l \in Lit, l = s.trail[i].lit \/ l = -s.trail[i].lit
  PROVE  /\ trail_index(s, l) = i /\ level(s, l) = levelAt(s, i)
         /\ user_level(s, l) = s.trail[i].user
<1> DEFINE t == s.trail
<1>1. \A j \in DOMAIN t : t[j].lit \in Lit
  BY EntryLits DEF Graph
<1>2. t[i].lit \in {l, -l}
  BY <1>1, LitFacts
<1>3. ASSUME NEW j \in DOMAIN t, t[j].lit \in {l, -l}
      PROVE  j = i
  <2>1. Abs(t[j].lit) = Abs(t[i].lit)
    BY <1>1, <1>2, <1>3, LitFacts
  <2> QED  BY <2>1 DEF Graph
<1>4. trail_index(s, l) = i
  BY <1>2, <1>3 DEF trail_index
<1> QED  BY <1>4 DEF level, user_level

\* Where a literal that is assigned is.
LEMMA AssignedIs ==
  ASSUME NEW s, NEW cs, NEW in, NEW al, Graph(s.trail, cs, in, al), NEW l \in Lit
  PROVE  /\ IsTrue(s, l) <=> \E i \in DOMAIN s.trail : s.trail[i].lit = l
         /\ IsFalse(s, l) <=> \E i \in DOMAIN s.trail : s.trail[i].lit = -l
         /\ ~ (IsTrue(s, l) /\ IsFalse(s, l))
         /\ \A i \in DOMAIN s.trail : s.trail[i].lit \in Lit
         /\ DOMAIN s.trail = 1..Len(s.trail) /\ Len(s.trail) \in Nat
<1> DEFINE t == s.trail
<1>1. /\ \A j \in DOMAIN t : t[j].lit \in Lit
      /\ DOMAIN t = 1..Len(t) /\ Len(t) \in Nat
  BY EntryLits DEF Graph
<1>2. IsTrue(s, l) <=> \E i \in DOMAIN t : t[i].lit = l
  BY DEF IsTrue, Lits
<1>3. IsFalse(s, l) <=> \E i \in DOMAIN t : t[i].lit = -l
  BY DEF IsFalse, Lits
<1>4. ASSUME NEW i \in DOMAIN t, NEW j \in DOMAIN t, t[i].lit = l, t[j].lit = -l
      PROVE  FALSE
  <2>1. Abs(t[i].lit) = Abs(t[j].lit)
    BY <1>4, LitFacts
  <2>2. i = j
    BY <2>1 DEF Graph
  <2> QED  BY <1>4, <2>2, LitFacts
<1> QED  BY <1>1, <1>2, <1>3, <1>4

\* There are finitely many literals.
LEMMA LitFinite ==
  IsFiniteSet(Lit)
<1> DEFINE N == {-v : v \in Atom}
           f == [v \in Atom |-> -v]
<1>1. IsFiniteSet(Atom)
  BY SolverAssumption
<1>2. f \in Surjection(Atom, N)
  BY DEF Surjection
<1>3. IsFiniteSet(N)
  <2> HIDE DEF f, N
  <2> QED  BY <1>1, <1>2, FS_Surjection
<1> QED  BY <1>1, <1>3, FS_Union DEF Lit
-----------------------------------------------------------------------------
(* Sorted clauses. *)

\* The ranks of the elements of S differ.
Ranked(rank, S) ==
  /\ DOMAIN rank = S /\ IsFiniteSet(S) /\ \A l \in S : rank[l] \in Int
  /\ \A l, m \in S : rank[l] = rank[m] => l = m

\* They can be counted down.
LEMMA RankCount ==
  ASSUME NEW rank, NEW S, Ranked(rank, S)
  PROVE  \E q \in [1..Cardinality(S) -> S] :
           \A i, j \in DOMAIN q : i < j => rank[q[i]] > rank[q[j]]
<1> DEFINE n == Cardinality(S)
           above(l) == {m \in S : rank[m] > rank[l]}
           f == [l \in S |-> Cardinality(above(l))]
<1>1. n \in Nat
  BY FS_CardinalityType DEF Ranked
<1>2. ASSUME NEW l \in S
      PROVE  /\ IsFiniteSet(above(l)) /\ above(l) \subseteq S /\ l \notin above(l)
             /\ f[l] = Cardinality(above(l)) /\ f[l] \in 0..(n - 1)
  <2>1. l \notin above(l) /\ above(l) \subseteq S
    BY DEF Ranked
  <2>2. /\ IsFiniteSet(above(l)) /\ Cardinality(above(l)) <= n
        /\ n = Cardinality(above(l)) => S = above(l)
    BY <2>1, FS_Subset DEF Ranked
  <2>3. Cardinality(above(l)) \in Nat
    BY <2>2, FS_CardinalityType
  <2> HIDE DEF above
  <2>4. f[l] = Cardinality(above(l))
    OBVIOUS
  <2>5. Cardinality(above(l)) # n
    BY <2>1, <2>2
  <2> QED  BY <1>1, <2>1, <2>2, <2>3, <2>4, <2>5
<1>3. ASSUME NEW l \in S, NEW m \in S, rank[m] > rank[l]
      PROVE  f[m] < f[l]
  <2>1. above(m) \subseteq above(l) /\ m \in above(l) /\ m \notin above(m)
    BY <1>3 DEF Ranked
  <2>2. IsFiniteSet(above(l)) /\ IsFiniteSet(above(m))
    BY <1>2
  <2>3. /\ Cardinality(above(m)) <= Cardinality(above(l))
        /\ Cardinality(above(m)) = Cardinality(above(l)) => above(l) = above(m)
    BY <2>1, <2>2, FS_Subset
  <2>4. Cardinality(above(m)) # Cardinality(above(l))
    BY <2>1, <2>3
  <2>5. Cardinality(above(m)) \in Nat /\ Cardinality(above(l)) \in Nat
    BY <2>2, FS_CardinalityType
  <2>6. f[m] = Cardinality(above(m)) /\ f[l] = Cardinality(above(l))
    BY <1>2
  <2> HIDE DEF above, f
  <2> QED  BY <2>3, <2>4, <2>5, <2>6
<1>4. ASSUME NEW l \in S, NEW m \in S, f[l] = f[m]
      PROVE  l = m
  <2>1. rank[l] \in Int /\ rank[m] \in Int /\ f[l] \in Nat /\ f[m] \in Nat
    <3>1. f[l] \in 0..(n - 1) /\ f[m] \in 0..(n - 1)
      BY <1>2
    <3> HIDE DEF f, n
    <3> QED  BY <1>1, <3>1 DEF Ranked
  <2>2. ~ (rank[l] > rank[m]) /\ ~ (rank[m] > rank[l])
    <3> HIDE DEF f
    <3> QED  BY <1>3, <1>4, <2>1
  <2>3. rank[l] = rank[m]
    BY <2>1, <2>2
  <2> QED  BY <2>3 DEF Ranked
<1>5. f \in [S -> 0..(n - 1)]
  <2>1. f = [l \in S |-> f[l]]
    OBVIOUS
  <2> HIDE DEF f
  <2> QED  BY <1>2, <2>1
<1>6. f \in Injection(S, 0..(n - 1))
  <2> HIDE DEF f
  <2> QED  BY <1>4, <1>5 DEF Injection, IsInjective
<1>7. IsFiniteSet(0..(n - 1)) /\ Cardinality(0..(n - 1)) = n
  BY <1>1, FS_Interval
<1>8. f \in Surjection(S, 0..(n - 1))
  <2> HIDE DEF f
  <2> QED  BY <1>6, <1>7, FS_Injection
<1> HIDE DEF f
<1>9. ASSUME NEW i \in 1..n
      PROVE  \E l \in S : f[l] = i - 1
  <2>1. i - 1 \in 0..(n - 1)
    BY <1>1
  <2> QED  BY <1>8, <2>1 DEF Surjection
<1> DEFINE q == [i \in 1..n |-> CHOOSE l \in S : f[l] = i - 1]
<1>10. ASSUME NEW i \in 1..n
       PROVE  q[i] \in S /\ f[q[i]] = i - 1
  BY <1>9
<1>11. q \in [1..n -> S] /\ DOMAIN q = 1..n
  BY <1>10
<1> HIDE DEF q
<1>12. ASSUME NEW i \in 1..n, NEW j \in 1..n, i < j
       PROVE  rank[q[i]] > rank[q[j]]
  <2>1. f[q[i]] < f[q[j]]
    BY <1>10, <1>12
  <2>2. q[i] # q[j]
    BY <2>1, <1>10, <1>12
  <2>3. rank[q[i]] # rank[q[j]] /\ rank[q[i]] \in Int /\ rank[q[j]] \in Int
    BY <1>10, <2>2 DEF Ranked
  <2>4. ~ (rank[q[j]] > rank[q[i]])
    <3> SUFFICES ASSUME rank[q[j]] > rank[q[i]]
                 PROVE  FALSE
      OBVIOUS
    <3>1. f[q[j]] < f[q[i]]
      BY <1>3, <1>10
    <3> QED  BY <1>10, <1>12, <3>1
  <2> QED  BY <2>3, <2>4
<1> QED  BY <1>11, <1>12

\* So ByRank lists them.
LEMMA ByRankLists ==
  ASSUME NEW rank, NEW S, Ranked(rank, S)
  PROVE  /\ ByRank(rank) \in Seq(S) /\ Len(ByRank(rank)) = Cardinality(S)
         /\ ToSet(ByRank(rank)) = S
         /\ \A i, j \in 1..Cardinality(S) :
              i < j => rank[ByRank(rank)[i]] > rank[ByRank(rank)[j]]
<1> DEFINE q == ByRank(rank)
           n == Cardinality(S)
<1>1. n \in Nat
  BY FS_CardinalityType DEF Ranked
<1>2. q \in [1..n -> S] /\ \A i, j \in DOMAIN q : i < j => rank[q[i]] > rank[q[j]]
  <2>1. DOMAIN rank = S
    BY DEF Ranked
  <2> QED  BY <2>1, RankCount DEF ByRank
<1> HIDE DEF q
<1>3. q \in Seq(S) /\ Len(q) = n /\ DOMAIN q = 1..n
  BY <1>1, <1>2
<1>4. q \in Injection(1..n, S)
  <2> SUFFICES ASSUME NEW i \in 1..n, NEW j \in 1..n, q[i] = q[j], i # j
               PROVE  FALSE
    BY <1>2 DEF Injection, IsInjective
  <2>1. i < j \/ j < i
    BY <1>1
  <2>2. rank[q[i]] > rank[q[j]] \/ rank[q[j]] > rank[q[i]]
    BY <1>2, <1>3, <2>1
  <2>3. rank[q[i]] \in Int /\ rank[q[j]] = rank[q[i]]
    BY <1>2 DEF Ranked
  <2> QED  BY <2>2, <2>3
<1>5. IsFiniteSet(1..n) /\ Cardinality(1..n) = n
  BY <1>1, FS_Interval
<1>6. q \in Surjection(1..n, S)
  BY <1>4, <1>5, FS_Injection DEF Ranked
<1>7. \A x \in S : \E i \in 1..n : q[i] = x
  BY <1>6 DEF Surjection
<1>8. ToSet(q) = S
  BY <1>2, <1>3, <1>7 DEF ToSet
<1> QED  BY <1>2, <1>3, <1>8 DEF q

\* A clause of which no two literals are of the same variable is sorted: literals
\* that are not assigned first, then true ones, then false ones, the last first.
LEMMA SortedLits ==
  ASSUME NEW s, NEW cs, NEW in, NEW al, Graph(s.trail, cs, in, al),
         NEW C \in SUBSET Lit, \A l \in C : -l \notin C
  PROVE  LET m == Sorted(s, C) IN
         /\ m \in Seq(Lit) /\ ToSet(m) = C /\ Len(m) = Cardinality(C)
         /\ \A i, j \in 1..Len(m) : i < j =>
              /\ IsUndef(s, m[j]) => IsUndef(s, m[i])
              /\ IsTrue(s, m[j]) => ~IsFalse(s, m[i])
              /\ IsFalse(s, m[j]) /\ IsFalse(s, m[i])
                   => trail_index(s, m[j]) < trail_index(s, m[i])
              /\ m[i] # m[j]
<1> DEFINE t == s.trail
           L == Len(t)
           ix(l) == trail_index(s, l)
           rank == [l \in C |-> Rank(s, l)]
           m == Sorted(s, C)
<1>1. /\ \A l \in Lit : ~ (IsTrue(s, l) /\ IsFalse(s, l))
      /\ L \in Nat /\ DOMAIN t = 1..L /\ \A i \in 1..L : t[i].lit \in Lit
  <2>1. ASSUME NEW l \in Lit
        PROVE  ~ (IsTrue(s, l) /\ IsFalse(s, l))
    BY AssignedIs
  <2> QED  BY <2>1, EntryLits DEF Graph
<1>2. ASSUME NEW l \in Lit, ~IsUndef(s, l)
      PROVE  ix(l) \in 1..L /\ (t[ix(l)].lit = l \/ t[ix(l)].lit = -l)
  <2>1. PICK i \in 1..L : t[i].lit = l \/ t[i].lit = -l
    BY <1>1, <1>2, AssignedIs DEF IsUndef
  <2>2. l = t[i].lit \/ l = -t[i].lit
    BY <2>1, LitFacts
  <2>3. ix(l) = i
    BY <1>1, <2>2, AssignedAt
  <2> QED  BY <2>1, <2>3
<1> HIDE DEF ix
<1>3. ASSUME NEW l \in Lit
      PROVE  /\ IsUndef(s, l) => Rank(s, l) = 3 * L + Abs(l)
             /\ IsTrue(s, l) => Rank(s, l) = L + ix(l)
             /\ IsFalse(s, l) => Rank(s, l) = ix(l)
  BY <1>1 DEF Rank, ix, IsUndef
<1>4. ASSUME NEW l \in Lit
      PROVE  /\ IsUndef(s, l) \/ IsTrue(s, l) \/ IsFalse(s, l)
             /\ IsUndef(s, l) => Rank(s, l) \in Int /\ Rank(s, l) > 3 * L
             /\ IsTrue(s, l) => Rank(s, l) \in Int /\ Rank(s, l) > L /\ Rank(s, l) <= 2 * L
             /\ IsFalse(s, l) => Rank(s, l) \in Int /\ Rank(s, l) > 0 /\ Rank(s, l) <= L
  <2>1. IsUndef(s, l) \/ IsTrue(s, l) \/ IsFalse(s, l)
    BY DEF IsUndef
  <2>2. Abs(l) \in Nat /\ Abs(l) > 0
    BY LitFacts
  <2>3. ~IsUndef(s, l) => ix(l) \in 1..L
    BY <1>2
  <2>4. CASE IsUndef(s, l)
    <3>1. ~IsTrue(s, l) /\ ~IsFalse(s, l)
      BY <2>4 DEF IsUndef
    <3> QED  BY <1>1, <1>3, <2>2, <2>4, <3>1
  <2>5. CASE IsTrue(s, l)
    <3>1. ~IsUndef(s, l) /\ ~IsFalse(s, l)
      BY <1>1, <2>5 DEF IsUndef
    <3> QED  BY <1>1, <1>3, <2>3, <2>5, <3>1
  <2>6. CASE IsFalse(s, l)
    <3>1. ~IsUndef(s, l) /\ ~IsTrue(s, l)
      BY <1>1, <2>6 DEF IsUndef
    <3> QED  BY <1>1, <1>3, <2>3, <2>6, <3>1
  <2> QED  BY <2>1, <2>4, <2>5, <2>6
<1>5. ASSUME NEW k \in C, NEW l \in C, Rank(s, k) = Rank(s, l)
      PROVE  k = l
  <2>1. \/ IsUndef(s, k) /\ IsUndef(s, l)
        \/ IsTrue(s, k) /\ IsTrue(s, l)
        \/ IsFalse(s, k) /\ IsFalse(s, l)
    <3>1. k \in Lit /\ l \in Lit
      OBVIOUS
    <3> QED  BY <1>1, <1>4, <1>5, <3>1
  <2>2. k # -l
    OBVIOUS
  <2>3. Abs(k) = Abs(l)
    <3>1. CASE IsUndef(s, k) /\ IsUndef(s, l)
      <4>1. 3 * L + Abs(k) = 3 * L + Abs(l) /\ Abs(k) \in Nat /\ Abs(l) \in Nat
        BY <1>3, <1>5, <3>1, LitFacts
      <4> QED  BY <1>1, <4>1
    <3>2. CASE ~IsUndef(s, k) /\ ~IsUndef(s, l)
      <4>1. ix(k) \in 1..L /\ ix(l) \in 1..L
        BY <1>2, <3>2
      <4>2. ix(k) = ix(l)
        <5>1. CASE IsTrue(s, k) /\ IsTrue(s, l)
          <6>1. L + ix(k) = L + ix(l)
            BY <1>3, <1>5, <5>1
          <6> QED  BY <1>1, <4>1, <6>1
        <5>2. CASE IsFalse(s, k) /\ IsFalse(s, l)
          BY <1>3, <1>5, <5>2
        <5> QED  BY <2>1, <3>2, <5>1, <5>2
      <4>3. /\ t[ix(k)].lit = k \/ t[ix(k)].lit = -k
            /\ t[ix(l)].lit = l \/ t[ix(l)].lit = -l
        BY <1>2, <3>2
      <4> QED  BY <4>2, <4>3, LitFacts
    <3> QED  BY <2>1, <3>1, <3>2 DEF IsUndef
  <2> QED  BY <2>2, <2>3, LitFacts
<1>6. IsFiniteSet(C)
  <2>1. IsFiniteSet(Lit)
    BY LitFinite
  <2> QED  BY <2>1, FS_Subset
<1>7. Ranked(rank, C)
  <2>1. \A l \in C : rank[l] = Rank(s, l) /\ Rank(s, l) \in Int
    BY <1>4
  <2>2. DOMAIN rank = C
    OBVIOUS
  <2> HIDE DEF rank
  <2> QED  BY <1>5, <1>6, <2>1, <2>2 DEF Ranked
<1>8. /\ m \in Seq(C) /\ Len(m) = Cardinality(C) /\ ToSet(m) = C
      /\ \A i, j \in 1..Cardinality(C) : i < j => rank[m[i]] > rank[m[j]]
  <2>1. m = ByRank(rank)
    BY DEF Sorted
  <2> HIDE DEF m, rank
  <2> QED  BY <1>7, <2>1, ByRankLists
<1>9. m \in Seq(Lit) /\ Cardinality(C) \in Nat
  <2> HIDE DEF m
  <2> QED  BY <1>6, <1>8, FS_CardinalityType
<1>10. ASSUME NEW i \in 1..Len(m), NEW j \in 1..Len(m), i < j
       PROVE  /\ IsUndef(s, m[j]) => IsUndef(s, m[i])
              /\ IsTrue(s, m[j]) => ~IsFalse(s, m[i])
              /\ IsFalse(s, m[j]) /\ IsFalse(s, m[i]) => ix(m[j]) < ix(m[i])
              /\ m[i] # m[j]
  <2>1. m[i] \in C /\ m[j] \in C
    <3> HIDE DEF m
    <3> QED  BY <1>8, ElementOfSeq
  <2> HIDE DEF m
  <2>2. Rank(s, m[i]) > Rank(s, m[j])
    <3>1. rank[m[i]] = Rank(s, m[i]) /\ rank[m[j]] = Rank(s, m[j])
      BY <2>1
    <3> HIDE DEF rank
    <3> QED  BY <1>8, <1>10, <3>1
  <2> DEFINE k == m[i]
             l == m[j]
  <2>3. k \in Lit /\ l \in Lit /\ Rank(s, k) > Rank(s, l) /\ Rank(s, k) \in Int
    BY <1>4, <2>1, <2>2
  <2> HIDE DEF k, l
  <2>4. IsUndef(s, l) => IsUndef(s, k)
    BY <1>1, <1>4, <2>3
  <2>5. IsTrue(s, l) => ~IsFalse(s, k)
    BY <1>1, <1>4, <2>3
  <2>6. IsFalse(s, l) /\ IsFalse(s, k) => ix(l) < ix(k)
    <3> SUFFICES ASSUME IsFalse(s, l), IsFalse(s, k)
                 PROVE  ix(l) < ix(k)
      OBVIOUS
    <3>1. Rank(s, l) = ix(l) /\ Rank(s, k) = ix(k)
      BY <1>3, <2>3
    <3>2. ix(l) \in 1..L /\ ix(k) \in 1..L
      BY <1>2, <2>3 DEF IsUndef
    <3> QED  BY <2>3, <3>1, <3>2
  <2>7. k # l
    BY <2>3
  <2> QED  BY <2>4, <2>5, <2>6, <2>7 DEF k, l
<1> QED  BY <1>8, <1>9, <1>10 DEF ix
-----------------------------------------------------------------------------
(* The trail as it grows and shrinks. *)

\* The premises of an entry, by the kind of its reason.
LEMMA PremisesAre ==
  ASSUME NEW e, e.reason \in Nat \cup {Lazy}, NEW cs
  PROVE  /\ e.reason = Undef \/ e.reason = Lazy \/ e.reason > 0
         /\ e.reason = Undef => ~ (e.reason > 0) /\ e.reason # Lazy /\ PremisesIn(cs, e) = {}
         /\ e.reason = Lazy => ~ (e.reason > 0) /\ PremisesIn(cs, e) = e.why \ {e.lit}
         /\ e.reason > 0 => /\ e.reason # Lazy /\ e.reason # Undef
                            /\ PremisesIn(cs, e) = ToSet(cs[e.reason].lits) \ {e.lit}
<1>1. e.reason \in Nat \/ e.reason = -1
  BY DEF Lazy
<1>2. e.reason = Undef \/ e.reason = Lazy \/ e.reason > 0
  BY <1>1 DEF Undef, Lazy
<1>3. e.reason = Undef => ~ (e.reason > 0) /\ e.reason # Lazy
  BY DEF Undef, Lazy
<1>4. e.reason = Lazy => ~ (e.reason > 0) /\ e.reason # Undef
  BY DEF Undef, Lazy
<1>5. e.reason > 0 => e.reason # Lazy /\ e.reason # Undef
  BY DEF Undef, Lazy
<1> QED  BY <1>2, <1>3, <1>4, <1>5 DEF PremisesIn

\* The clauses that are no reasons may change, and in the others the order of the
\* literals behind the first.
LEMMA GraphClauses ==
  ASSUME NEW t, NEW cs, NEW in, NEW al, Graph(t, cs, in, al), NEW to,
         \A i \in DOMAIN t : t[i].reason > 0 =>
            /\ t[i].reason \in DOMAIN to
            /\ to[t[i].reason].lits[1] = cs[t[i].reason].lits[1]
            /\ to[t[i].reason].level = cs[t[i].reason].level
            /\ ToSet(to[t[i].reason].lits) = ToSet(cs[t[i].reason].lits)
  PROVE  Graph(t, to, in, al)
<1>1. ASSUME NEW i \in DOMAIN t
      PROVE  Rests(t, to, i)
  <2>1. Rests(t, cs, i)
    BY DEF Graph
  <2>2. t[i].reason \in Nat \cup {Lazy}
    BY EntryLits DEF Graph
  <2>3. PremisesIn(to, t[i]) = PremisesIn(cs, t[i])
    <3>1. CASE t[i].reason > 0
      <4>1. ToSet(to[t[i].reason].lits) = ToSet(cs[t[i].reason].lits)
        BY <3>1
      <4>2. PremisesIn(to, t[i]) = ToSet(to[t[i].reason].lits) \ {t[i].lit}
        BY <2>2, <3>1, PremisesAre, Zenon
      <4>3. PremisesIn(cs, t[i]) = ToSet(cs[t[i].reason].lits) \ {t[i].lit}
        BY <2>2, <3>1, PremisesAre, Zenon
      <4> QED  BY <4>1, <4>2, <4>3, Zenon
    <3>2. CASE ~ (t[i].reason > 0)
      <4>1. t[i].reason = Undef \/ t[i].reason = Lazy
        BY <2>2, <3>2, PremisesAre
      <4> QED  BY <4>1 DEF PremisesIn, Undef, Lazy
    <3> QED  BY <3>1, <3>2
  <2> QED  BY <2>1, <2>3 DEF Rests
<1> QED  BY <1>1 DEF Graph

\* An entry is appended.
LEMMA GraphAppend ==
  ASSUME NEW t, NEW cs, NEW in, NEW al \in 0..MaxLevel, Graph(t, cs, in, al),
         NEW e \in Entry, e.user = al, in[Abs(e.lit)] \in 0..al,
         e.lit \notin Lits(t), -e.lit \notin Lits(t),
         e.reason > 0 => /\ e.reason \in DOMAIN cs /\ cs[e.reason].lits[1] = e.lit
                         /\ cs[e.reason].level <= al,
         e.reason = Lazy => e.why \in Theory /\ e.lit \in e.why /\ e.why # {e.lit},
         \A l \in PremisesIn(cs, e) : -l \in Lits(t)
  PROVE  /\ Graph(Append(t, e), cs, in, al)
         /\ Len(Append(t, e)) = Len(t) + 1 /\ Append(t, e)[Len(t) + 1] = e
         /\ \A i \in DOMAIN t : i \in DOMAIN Append(t, e) /\ Append(t, e)[i] = t[i]
         /\ \A i \in DOMAIN Append(t, e) : i \in DOMAIN t \/ i = Len(t) + 1
         /\ Lits(Append(t, e)) = Lits(t) \cup {e.lit}
<1> DEFINE n == Len(t)
           u == Append(t, e)
<1>1. /\ n \in Nat /\ DOMAIN t = 1..n /\ \A i \in 1..n : t[i].lit \in Lit
      /\ \A i \in 1..n : t[i].user <= al
  BY EntryLits DEF Graph
<1>2. u \in Seq(Entry) /\ Len(u) = n + 1 /\ DOMAIN u = 1..(n + 1)
  BY LenProperties, AppendProperties DEF Graph
<1>3. u[n + 1] = e /\ \A i \in 1..n : u[i] = t[i]
  BY <1>1, AppendProperties DEF Graph
<1>4. e.lit \in Lit /\ e.user \in Int /\ al \in Int
  BY DEF Entry
<1>5. \A i \in 1..(n + 1) : i \in 1..n \/ i = n + 1
  BY <1>1
<1>6. \A i \in 1..n : i \in 1..(n + 1) /\ i < n + 1
  BY <1>1
<1> HIDE DEF u, n
<1>7. ASSUME NEW i \in 1..n
      PROVE  Abs(t[i].lit) # Abs(e.lit)
  <2>1. t[i].lit \in Lits(t) /\ t[i].lit \in Lit
    BY <1>1 DEF Lits
  <2> QED  BY <1>4, <2>1, LitFacts
<1>8. ASSUME NEW i \in 1..(n + 1), NEW j \in 1..(n + 1), Abs(u[i].lit) = Abs(u[j].lit)
      PROVE  i = j
  <2>1. CASE i \in 1..n /\ j \in 1..n
    BY <1>1, <1>3, <1>8, <2>1 DEF Graph
  <2>2. CASE i \in 1..n /\ j = n + 1
    BY <1>3, <1>7, <1>8, <2>2
  <2>3. CASE i = n + 1 /\ j \in 1..n
    BY <1>3, <1>7, <1>8, <2>3
  <2> QED  BY <1>5, <2>1, <2>2, <2>3
<1>9. ASSUME NEW i \in 1..(n + 1)
      PROVE  Rests(u, cs, i)
  <2>1. CASE i \in 1..n
    <3>1. Rests(t, cs, i) /\ u[i] = t[i]
      BY <1>1, <1>3, <2>1 DEF Graph
    <3>2. ASSUME NEW l, FalseBefore(t, l, i)
          PROVE  FalseBefore(u, l, i)
      BY <1>1, <1>2, <1>3, <1>6, <3>2 DEF FalseBefore
    <3> QED  BY <3>1, <3>2 DEF Rests
  <2>2. CASE i = n + 1
    <3>1. ASSUME NEW l \in PremisesIn(cs, e)
          PROVE  FalseBefore(u, l, i)
      <4>1. PICK j \in 1..n : t[j].lit = -l
        BY <1>1 DEF Lits
      <4> QED  BY <1>2, <1>3, <1>6, <2>2, <4>1 DEF FalseBefore
    <3> QED  BY <1>3, <2>2, <3>1 DEF Rests
  <2> QED  BY <1>5, <2>1, <2>2
<1>10. ASSUME NEW i \in 1..(n + 1)
       PROVE  u[i].user <= al /\ in[Abs(u[i].lit)] \in 0..u[i].user
  <2>1. CASE i \in 1..n
    BY <1>1, <1>3, <2>1 DEF Graph
  <2>2. CASE i = n + 1
    BY <1>3, <1>4, <2>2
  <2> QED  BY <1>5, <2>1, <2>2
<1>11. ASSUME NEW i \in 1..(n + 1), NEW j \in 1..(n + 1), i <= j
       PROVE  u[i].user <= u[j].user
  <2>1. CASE j \in 1..n
    <3>1. i \in 1..n
      BY <1>1, <1>5, <1>11, <2>1, <1>6 DEF n
    <3> QED  BY <1>1, <1>3, <1>11, <2>1, <3>1 DEF Graph
  <2>2. CASE j = n + 1
    BY <1>3, <1>10, <2>2
  <2> QED  BY <1>5, <2>1, <2>2
<1>12. Graph(u, cs, in, al)
  BY <1>2, <1>8, <1>9, <1>10, <1>11 DEF Graph
<1>13. Lits(u) = Lits(t) \cup {e.lit}
  <2>1. ASSUME NEW l \in Lits(u)
        PROVE  l \in Lits(t) \cup {e.lit}
    <3>1. PICK i \in 1..(n + 1) : l = u[i].lit
      BY <1>2 DEF Lits
    <3> QED  BY <1>1, <1>3, <1>5, <3>1 DEF Lits
  <2>2. ASSUME NEW l \in Lits(t)
        PROVE  l \in Lits(u)
    BY <1>1, <1>2, <1>3, <1>6, <2>2 DEF Lits
  <2>3. e.lit \in Lits(u)
    <3>1. n + 1 \in 1..(n + 1)
      BY <1>1
    <3> QED  BY <1>2, <1>3, <3>1 DEF Lits
  <2> QED  BY <2>1, <2>2, <2>3
<1> QED  BY <1>1, <1>2, <1>3, <1>5, <1>6, <1>12, <1>13 DEF u, n

\* A prefix, of the user level u and less, with the variables of these levels.
LEMMA GraphPrefix ==
  ASSUME NEW t, NEW cs, NEW in, NEW al, Graph(t, cs, in, al), NEW n \in 0..Len(t),
         NEW u, NEW to, \A i \in 1..n : /\ t[i].user <= u
                                        /\ to[Abs(t[i].lit)] = in[Abs(t[i].lit)]
  PROVE  LET p == SubSeq(t, 1, n) IN
         /\ Graph(p, cs, to, u)
         /\ Len(p) = n /\ DOMAIN p = 1..n
         /\ \A i \in 1..n : p[i] = t[i] /\ i \in DOMAIN t
<1> DEFINE p == SubSeq(t, 1, n)
<1>1. Len(t) \in Nat /\ DOMAIN t = 1..Len(t) /\ IsSequence(t) /\ t \in Seq(Entry)
  BY EntryLits, SequenceOver DEF Graph
<1>2. Len(p) = n /\ IsSequence(p) /\ \A i \in 1..n : p[i] = t[i] /\ i \in DOMAIN t
  BY <1>1, SequencePrefix
<1>3. DOMAIN p = 1..n
  BY <1>2, SequenceShape
<1>4. n \in Nat /\ \A i \in 1..n : p[i] \in Entry
  BY <1>1, <1>2, ElementOfSeq
<1> HIDE DEF p
<1>5. p \in Seq(Entry)
  BY <1>2, <1>4, SequenceWithin
<1>6. ASSUME NEW i \in 1..n
      PROVE  Rests(p, cs, i)
  <2>1. Rests(t, cs, i) /\ p[i] = t[i]
    BY <1>2 DEF Graph
  <2>2. ASSUME NEW l, FalseBefore(t, l, i)
        PROVE  FalseBefore(p, l, i)
    <3>1. PICK j \in DOMAIN t : j < i /\ t[j].lit = -l
      BY <2>2 DEF FalseBefore
    <3>2. j \in 1..n
      BY <1>1, <1>4, <3>1
    <3> QED  BY <1>2, <1>3, <3>1, <3>2 DEF FalseBefore
  <2> QED  BY <2>1, <2>2 DEF Rests
<1>7. Graph(p, cs, to, u)
  BY <1>2, <1>3, <1>5, <1>6 DEF Graph
<1> QED  BY <1>2, <1>3, <1>7 DEF p

\* The levels when an entry is appended, that has a reason or is at level 0.
LEMMA DecisionsAppend ==
  ASSUME NEW t \in Seq(Entry), NEW lim, NEW q, Decisions(t, lim, q), NEW e \in Entry,
         e.reason # Undef \/ lim = <<>>
  PROVE  Decisions(Append(t, e), lim, q)
<1> DEFINE n == Len(t)
           u == Append(t, e)
<1>1. n \in Nat /\ DOMAIN t = 1..n
  BY LenProperties
<1>2. Len(u) = n + 1 /\ DOMAIN u = 1..(n + 1)
  BY LenProperties, AppendProperties
<1>3. u[n + 1] = e /\ \A i \in 1..n : u[i] = t[i]
  BY <1>1, AppendProperties
<1>4. lim \in Seq(Nat) /\ DOMAIN lim = 1..Len(lim) /\ \A k \in DOMAIN lim : lim[k] \in Nat
  BY LenProperties, ElementOfSeq DEF Decisions
<1>5. \A i \in 1..(n + 1) : i \in 1..n \/ i = n + 1
  BY <1>1
<1> HIDE DEF u, n
<1>6. ASSUME NEW i \in 1..(n + 1), u[i].reason = Undef
      PROVE  AtZero(lim, i) \/ \E k \in DOMAIN lim : i = lim[k] + 1
  <2>1. CASE i \in 1..n
    BY <1>1, <1>3, <1>6, <2>1 DEF Decisions
  <2>2. CASE i = n + 1
    <3>1. lim = <<>>
      BY <1>3, <1>6, <2>2
    <3> QED  BY <3>1 DEF AtZero
  <2> QED  BY <1>5, <2>1, <2>2
<1>7. \A k \in DOMAIN lim : lim[k] < n + 1 /\ lim[k] <= q
  BY <1>1, <1>4 DEF Decisions, n
<1>8. q \in 0..(n + 1)
  BY <1>1 DEF Decisions, n
<1>9. Decisions(u, lim, q)
  BY <1>2, <1>4, <1>6, <1>7, <1>8 DEF Decisions
<1> QED  BY <1>9 DEF u

\* A level begins with an entry, when all before it was propagated.
LEMMA DecisionsLevel ==
  ASSUME NEW t \in Seq(Entry), NEW lim, NEW q, Decisions(t, lim, q), NEW e \in Entry,
         q = Len(t)
  PROVE  Decisions(Append(t, e), Append(lim, Len(t)), q)
<1> DEFINE n == Len(t)
           u == Append(t, e)
           d == Len(lim)
           to == Append(lim, n)
<1>1. n \in Nat /\ DOMAIN t = 1..n
  BY LenProperties
<1>2. Len(u) = n + 1 /\ DOMAIN u = 1..(n + 1)
  BY LenProperties, AppendProperties
<1>3. u[n + 1] = e /\ \A i \in 1..n : u[i] = t[i]
  BY <1>1, AppendProperties
<1>4. /\ lim \in Seq(Nat) /\ d \in Nat /\ DOMAIN lim = 1..d
      /\ \A k \in 1..d : lim[k] \in Nat /\ lim[k] < n /\ lim[k] <= q
  BY LenProperties, ElementOfSeq DEF Decisions
<1>5. to \in Seq(Nat) /\ Len(to) = d + 1 /\ DOMAIN to = 1..(d + 1)
  BY <1>1, <1>4, LenProperties, AppendProperties
<1>6. to[d + 1] = n /\ \A k \in 1..d : to[k] = lim[k]
  BY <1>1, <1>4, AppendProperties
<1>7. \A i \in 1..(n + 1) : i \in 1..n \/ i = n + 1
  BY <1>1
<1>8. \A i \in 1..(d + 1) : i \in 1..d \/ i = d + 1
  BY <1>4
<1>9. \A k \in 1..d : k \in 1..(d + 1)
  BY <1>4
<1> HIDE DEF u, n, to, d
<1>10. ASSUME NEW i \in 1..(n + 1), u[i].reason = Undef
       PROVE  AtZero(to, i) \/ \E k \in 1..(d + 1) : i = to[k] + 1
  <2>1. CASE i \in 1..n
    <3>1. AtZero(lim, i) \/ \E k \in 1..d : i = lim[k] + 1
      BY <1>1, <1>3, <1>4, <1>10, <2>1 DEF Decisions
    <3>2. CASE AtZero(lim, i)
      <4>1. ASSUME NEW k \in 1..(d + 1)
            PROVE  i <= to[k]
        <5>1. CASE k \in 1..d
          BY <1>4, <1>6, <3>2, <5>1 DEF AtZero
        <5>2. CASE k = d + 1
          BY <1>6, <2>1, <5>2
        <5> QED  BY <1>8, <5>1, <5>2
      <4> QED  BY <1>5, <4>1 DEF AtZero
    <3>3. ASSUME NEW k \in 1..d, i = lim[k] + 1
          PROVE  \E m \in 1..(d + 1) : i = to[m] + 1
      BY <1>6, <1>9, <3>3
    <3> QED  BY <3>1, <3>2, <3>3
  <2>2. CASE i = n + 1
    <3>1. d + 1 \in 1..(d + 1)
      BY <1>4
    <3> QED  BY <1>6, <2>2, <3>1
  <2> QED  BY <1>7, <2>1, <2>2
<1>11. ASSUME NEW k \in 1..(d + 1)
       PROVE  to[k] < n + 1 /\ to[k] <= q
  <2>1. CASE k \in 1..d
    BY <1>1, <1>4, <1>6, <2>1
  <2>2. CASE k = d + 1
    BY <1>1, <1>6, <2>2 DEF n
  <2> QED  BY <1>8, <2>1, <2>2
<1>12. ASSUME NEW j \in 1..(d + 1), NEW k \in 1..(d + 1), j < k
       PROVE  to[j] < to[k]
  <2>1. j \in 1..d
    BY <1>4, <1>12
  <2>2. CASE k \in 1..d
    BY <1>4, <1>6, <1>12, <2>1, <2>2 DEF Decisions
  <2>3. CASE k = d + 1
    BY <1>4, <1>6, <2>1, <2>3
  <2> QED  BY <1>8, <2>2, <2>3
<1>13. q \in 0..(n + 1)
  BY <1>1 DEF n
<1>14. Decisions(u, to, q)
  BY <1>2, <1>5, <1>10, <1>11, <1>12, <1>13 DEF Decisions
<1> QED  BY <1>14 DEF u, to, n

\* What the levels are.
LEMMA DecisionsShape ==
  ASSUME NEW t, NEW lim, NEW q, Decisions(t, lim, q)
  PROVE  /\ lim \in Seq(Nat) /\ Len(lim) \in Nat /\ DOMAIN lim = 1..Len(lim)
         /\ \A k \in 1..Len(lim) : lim[k] \in Nat /\ lim[k] < Len(t) /\ lim[k] <= q
         /\ lim = <<>> <=> Len(lim) = 0
         /\ q \in 0..Len(t)
<1>1. /\ lim \in Seq(Nat) /\ q \in 0..Len(t)
      /\ \A k \in DOMAIN lim : lim[k] < Len(t) /\ lim[k] <= q
  BY DEF Decisions
<1>2. /\ Len(lim) \in Nat /\ DOMAIN lim = 1..Len(lim)
      /\ \A k \in 1..Len(lim) : lim[k] \in Nat
  BY <1>1, LenProperties, ElementOfSeq
<1>3. lim = <<>> <=> Len(lim) = 0
  BY <1>1, EmptySeq
<1> QED  BY <1>1, <1>2, <1>3

\* No entry at level 0 is at another level: without levels all are.
LEMMA AtZeroLevels ==
  ASSUME NEW t, NEW lim, NEW q, Decisions(t, lim, q)
  PROVE  /\ lim = <<>> => \A i : AtZero(lim, i) /\ AtTop(lim, i)
         /\ lim # <<>> => \A i \in Int : ~ (AtZero(lim, i) /\ AtTop(lim, i))
<1>1. CASE lim = <<>>
  BY <1>1 DEF AtZero, AtTop
<1>2. ASSUME lim # <<>>, NEW i \in Int, AtZero(lim, i), AtTop(lim, i)
      PROVE  FALSE
  <2>1. 1 \in DOMAIN lim /\ lim[1] \in Nat
    BY <1>2, DecisionsShape
  <2>2. i <= lim[1] /\ lim[1] < i
    BY <1>2, <2>1 DEF AtZero, AtTop
  <2> QED  BY <2>1, <2>2
<1> QED  BY <1>1, <1>2

\* The levels up to lev.
LEMMA DecisionsPrefix ==
  ASSUME NEW t \in Seq(Entry), NEW lim, NEW q, Decisions(t, lim, q),
         NEW lev \in Nat, lev < Len(lim)
  PROVE  LET n == lim[lev + 1]
             p == SubSeq(lim, 1, lev)
         IN  /\ n \in 0..Len(t) /\ Len(p) = lev /\ DOMAIN p = 1..lev
             /\ \A k \in 1..lev : k \in DOMAIN lim /\ p[k] = lim[k] /\ lim[k] < n
             /\ \A k \in DOMAIN lim : k \in 1..lev \/ n <= lim[k]
             /\ \A i \in 1..n : AtZero(p, i) <=> AtZero(lim, i)
             /\ Decisions(SubSeq(t, 1, n), p, n)
<1> DEFINE n == lim[lev + 1]
           p == SubSeq(lim, 1, lev)
           d == Len(lim)
           b == SubSeq(t, 1, n)
<1>1. /\ d \in Nat /\ DOMAIN lim = 1..d /\ IsSequence(lim)
      /\ \A k \in 1..d : lim[k] \in Nat /\ lim[k] < Len(t)
      /\ \A j, k \in 1..d : j < k => lim[j] < lim[k]
  BY DecisionsShape, SequenceOver DEF Decisions
<1>2. /\ Len(t) \in Nat /\ DOMAIN t = 1..Len(t) /\ IsSequence(t)
  BY LenProperties, SequenceOver
<1>3. lev \in 0..d /\ lev + 1 \in 1..d
  BY <1>1
<1>4. n \in 0..Len(t)
  BY <1>1, <1>2, <1>3
<1>5. Len(p) = lev /\ IsSequence(p) /\ \A k \in 1..lev : p[k] = lim[k]
  BY <1>1, <1>3, SequencePrefix
<1>6. DOMAIN p = 1..lev
  BY <1>5, SequenceShape
<1>7. Len(b) = n /\ IsSequence(b) /\ \A i \in 1..n : b[i] = t[i]
  BY <1>2, <1>4, SequencePrefix
<1>8. DOMAIN b = 1..n
  BY <1>7, SequenceShape
<1>9. \A k \in 1..lev : k \in 1..d /\ lim[k] < n
  BY <1>1, <1>3
<1>10. \A k \in 1..d : k \in 1..lev \/ n <= lim[k]
  <2> SUFFICES ASSUME NEW k \in 1..d, k \notin 1..lev
               PROVE  n <= lim[k]
    OBVIOUS
  <2>1. k = lev + 1 \/ lev + 1 < k
    BY <1>1
  <2> QED  BY <1>1, <1>3, <2>1
<1> HIDE DEF n, p, d, b
<1>11. p \in Seq(Nat)
  <2>1. \A k \in 1..lev : p[k] \in Nat
    BY <1>1, <1>5, <1>9
  <2> QED  BY <1>5, <2>1, SequenceWithin
<1>12. ASSUME NEW i \in 1..n
       PROVE  AtZero(p, i) <=> AtZero(lim, i)
  <2>1. ASSUME AtZero(p, i), NEW k \in 1..d
        PROVE  i <= lim[k]
    <3>1. CASE k \in 1..lev
      BY <1>5, <1>6, <2>1, <3>1 DEF AtZero
    <3>2. CASE n <= lim[k]
      BY <1>1, <1>4, <3>2
    <3> QED  BY <1>10, <3>1, <3>2
  <2>2. ASSUME AtZero(lim, i), NEW k \in 1..lev
        PROVE  i <= p[k]
    BY <1>1, <1>5, <1>9, <2>2 DEF AtZero
  <2> QED  BY <1>1, <1>6, <2>1, <2>2 DEF AtZero
<1>13. ASSUME NEW i \in 1..n, b[i].reason = Undef
       PROVE  AtZero(p, i) \/ \E k \in 1..lev : i = p[k] + 1
  <2>1. t[i].reason = Undef /\ i \in DOMAIN t
    BY <1>2, <1>4, <1>7, <1>13
  <2>2. AtZero(lim, i) \/ \E k \in 1..d : i = lim[k] + 1
    BY <1>1, <2>1 DEF Decisions
  <2>3. ASSUME NEW k \in 1..d, i = lim[k] + 1
        PROVE  \E j \in 1..lev : i = p[j] + 1
    <3>1. ~ (n <= lim[k])
      BY <1>1, <1>4, <2>3
    <3> QED  BY <1>5, <1>10, <2>3, <3>1
  <2> QED  BY <1>12, <2>2, <2>3
<1>14. \A k \in 1..lev : p[k] < n /\ p[k] <= n
  BY <1>1, <1>4, <1>5, <1>9
<1>15. \A j, k \in 1..lev : j < k => p[j] < p[k]
  BY <1>1, <1>5, <1>9
<1>16. n \in 0..n
  BY <1>4
<1>17. Decisions(b, p, n)
  BY <1>6, <1>7, <1>8, <1>11, <1>13, <1>14, <1>15, <1>16 DEF Decisions
<1> QED  BY <1>1, <1>4, <1>5, <1>6, <1>9, <1>10, <1>12, <1>17 DEF n, p, d, b

\* The entries of level 0 that are left are still entailed.
LEMMA FixedPrefix ==
  ASSUME NEW t \in Seq(Entry), NEW lim, NEW q, Decisions(t, lim, q), NEW ins,
         Fixed(t, lim, ins), NEW lev \in Nat, lev < Len(lim)
  PROVE  Fixed(SubSeq(t, 1, lim[lev + 1]), SubSeq(lim, 1, lev), ins)
<1> DEFINE n == lim[lev + 1]
           p == SubSeq(lim, 1, lev)
           b == SubSeq(t, 1, n)
<1>1. n \in 0..Len(t) /\ \A i \in 1..n : AtZero(p, i) <=> AtZero(lim, i)
  BY DecisionsPrefix
<1>2. IsSequence(t) /\ Len(t) \in Nat /\ DOMAIN t = 1..Len(t)
  BY LenProperties, SequenceOver
<1> HIDE DEF n
<1>3. Len(b) = n /\ IsSequence(b) /\ \A i \in 1..n : b[i] = t[i]
  BY <1>1, <1>2, SequencePrefix
<1>4. DOMAIN b = 1..n
  BY <1>3, SequenceShape
<1>5. \A i \in 1..n : i \in DOMAIN t
  BY <1>1, <1>2
<1> HIDE DEF b, p
<1>6. Fixed(b, p, ins)
  BY <1>1, <1>3, <1>4, <1>5 DEF Fixed
<1> QED  BY <1>6 DEF b, p, n

\* A new entry is at level 0 only if there is no other level.
LEMMA FixedAppend ==
  ASSUME NEW t \in Seq(Entry), NEW lim, NEW q, Decisions(t, lim, q), NEW ins,
         Fixed(t, lim, ins), NEW e \in Entry,
         lim = <<>> => Entails(AssertedIn(ins, e.user), {e.lit})
  PROVE  /\ Fixed(Append(t, e), lim, ins)
         /\ lim # <<>> => ~AtZero(lim, Len(t) + 1)
<1> DEFINE n == Len(t)
           u == Append(t, e)
<1>1. n \in Nat /\ DOMAIN t = 1..n
  BY LenProperties
<1>2. Len(u) = n + 1 /\ DOMAIN u = 1..(n + 1)
  BY LenProperties, AppendProperties
<1>3. u[n + 1] = e /\ \A i \in 1..n : u[i] = t[i]
  BY <1>1, AppendProperties
<1>4. \A i \in 1..(n + 1) : i \in 1..n \/ i = n + 1
  BY <1>1
<1>5. lim # <<>> => ~AtZero(lim, n + 1)
  <2> SUFFICES ASSUME lim # <<>>, AtZero(lim, n + 1)
               PROVE  FALSE
    OBVIOUS
  <2>1. 1 \in DOMAIN lim /\ lim[1] \in Nat /\ lim[1] < n
    BY DecisionsShape
  <2>2. n + 1 <= lim[1]
    BY <2>1 DEF AtZero
  <2> QED  BY <1>1, <2>1, <2>2
<1> HIDE DEF u, n
<1>6. ASSUME NEW i \in 1..(n + 1), AtZero(lim, i)
      PROVE  Entails(AssertedIn(ins, u[i].user), {u[i].lit})
  <2>1. CASE i \in 1..n
    BY <1>1, <1>3, <1>6, <2>1 DEF Fixed
  <2>2. CASE i = n + 1
    BY <1>3, <1>5, <1>6, <2>2
  <2> QED  BY <1>4, <2>1, <2>2
<1>7. Fixed(u, lim, ins)
  BY <1>2, <1>6 DEF Fixed
<1> QED  BY <1>5, <1>7 DEF u, n

\* A decision is not at level 0.
LEMMA FixedLevel ==
  ASSUME NEW t \in Seq(Entry), NEW lim, NEW q, Decisions(t, lim, q), NEW ins,
         Fixed(t, lim, ins), NEW e \in Entry
  PROVE  Fixed(Append(t, e), Append(lim, Len(t)), ins)
<1> DEFINE n == Len(t)
           u == Append(t, e)
           to == Append(lim, n)
           d == Len(lim)
<1>1. n \in Nat /\ DOMAIN t = 1..n
  BY LenProperties
<1>2. Len(u) = n + 1 /\ DOMAIN u = 1..(n + 1)
  BY LenProperties, AppendProperties
<1>3. u[n + 1] = e /\ \A i \in 1..n : u[i] = t[i]
  BY <1>1, AppendProperties
<1>4. lim \in Seq(Nat) /\ d \in Nat /\ DOMAIN lim = 1..d
  BY DecisionsShape
<1>5. DOMAIN to = 1..(d + 1) /\ to[d + 1] = n /\ \A k \in 1..d : to[k] = lim[k]
  BY <1>1, <1>4, LenProperties, AppendProperties
<1>6. d + 1 \in 1..(d + 1) /\ \A k \in 1..d : k \in 1..(d + 1)
  BY <1>4
<1>7. \A i \in 1..(n + 1) : i \in 1..n \/ i = n + 1
  BY <1>1
<1> HIDE DEF u, n, to, d
<1>8. ASSUME NEW i \in 1..(n + 1), AtZero(to, i)
      PROVE  Entails(AssertedIn(ins, u[i].user), {u[i].lit})
  <2>1. CASE i \in 1..n
    <3>1. AtZero(lim, i)
      BY <1>4, <1>5, <1>6, <1>8 DEF AtZero
    <3> QED  BY <1>1, <1>3, <2>1, <3>1 DEF Fixed
  <2>2. CASE i = n + 1
    <3>1. n + 1 <= n
      BY <1>5, <1>6, <1>8, <2>2 DEF AtZero
    <3> QED  BY <1>1, <3>1
  <2> QED  BY <1>7, <2>1, <2>2
<1>9. Fixed(u, to, ins)
  BY <1>2, <1>8 DEF Fixed
<1> QED  BY <1>9 DEF u, n, to

\* More is asserted.
LEMMA FixedMore ==
  ASSUME NEW t \in Seq(Entry), NEW lim, NEW ins, Fixed(t, lim, ins), NEW al \in Nat,
         \A i \in DOMAIN t : t[i].user <= al, NEW to, \A k \in 0..al : ins[k] \subseteq to[k]
  PROVE  Fixed(t, lim, to)
<1> SUFFICES ASSUME NEW i \in DOMAIN t, AtZero(lim, i)
             PROVE  Entails(AssertedIn(to, t[i].user), {t[i].lit})
  BY DEF Fixed
<1> DEFINE u == t[i].user
           C == {t[i].lit}
<1>1. u \in Nat /\ u <= al /\ C \in SUBSET Lit
  BY EntryLits, SolverAssumption
<1>2. Entails(AssertedIn(ins, u), C)
  BY DEF Fixed
<1> HIDE DEF u, C
<1>3. \A k \in 0..u : ins[k] \subseteq to[k]
  BY <1>1
<1>4. u <= u
  BY <1>1
<1>5. Entails(AssertedIn(to, u), C)
  BY <1>1, <1>2, <1>3, <1>4, EntailsMore
<1> QED  BY <1>5 DEF u, C

\* Literals that are false at level 0 can be left out of an entailed clause.
LEMMA Dropped ==
  ASSUME NEW t \in Seq(Entry), NEW lim, NEW ins, Fixed(t, lim, ins),
         NEW lev \in Nat, NEW w \in Nat, lev <= w, NEW C \in SUBSET Lit, NEW D, D \subseteq C,
         Entails(AssertedIn(ins, lev), C),
         \A l \in C \ D : \E i \in DOMAIN t : t[i].lit = -l /\ AtZero(lim, i) /\ t[i].user <= w
  PROVE  Entails(AssertedIn(ins, w), D)
<1> SUFFICES ASSUME NEW A, Models(A, AssertedIn(ins, w)), D \cap A = {}
             PROVE  FALSE
  BY EntailsModels
<1>1. \A u \in Nat : u <= w => Models(A, AssertedIn(ins, u))
  <2> SUFFICES ASSUME NEW u \in Nat, u <= w
               PROVE  Models(A, AssertedIn(ins, u))
    OBVIOUS
  <2>1. \A k \in 0..u : ins[k] \subseteq ins[k]
    OBVIOUS
  <2>2. AssertedIn(ins, u) \subseteq AssertedIn(ins, w)
    BY <2>1, AssertedMore
  <2> QED  BY <2>2, ModelsFewer
<1>2. PICK l \in C : l \in A
  BY <1>1, EntailsModels
<1>3. PICK i \in DOMAIN t : t[i].lit = -l /\ AtZero(lim, i) /\ t[i].user <= w
  BY <1>2
<1>4. t[i].user \in Nat /\ t[i].lit \in Lit
  BY EntryLits, SolverAssumption
<1>5. Entails(AssertedIn(ins, t[i].user), {t[i].lit})
  BY <1>3 DEF Fixed
<1>6. t[i].lit \in A
  <2> DEFINE C1 == {t[i].lit}
  <2>1. C1 \in SUBSET Lit /\ Entails(AssertedIn(ins, t[i].user), C1)
    BY <1>4, <1>5
  <2>2. Models(A, AssertedIn(ins, t[i].user))
    BY <1>1, <1>3, <1>4
  <2> HIDE DEF C1
  <2>3. C1 \cap A # {}
    BY <2>1, <2>2, EntailsModels
  <2> QED  BY <2>3 DEF C1
<1>7. A \in Assignments
  BY DEF Models
<1> QED  BY <1>2, <1>3, <1>6, <1>7, AssignmentLits

\* An entailed clause without literals says that there is no model.
LEMMA EntailsNone ==
  ASSUME NEW ins, NEW u
  PROVE  Entails(AssertedIn(ins, u), {}) <=> Inconsistent(ins, u)
<1>1. {} \in SUBSET Lit /\ \A A : {} \cap A = {}
  OBVIOUS
<1>2. Entails(AssertedIn(ins, u), {}) <=> \A A : ~Models(A, AssertedIn(ins, u))
  BY <1>1, EntailsModels
<1> QED  BY <1>2, InconsistentModels DEF Inconsistent
-----------------------------------------------------------------------------
(* The clause database. *)

\* What is known of a clause.
LEMMA ClauseAt ==
  ASSUME NEW cs, NEW in, NEW al, NEW ins, Database(cs, in, al, ins), NEW c \in DOMAIN cs
  PROVE  /\ c \in Nat /\ c > 0 /\ c # Undef /\ c # Lazy
         /\ cs[c].lits \in Seq(Lit) /\ Len(cs[c].lits) \in Nat /\ Len(cs[c].lits) > 1
         /\ DOMAIN cs[c].lits = 1..Len(cs[c].lits)
         /\ \A k \in 1..Len(cs[c].lits) : cs[c].lits[k] \in Lit /\ cs[c].lits[k] \in ToSet(cs[c].lits)
         /\ ToSet(cs[c].lits) = {cs[c].lits[k] : k \in 1..Len(cs[c].lits)}
         /\ ToSet(cs[c].lits) \in SUBSET Lit
         /\ cs[c].level \in 0..MaxLevel /\ cs[c].level \in Nat /\ cs[c].level <= al
         /\ cs[c].removable \in BOOLEAN
         /\ Follow(ToSet(cs[c].lits), cs[c].level, in, ins)
<1> DEFINE q == cs[c].lits
<1>1. c \in Nat /\ c > 0 /\ c # Undef /\ c # Lazy
  BY DEF Database, Undef, Lazy
<1>2. cs[c] \in [lits : Seq(Lit), level : 0..MaxLevel, removable : BOOLEAN]
  BY DEF Database
<1>3. /\ q \in Seq(Lit) /\ cs[c].level \in 0..MaxLevel /\ cs[c].level \in Nat
      /\ cs[c].removable \in BOOLEAN
  BY <1>2
<1>4. Len(q) \in Nat /\ DOMAIN q = 1..Len(q) /\ \A k \in 1..Len(q) : q[k] \in Lit
  BY <1>3, LenProperties, ElementOfSeq
<1>5. ToSet(q) = {q[k] : k \in 1..Len(q)}
  BY <1>4 DEF ToSet
<1>6. Len(q) > 1 /\ cs[c].level <= al /\ Follow(ToSet(q), cs[c].level, in, ins)
  BY DEF Database
<1> HIDE DEF q
<1>7. ToSet(q) \in SUBSET Lit /\ \A k \in 1..Len(q) : q[k] \in ToSet(q)
  BY <1>4, <1>5
<1> QED  BY <1>1, <1>3, <1>4, <1>5, <1>6, <1>7 DEF q

\* A new reference is new.
LEMMA RefNew ==
  ASSUME NEW cs, IsFiniteSet(DOMAIN cs)
  PROVE  /\ NewRef(cs) \in Nat /\ NewRef(cs) > 0 /\ NewRef(cs) \notin DOMAIN cs
         /\ NewRef(cs) # Undef /\ NewRef(cs) # Lazy
<1> DEFINE n == Cardinality(DOMAIN cs)
           I == 1..(n + 1)
<1>1. n \in Nat
  BY FS_CardinalityType
<1>2. IsFiniteSet(I) /\ Cardinality(I) = n + 1
  BY <1>1, FS_Interval
<1>3. ~ (I \subseteq DOMAIN cs)
  <2> SUFFICES ASSUME I \subseteq DOMAIN cs
               PROVE  FALSE
    OBVIOUS
  <2>1. Cardinality(I) <= n
    BY FS_Subset
  <2> QED  BY <1>1, <1>2, <2>1
<1>4. NewRef(cs) \in I /\ NewRef(cs) \notin DOMAIN cs
  BY <1>3 DEF NewRef
<1> QED  BY <1>1, <1>4 DEF Undef, Lazy

\* What alloc adds.
LEMMA AllocFields ==
  ASSUME NEW cs, NEW lits, NEW lev, NEW removable
  PROVE  LET to == alloc(cs, lits, lev, removable)
             r  == NewRef(cs)
         IN  /\ DOMAIN to = DOMAIN cs \cup {r}
             /\ to[r] = [lits |-> lits, level |-> lev, removable |-> removable]
             /\ \A c \in DOMAIN cs : c # r => to[c] = cs[c]
             /\ to = [c \in DOMAIN cs \cup {r} |-> to[c]]
BY DEF alloc

\* What a clause follows from stays, and there may be more.
LEMMA FollowMore ==
  ASSUME NEW C \in SUBSET Lit, NEW lev \in Nat, NEW in, NEW ins, Follow(C, lev, in, ins),
         NEW w \in Nat, lev <= w, NEW to, \A v \in Atom : in[v] \in 0..lev => to[v] = in[v],
         NEW tins, \A k \in 0..lev : ins[k] \subseteq tins[k]
  PROVE  Follow(C, w, to, tins)
<1>1. Entails(AssertedIn(tins, w), C)
  BY EntailsMore DEF Follow
<1>2. ASSUME NEW v \in Vars(C)
      PROVE  to[v] \in 0..w
  <2>1. v \in Atom
    BY LitFacts DEF Vars
  <2>2. in[v] \in 0..lev
    BY DEF Follow
  <2>3. to[v] \in 0..lev
    BY <2>1, <2>2
  <2> QED  BY <2>3
<1> QED  BY <1>1, <1>2 DEF Follow

\* The database with a clause more.
LEMMA DatabaseAlloc ==
  ASSUME NEW cs, NEW in, NEW al \in 0..MaxLevel, NEW ins, Database(cs, in, al, ins),
         NEW lits \in Seq(Lit), Len(lits) > 1, NEW lev \in 0..MaxLevel, lev <= al,
         NEW removable \in BOOLEAN,
         Follow(ToSet(lits), lev, in, ins)
  PROVE  Database(alloc(cs, lits, lev, removable), in, al, ins)
<1> DEFINE to == alloc(cs, lits, lev, removable)
           r == NewRef(cs)
           R == [lits : Seq(Lit), level : 0..MaxLevel, removable : BOOLEAN]
           new == [lits |-> lits, level |-> lev, removable |-> removable]
<1>1. IsFiniteSet(DOMAIN cs) /\ DOMAIN cs \subseteq Nat \ {0} /\ \A c \in DOMAIN cs : cs[c] \in R
  BY DEF Database
<1>2. r \in Nat \ {0} /\ r \notin DOMAIN cs
  BY <1>1, RefNew
<1>3. /\ DOMAIN to = DOMAIN cs \cup {r} /\ to[r] = new
      /\ \A c \in DOMAIN cs : to[c] = cs[c]
      /\ to = [c \in DOMAIN cs \cup {r} |-> to[c]]
  BY <1>2 DEF alloc
<1>4. new \in R /\ new.lits = lits /\ new.level = lev
  OBVIOUS
<1>5. IsFiniteSet(DOMAIN cs \cup {r})
  BY <1>1, FS_AddElement
<1> HIDE DEF to, r, new, R
<1>6. \A c \in DOMAIN to : to[c] \in R
  BY <1>1, <1>3, <1>4
<1>7. to \in [DOMAIN to -> R]
  BY <1>3, <1>6
<1>8. ASSUME NEW c \in DOMAIN to
      PROVE  Len(to[c].lits) > 1 /\ to[c].level <= al /\ Follow(ToSet(to[c].lits), to[c].level, in, ins)
  <2>1. CASE c \in DOMAIN cs
    BY <1>3, <2>1 DEF Database
  <2>2. CASE c = r
    BY <1>3, <1>4, <2>2
  <2> QED  BY <1>3, <2>1, <2>2
<1>9. Database(to, in, al, ins)
  BY <1>1, <1>2, <1>3, <1>5, <1>7, <1>8 DEF Database, R
<1> QED  BY <1>9 DEF to

\* More variables exist, more is asserted, the user level is higher.
LEMMA DatabaseMore ==
  ASSUME NEW cs, NEW in, NEW al \in Nat, NEW ins, Database(cs, in, al, ins),
         NEW bl \in Nat, al <= bl, NEW to, \A v \in Atom : in[v] # -1 => to[v] = in[v],
         NEW tins, \A k \in 0..al : ins[k] \subseteq tins[k]
  PROVE  Database(cs, to, bl, tins)
<1>1. ASSUME NEW c \in DOMAIN cs
      PROVE  cs[c].level <= bl /\ Follow(ToSet(cs[c].lits), cs[c].level, to, tins)
  <2>1. /\ ToSet(cs[c].lits) \in SUBSET Lit /\ cs[c].level \in Nat /\ cs[c].level <= al
        /\ Follow(ToSet(cs[c].lits), cs[c].level, in, ins)
    BY ClauseAt
  <2> DEFINE w == cs[c].level
             C == ToSet(cs[c].lits)
  <2> HIDE DEF w, C
  <2>2. \A v \in Atom : in[v] \in 0..w => to[v] = in[v]
    OBVIOUS
  <2>3. \A k \in 0..w : ins[k] \subseteq tins[k]
    BY <2>1 DEF w
  <2>4. C \in SUBSET Lit /\ w \in Nat /\ w <= w /\ Follow(C, w, in, ins)
    BY <2>1 DEF C, w
  <2>5. Follow(C, w, to, tins)
    BY <2>2, <2>3, <2>4, FollowMore
  <2> QED  BY <2>1, <2>5 DEF w, C
<1> QED  BY <1>1 DEF Database

\* The order of the literals changes in the clauses.
LEMMA DatabaseSame ==
  ASSUME NEW cs, NEW in, NEW al, NEW ins, Database(cs, in, al, ins), NEW c \in DOMAIN cs,
         NEW lits \in Seq(Lit), Len(lits) = Len(cs[c].lits), ToSet(lits) = ToSet(cs[c].lits)
  PROVE  LET to == [cs EXCEPT ![c].lits = lits] IN
         /\ Database(to, in, al, ins) /\ DOMAIN to = DOMAIN cs
         /\ to[c].lits = lits /\ to[c].level = cs[c].level
         /\ \A d \in DOMAIN cs : d # c => to[d] = cs[d]
<1> DEFINE to == [cs EXCEPT ![c].lits = lits]
           R == [lits : Seq(Lit), level : 0..MaxLevel, removable : BOOLEAN]
<1>1. cs[c] \in R
  BY DEF Database
<1>2. /\ DOMAIN to = DOMAIN cs /\ to[c] \in R
      /\ to[c].lits = lits /\ to[c].level = cs[c].level
      /\ \A d \in DOMAIN cs : d # c => to[d] = cs[d]
      /\ to = [d \in DOMAIN cs |-> to[d]]
  BY <1>1
<1> HIDE DEF to
<1>3. \A d \in DOMAIN cs : to[d] \in R
  BY <1>2 DEF Database
<1>4. to \in [DOMAIN to -> R]
  BY <1>2, <1>3
<1>5. ASSUME NEW d \in DOMAIN cs
      PROVE  Len(to[d].lits) > 1 /\ to[d].level <= al /\ Follow(ToSet(to[d].lits), to[d].level, in, ins)
  <2>1. Len(cs[d].lits) > 1 /\ cs[d].level <= al /\ Follow(ToSet(cs[d].lits), cs[d].level, in, ins)
    BY DEF Database
  <2>2. CASE d = c
    BY <1>2, <2>1, <2>2
  <2>3. CASE d # c
    BY <1>2, <2>1, <2>3
  <2> QED  BY <2>2, <2>3
<1>6. Database(to, in, al, ins)
  BY <1>2, <1>4, <1>5 DEF Database
<1> QED  BY <1>2, <1>6 DEF to

\* Clauses are removed.
LEMMA DatabaseFewer ==
  ASSUME NEW cs, NEW in, NEW al, NEW ins, Database(cs, in, al, ins), NEW gone,
         NEW bl, NEW tin, NEW tins,
         \A c \in DOMAIN cs \ gone :
           cs[c].level <= bl /\ Follow(ToSet(cs[c].lits), cs[c].level, tin, tins)
  PROVE  Database([c \in DOMAIN cs \ gone |-> cs[c]], tin, bl, tins)
<1> DEFINE to == [c \in DOMAIN cs \ gone |-> cs[c]]
           R == [lits : Seq(Lit), level : 0..MaxLevel, removable : BOOLEAN]
<1>1. /\ DOMAIN to \subseteq DOMAIN cs /\ \A c \in DOMAIN to : to[c] = cs[c] /\ c \in DOMAIN cs \ gone
      /\ to = [c \in DOMAIN to |-> to[c]]
  OBVIOUS
<1>2. IsFiniteSet(DOMAIN to)
  BY <1>1, FS_Subset DEF Database
<1>3. \A c \in DOMAIN to : to[c] \in R
  BY <1>1 DEF Database
<1> HIDE DEF to
<1>4. to \in [DOMAIN to -> R]
  BY <1>1, <1>3
<1>5. \A c \in DOMAIN to : Len(to[c].lits) > 1 /\ to[c].level <= bl /\ Follow(ToSet(to[c].lits), to[c].level, tin, tins)
  BY <1>1 DEF Database
<1>6. DOMAIN to \subseteq Nat \ {0}
  BY <1>1 DEF Database
<1>7. Database(to, tin, bl, tins)
  BY <1>2, <1>4, <1>5, <1>6 DEF Database
<1> QED  BY <1>7 DEF to

\* More variables exist than those of the trail, and the user level is higher.
LEMMA GraphMore ==
  ASSUME NEW t, NEW cs, NEW in, NEW al \in Nat, Graph(t, cs, in, al),
         NEW bl \in Nat, al <= bl, NEW to, \A v \in Atom : in[v] # -1 => to[v] = in[v]
  PROVE  Graph(t, cs, to, bl)
<1>1. ASSUME NEW i \in DOMAIN t
      PROVE  t[i].user <= bl /\ to[Abs(t[i].lit)] \in 0..t[i].user
  <2>1. t[i].lit \in Lit /\ t[i].user \in Nat
    BY EntryLits, SolverAssumption DEF Graph
  <2>2. t[i].user <= al /\ in[Abs(t[i].lit)] \in 0..t[i].user
    BY DEF Graph
  <2>3. Abs(t[i].lit) \in Atom
    BY <2>1, LitFacts
  <2>4. to[Abs(t[i].lit)] = in[Abs(t[i].lit)]
    BY <2>2, <2>3
  <2> QED  BY <2>1, <2>2, <2>4
<1> QED  BY <1>1 DEF Graph
-----------------------------------------------------------------------------
(* The operations keep the core sound. *)

\* What the problem gives.
LEMMA ProblemTyped ==
  ASSUME problem \in Problems
  PROVE  /\ \A C \in Theory : C \in SUBSET Lit
         /\ \A C \in Input : C \in SUBSET Lit
         /\ problem.levels \in 0..MaxLevel /\ problem.checks \in Nat
         /\ TheoryAtom \subseteq Atom
<1>1. problem \in Problem
  BY SolverAssumption
<1>2. /\ problem.input \in SUBSET SUBSET Lit /\ problem.theory \in SUBSET SUBSET Lit
      /\ problem.levels \in 0..MaxLevel /\ problem.checks \in Nat
  BY <1>1 DEF Problem
<1>3. TheoryAtom \subseteq Atom
  BY TheoryAtoms
<1> QED  BY <1>2, <1>3 DEF Theory, Input

\* What is asserted, or valid in the theories, is entailed.
LEMMA MemberEntailed ==
  ASSUME NEW ins, NEW u \in Nat, NEW C \in SUBSET Lit,
         C \in Theory \/ \E k \in 0..u : C \in ins[k]
  PROVE  Entails(AssertedIn(ins, u), C)
<1>1. C \in AssertedIn(ins, u)
  BY DEF AssertedIn
<1> QED  BY <1>1, EntailsModels DEF Models

\* The parts.
LEMMA SoundShape ==
  ASSUME NEW s, NEW cs, NEW in, NEW al, NEW ins, Sound(s, cs, in, al, ins)
  PROVE  /\ s.trail \in Seq(Entry) /\ Len(s.trail) \in Nat /\ DOMAIN s.trail = 1..Len(s.trail)
         /\ \A i \in DOMAIN s.trail :
              /\ s.trail[i].lit \in Lit /\ s.trail[i].user \in Nat
              /\ s.trail[i].user \in 0..MaxLevel /\ s.trail[i].user <= al
              /\ in[Abs(s.trail[i].lit)] \in 0..s.trail[i].user
              /\ s.trail[i].reason \in Nat \cup {Lazy}
         /\ s.trail_lim \in Seq(Nat) /\ Len(s.trail_lim) \in Nat
         /\ DOMAIN s.trail_lim = 1..Len(s.trail_lim)
         /\ s.trail_lim = <<>> <=> Len(s.trail_lim) = 0
<1>1. Graph(s.trail, cs, in, al) /\ Decisions(s.trail, s.trail_lim, s.qhead)
  BY DEF Sound
<1>2. s.trail \in Seq(Entry) /\ Len(s.trail) \in Nat /\ DOMAIN s.trail = 1..Len(s.trail)
  BY <1>1, EntryLits DEF Graph
<1>3. ASSUME NEW i \in DOMAIN s.trail
      PROVE  /\ s.trail[i].lit \in Lit /\ s.trail[i].user \in Nat
             /\ s.trail[i].user \in 0..MaxLevel /\ s.trail[i].user <= al
             /\ in[Abs(s.trail[i].lit)] \in 0..s.trail[i].user
             /\ s.trail[i].reason \in Nat \cup {Lazy}
  <2>1. /\ s.trail[i].lit \in Lit /\ s.trail[i].user \in 0..MaxLevel
        /\ s.trail[i].reason \in Nat \cup {Lazy}
    BY <1>2, EntryLits
  <2>2. s.trail[i].user <= al /\ in[Abs(s.trail[i].lit)] \in 0..s.trail[i].user
    BY <1>1 DEF Graph
  <2> QED  BY <2>1, <2>2, SolverAssumption
<1>4. /\ s.trail_lim \in Seq(Nat) /\ Len(s.trail_lim) \in Nat
      /\ DOMAIN s.trail_lim = 1..Len(s.trail_lim)
      /\ s.trail_lim = <<>> <=> Len(s.trail_lim) = 0
  BY <1>1, DecisionsShape
<1> QED  BY <1>2, <1>3, <1>4

\* The variables of a longer trail.
LEMMA VarsMore ==
  ASSUME NEW T, NEW l
  PROVE  Vars(T \cup {l}) = Vars(T) \cup {Abs(l)}
BY DEF Vars

\* The literals that are false are so by an entry of a known user level.
LEMMA FalseAt ==
  ASSUME NEW s, NEW cs, NEW in, NEW al, NEW ins, Sound(s, cs, in, al, ins),
         NEW l, IsFalse(s, l)
  PROVE  \E i \in DOMAIN s.trail : s.trail[i].lit = -l /\ s.trail[i].user <= al
<1>1. PICK i \in DOMAIN s.trail : s.trail[i].lit = -l
  BY DEF IsFalse, Lits
<1> QED  BY <1>1, SoundShape

\* A clause but for one literal false at level 0, when there is no other level,
\* entails this literal, at the user level.
LEMMA UnitEntailed ==
  ASSUME NEW s, NEW cs, NEW in, NEW al \in Nat, NEW ins, Sound(s, cs, in, al, ins),
         s.trail_lim = <<>>, NEW C \in SUBSET Lit, NEW lev \in Nat, lev <= al,
         Entails(AssertedIn(ins, lev), C), NEW D, D \subseteq C,
         \A l \in C \ D : IsFalse(s, l)
  PROVE  Entails(AssertedIn(ins, al), D)
<1>1. s.trail \in Seq(Entry) /\ Fixed(s.trail, <<>>, ins)
  BY SoundShape DEF Sound
<1>2. \A l \in C \ D : \E i \in DOMAIN s.trail :
        s.trail[i].lit = -l /\ AtZero(<<>>, i) /\ s.trail[i].user <= al
  BY FalseAt DEF AtZero
<1> QED  BY <1>1, <1>2, Dropped

\* The literal l may be enqueued, for the reason given.
Enqueues(s, cs, in, ins, l, from, why) ==
  /\ l \in Lit /\ IsUndef(s, l) /\ in[Abs(l)] # -1
  /\ from \in Nat \cup {Lazy} /\ why \in {{}} \cup Theory
  /\ from = Undef => /\ s.trail_lim = <<>>
                     /\ Entails(AssertedIn(ins, assertionLevel), {l})
  /\ from = Lazy => /\ why \in Theory /\ l \in why /\ why # {l}
                    /\ \A k \in why : k = l \/ IsFalse(s, k)
  /\ from > 0 => /\ from \in DOMAIN cs /\ cs[from].lits[1] = l
                 /\ \A k \in ToSet(cs[from].lits) : k = l \/ IsFalse(s, k)

\* A literal is enqueued.
LEMMA Enqueued ==
  ASSUME problem \in Problems, assertionLevel \in 0..MaxLevel,
         NEW s, HasFields(s), NEW cs, NEW in, NEW ins,
         Sound(s, cs, in, assertionLevel, ins), Database(cs, in, assertionLevel, ins),
         Introduced(in, assertionLevel),
         NEW l, NEW from, NEW why, Enqueues(s, cs, in, ins, l, from, why),
         NEW t, t = uncheckedEnqueue(s, l, from, why)
  PROVE  /\ Sound(t, cs, in, assertionLevel, ins) /\ HasFields(t)
         /\ t.trail_lim = s.trail_lim /\ t.qhead = s.qhead
         /\ Len(t.trail) = Len(s.trail) + 1 /\ t.trail[Len(s.trail) + 1].lit = l
         /\ \A i \in DOMAIN s.trail : i \in DOMAIN t.trail /\ t.trail[i] = s.trail[i]
         /\ \A i \in DOMAIN t.trail : i \in DOMAIN s.trail \/ i = Len(s.trail) + 1
         /\ Lits(t.trail) = Lits(s.trail) \cup {l}
<1> DEFINE al == assertionLevel
           e == [lit |-> l, reason |-> from, user |-> al, why |-> why]
<1> /\ l \in Lit /\ from \in Nat \cup {Lazy} /\ why \in {{}} \cup Theory
  BY DEF Enqueues
<1> /\ IsUndef(s, l) /\ in[Abs(l)] # -1
    /\ from = Undef => /\ s.trail_lim = <<>>
                       /\ Entails(AssertedIn(ins, assertionLevel), {l})
    /\ from = Lazy => /\ why \in Theory /\ l \in why /\ why # {l}
                      /\ \A k \in why : k = l \/ IsFalse(s, k)
    /\ from > 0 => /\ from \in DOMAIN cs /\ cs[from].lits[1] = l
                   /\ \A k \in ToSet(cs[from].lits) : k = l \/ IsFalse(s, k)
  BY Zenon DEF Enqueues
<1>1. /\ HasFields(t) /\ t.trail = Append(s.trail, e)
      /\ t.queue = IF Abs(l) \in TheoryAtom THEN Append(s.queue, l) ELSE s.queue
      /\ t.trail_lim = s.trail_lim /\ t.facts = s.facts /\ t.known = s.known
      /\ t.saved = s.saved /\ t.regs = s.regs
      /\ t.qhead = s.qhead /\ t.order_heap = s.order_heap
  BY EnqueueFields
<1>2. /\ Graph(s.trail, cs, in, al) /\ Decisions(s.trail, s.trail_lim, s.qhead)
      /\ Fixed(s.trail, s.trail_lim, ins) /\ Decidable(s, in) /\ CoreTyped(s)
      /\ s.trail \in Seq(Entry)
  BY SoundShape DEF Sound
<1>3. e \in Entry /\ e.lit = l /\ e.reason = from /\ e.user = al /\ e.why = why
  BY DEF Entry
<1>4. al \in Nat /\ in[Abs(l)] \in 0..al
  <2>1. Abs(l) \in Atom
    BY LitFacts
  <2>2. in[Abs(l)] \in -1..MaxLevel /\ in[Abs(l)] <= al
    BY <2>1 DEF Introduced
  <2> QED  BY <2>2, SolverAssumption
<1> HIDE DEF e
<1>5. l \notin Lits(s.trail) /\ -l \notin Lits(s.trail)
  BY DEF IsUndef, IsTrue, IsFalse
<1>6. from > 0 => cs[from].level <= al
  BY ClauseAt
<1>7. ASSUME NEW k \in PremisesIn(cs, e)
      PROVE  -k \in Lits(s.trail)
  <2>1. CASE from = Undef
    <3>1. PremisesIn(cs, e) = {}
      BY <1>3, <2>1, PremisesAre, Zenon
    <3> QED  BY <1>7, <3>1
  <2>2. CASE from = Lazy
    <3>1. PremisesIn(cs, e) = why \ {l}
      BY <1>3, <2>2, PremisesAre, Zenon
    <3> QED  BY <1>7, <2>2, <3>1 DEF IsFalse
  <2>3. CASE from > 0
    <3>1. PremisesIn(cs, e) = ToSet(cs[from].lits) \ {l}
      BY <1>3, <2>3, PremisesAre, Zenon
    <3> QED  BY <1>7, <2>3, <3>1 DEF IsFalse
  <2>4. from = Undef \/ from = Lazy \/ from > 0
    BY DEF Undef, Lazy
  <2> QED  BY <2>1, <2>2, <2>3, <2>4
<1>8. /\ Graph(t.trail, cs, in, al)
      /\ Len(t.trail) = Len(s.trail) + 1 /\ t.trail[Len(s.trail) + 1] = e
      /\ \A i \in DOMAIN s.trail : i \in DOMAIN t.trail /\ t.trail[i] = s.trail[i]
      /\ \A i \in DOMAIN t.trail : i \in DOMAIN s.trail \/ i = Len(s.trail) + 1
      /\ Lits(t.trail) = Lits(s.trail) \cup {l}
  <2> DEFINE tr == s.trail
             in1 == in
  <2>1. /\ e.user = al /\ in[Abs(e.lit)] \in 0..al
        /\ e.lit \notin Lits(tr) /\ -e.lit \notin Lits(tr)
        /\ e.reason > 0 => e.reason \in DOMAIN cs /\ cs[e.reason].lits[1] = e.lit /\ cs[e.reason].level <= al
        /\ e.reason = Lazy => e.why \in Theory /\ e.lit \in e.why /\ e.why # {e.lit}
        /\ \A k \in PremisesIn(cs, e) : -k \in Lits(tr)
    BY <1>3, <1>4, <1>5, <1>6, <1>7
  <2> QED  BY <1>1, <1>2, <1>3, <2>1, GraphAppend
<1>9. Decisions(t.trail, t.trail_lim, t.qhead)
  <2>1. e.reason # Undef \/ s.trail_lim = <<>>
    BY <1>3
  <2> QED  BY <1>1, <1>2, <1>3, <2>1, DecisionsAppend
<1>10. Fixed(t.trail, t.trail_lim, ins)
  <2>1. ASSUME s.trail_lim = <<>>
        PROVE  Entails(AssertedIn(ins, al), {l})
    <3>1. CASE from = Undef
      BY <3>1
    <3>2. CASE from = Lazy
      <4>1. why \in SUBSET Lit
        BY <3>2, ProblemTyped
      <4>2. Entails(AssertedIn(ins, al), why)
        BY <1>4, <3>2, <4>1, MemberEntailed
      <4> QED  BY <1>4, <2>1, <3>2, <4>1, <4>2, UnitEntailed
    <3>3. CASE from > 0
      <4> DEFINE C == ToSet(cs[from].lits)
                 lev == cs[from].level
      <4>1. C \in SUBSET Lit /\ lev \in Nat /\ lev <= al /\ Follow(C, lev, in, ins) /\ l \in C
        <5>1. from \in DOMAIN cs
          BY <3>3
        <5>2. 1 \in 1..Len(cs[from].lits)
          BY <5>1, ClauseAt
        <5> QED  BY <3>3, <5>1, <5>2, ClauseAt
      <4> HIDE DEF C, lev
      <4>2. \A k \in C \ {l} : IsFalse(s, k)
        BY <3>3 DEF C
      <4> QED  BY <1>4, <2>1, <4>1, <4>2, UnitEntailed DEF Follow
    <3>4. from = Undef \/ from = Lazy \/ from > 0
      BY DEF Undef, Lazy
    <3> QED  BY <3>1, <3>2, <3>3, <3>4
  <2>2. s.trail_lim = <<>> => Entails(AssertedIn(ins, e.user), {e.lit})
    BY <1>3, <2>1
  <2>3. Fixed(Append(s.trail, e), s.trail_lim, ins)
    BY <1>2, <1>3, <2>2, FixedAppend
  <2> QED  BY <1>1, <2>3
<1>11. Decidable(t, in)
  <2>1. Vars(Lits(t.trail)) = Vars(Lits(s.trail)) \cup {Abs(l)}
    BY <1>8, VarsMore
  <2> QED  BY <1>1, <1>2, <2>1 DEF Decidable
<1>12. CoreTyped(t)
  <2>1. t.queue \in Seq(Lit)
    <3>1. s.queue \in Seq(Lit)
      BY <1>2 DEF CoreTyped
    <3>2. Append(s.queue, l) \in Seq(Lit)
      BY <3>1, AppendProperties
    <3> QED  BY <1>1, <3>1, <3>2
  <2> QED  BY <1>1, <1>2, <2>1 DEF CoreTyped
<1>13. Sound(t, cs, in, al, ins)
  BY <1>8, <1>9, <1>10, <1>11, <1>12 DEF Sound
<1> QED  BY <1>1, <1>3, <1>8, <1>13

\* A decision: a level begins and a literal is enqueued.
LEMMA SoundDecide ==
  ASSUME assertionLevel \in 0..MaxLevel, NEW s, HasFields(s), NEW cs, NEW in, NEW ins,
         Graph(s.trail, cs, in, assertionLevel), Decisions(s.trail, s.trail_lim, s.qhead),
         Fixed(s.trail, s.trail_lim, ins), CoreTyped(s), Introduced(in, assertionLevel),
         s.qhead = Len(s.trail), NEW l \in Lit, IsUndef(s, l), in[Abs(l)] # -1,
         \A v \in Atom : in[v] # -1 =>
           v \in s.order_heap \/ v \in Vars(Lits(s.trail)) \/ v = Abs(l)
  PROVE  LET t == uncheckedEnqueue(newDecisionLevel(s), l, Undef, {}) IN
         Sound(t, cs, in, assertionLevel, ins) /\ HasFields(t)
<1> DEFINE al == assertionLevel
           e == [lit |-> l, reason |-> Undef, user |-> al, why |-> {}]
           c == [queue |-> s.queue, facts |-> s.facts, known |-> s.known]
           p == newDecisionLevel(s)
           t == uncheckedEnqueue(p, l, Undef, {})
<1>1. /\ HasFields(p) /\ p.trail_lim = Append(s.trail_lim, Len(s.trail))
      /\ p.saved = Append(s.saved, c) /\ p.trail = s.trail /\ p.queue = s.queue
      /\ p.facts = s.facts /\ p.known = s.known /\ p.regs = s.regs
      /\ p.qhead = s.qhead /\ p.order_heap = s.order_heap
  BY NewLevelFields
<1> HIDE DEF p
<1>2. /\ HasFields(t) /\ t.trail = Append(p.trail, e)
      /\ t.queue = IF Abs(l) \in TheoryAtom THEN Append(p.queue, l) ELSE p.queue
      /\ t.trail_lim = p.trail_lim /\ t.facts = p.facts /\ t.known = p.known
      /\ t.saved = p.saved /\ t.regs = p.regs
      /\ t.qhead = p.qhead /\ t.order_heap = p.order_heap
  BY <1>1 DEF HasFields, CoreFields, uncheckedEnqueue
<1>3. e \in Entry /\ e.lit = l /\ e.reason = Undef /\ e.user = al /\ e.why = {}
  <2>1. Undef \in Nat \cup {Lazy}
    BY DEF Undef
  <2> QED  BY <2>1 DEF Entry
<1>4. al \in Nat /\ in[Abs(l)] \in 0..al
  <2>1. Abs(l) \in Atom
    BY LitFacts
  <2>2. in[Abs(l)] \in -1..MaxLevel /\ in[Abs(l)] <= al
    BY <2>1 DEF Introduced
  <2> QED  BY <2>2, SolverAssumption
<1> HIDE DEF t, e
<1>5. l \notin Lits(s.trail) /\ -l \notin Lits(s.trail)
  BY DEF IsUndef, IsTrue, IsFalse
<1>6. s.trail \in Seq(Entry)
  BY DEF Graph
<1>7. Graph(t.trail, cs, in, al) /\ Lits(t.trail) = Lits(s.trail) \cup {l}
  <2> DEFINE tr == s.trail
  <2>1. /\ e.user = al /\ in[Abs(e.lit)] \in 0..al
        /\ e.lit \notin Lits(tr) /\ -e.lit \notin Lits(tr)
        /\ ~ (e.reason > 0) /\ e.reason # Lazy
        /\ PremisesIn(cs, e) = {}
    <3>1. ~ (e.reason > 0) /\ e.reason # Lazy
      BY <1>3 DEF Undef, Lazy
    <3>2. PremisesIn(cs, e) = {}
      BY <1>3 DEF PremisesIn
    <3> QED  BY <1>3, <1>4, <1>5, <3>1, <3>2
  <2> QED  BY <1>1, <1>2, <1>3, <2>1, GraphAppend
<1>8. Decisions(t.trail, t.trail_lim, t.qhead)
  BY <1>1, <1>2, <1>3, <1>6, DecisionsLevel
<1>9. Fixed(t.trail, t.trail_lim, ins)
  BY <1>1, <1>2, <1>3, <1>6, FixedLevel
<1>10. Decidable(t, in)
  <2>1. Vars(Lits(t.trail)) = Vars(Lits(s.trail)) \cup {Abs(l)}
    BY <1>7, VarsMore
  <2> QED  BY <1>1, <1>2, <2>1 DEF Decidable
<1>11. CoreTyped(t)
  <2>1. /\ s.queue \in Seq(Lit) /\ s.facts \in Seq(Lit) /\ s.known \subseteq TheoryAtom
        /\ s.saved \in Seq([queue : Seq(Lit), facts : Seq(Lit), known : SUBSET TheoryAtom])
    BY DEF CoreTyped
  <2>2. t.queue \in Seq(Lit)
    <3>1. Append(s.queue, l) \in Seq(Lit)
      BY <2>1, AppendProperties
    <3> QED  BY <1>1, <1>2, <2>1, <3>1
  <2>3. c \in [queue : Seq(Lit), facts : Seq(Lit), known : SUBSET TheoryAtom]
    BY <2>1
  <2> HIDE DEF c
  <2>4. t.saved \in Seq([queue : Seq(Lit), facts : Seq(Lit), known : SUBSET TheoryAtom])
    BY <1>1, <1>2, <2>1, <2>3, AppendProperties
  <2> QED  BY <1>1, <1>2, <2>2, <2>4 DEF CoreTyped
<1>12. Sound(t, cs, in, al, ins)
  BY <1>7, <1>8, <1>9, <1>10, <1>11 DEF Sound
<1> QED  BY <1>2, <1>12 DEF t, p

\* t has of s the decision levels up to lev.
Cut(s, t, lev) ==
  /\ Len(t.trail) \in 0..Len(s.trail)
  /\ \A i \in 1..Len(t.trail) : t.trail[i] = s.trail[i] /\ i \in DOMAIN s.trail
  /\ DOMAIN t.trail = 1..Len(t.trail)
  /\ \A k \in DOMAIN t.trail_lim : k \in DOMAIN s.trail_lim /\ t.trail_lim[k] = s.trail_lim[k]
  /\ DOMAIN t.trail_lim = 1..Len(t.trail_lim)
  /\ lev < Len(s.trail_lim) =>
       /\ Len(t.trail_lim) = lev
       /\ Len(t.trail) = s.trail_lim[lev + 1]
       /\ \A k \in DOMAIN s.trail_lim : k \in 1..lev \/ Len(t.trail) <= s.trail_lim[k]
  /\ lev >= Len(s.trail_lim) => t = s
  /\ \A i \in 1..Len(t.trail) : AtZero(t.trail_lim, i) <=> AtZero(s.trail_lim, i)
  /\ t.trail_lim # <<>> => s.trail_lim # <<>> /\ lev > 0

\* Decision levels are cancelled.
LEMMA SoundCancel ==
  ASSUME problem \in Problems, NEW s, NEW cs, NEW in, NEW al \in Nat, NEW ins,
         Sound(s, cs, in, al, ins), Sync(s, in, al), NEW lev \in Nat
  PROVE  LET t == cancelUntil(s, lev) IN
         Sound(t, cs, in, al, ins) /\ HasFields(t) /\ Cut(s, t, lev)
<1> DEFINE t == cancelUntil(s, lev)
           d == Len(s.trail_lim)
<1>1. /\ s.trail \in Seq(Entry) /\ Len(s.trail) \in Nat /\ DOMAIN s.trail = 1..Len(s.trail)
      /\ s.trail_lim \in Seq(Nat) /\ d \in Nat /\ DOMAIN s.trail_lim = 1..d
      /\ \A i \in DOMAIN s.trail : s.trail[i].lit \in Lit /\ s.trail[i].user <= al
  BY SoundShape
<1>2. HasFields(s) /\ IsSequence(s.trail_lim) /\ IsSequence(s.saved) /\ Len(s.saved) = al + d
  BY DEF Sync, Shaped, InStep
<1>3. /\ Graph(s.trail, cs, in, al) /\ Decisions(s.trail, s.trail_lim, s.qhead)
      /\ Fixed(s.trail, s.trail_lim, ins) /\ Decidable(s, in) /\ CoreTyped(s)
  BY DEF Sound
<1>4. CASE d <= lev
  <2>1. t = s
    BY <1>4 DEF cancelUntil, decisionLevel
  <2>2. Cut(s, s, lev)
    <3>1. s.trail_lim # <<>> => lev > 0
      BY <1>1, <1>4, EmptySeq
    <3> QED  BY <1>1, <1>4, <3>1 DEF Cut
  <2> HIDE DEF t
  <2>3. Sound(t, cs, in, al, ins) /\ HasFields(t) /\ Cut(s, t, lev)
    BY <1>2, <2>1, <2>2
  <2> QED  BY <2>3 DEF t
<1>5. CASE lev < d
  <2> DEFINE k == al + lev + 1
             n == s.trail_lim[lev + 1]
             p == SubSeq(s.trail_lim, 1, lev)
             b == SubSeq(s.trail, 1, n)
             heap == {Abs(s.trail[i].lit) : i \in (n + 1)..Len(s.trail)}
  <2>1. Cancelled(s, t, lev, k)
    <3> DEFINE w == Len(s.saved)
    <3>1. k = w - (d - lev) + 1 /\ k - 1 = w - (d - lev)
      <4> HIDE DEF d, w
      <4> QED  BY <1>1, <1>2 DEF w
    <3> HIDE DEF k
    <3> QED  BY <1>2, <1>5, <3>1, CancelFields
  <2> HIDE DEF t
  <2>2. /\ HasFields(t) /\ t.trail = b /\ t.trail_lim = p /\ t.qhead = n
        /\ t.queue = s.saved[k].queue /\ t.facts = s.saved[k].facts
        /\ t.known = s.saved[k].known \cup Again(s.regs, lev)
        /\ t.saved = SubSeq(s.saved, 1, k - 1) /\ t.regs = Lowered(s.regs, lev)
        /\ t.order_heap = s.order_heap \cup heap
    BY <2>1 DEF Cancelled
  <2>3. /\ n \in 0..Len(s.trail) /\ Len(p) = lev /\ DOMAIN p = 1..lev
        /\ \A j \in 1..lev : j \in DOMAIN s.trail_lim /\ p[j] = s.trail_lim[j]
        /\ \A j \in DOMAIN s.trail_lim : j \in 1..lev \/ n <= s.trail_lim[j]
        /\ \A i \in 1..n : AtZero(p, i) <=> AtZero(s.trail_lim, i)
        /\ Decisions(b, p, n)
    BY <1>1, <1>3, <1>5, DecisionsPrefix
  <2>4. Fixed(b, p, ins)
    BY <1>1, <1>3, <1>5, FixedPrefix
  <2> HIDE DEF n, p, b, heap
  <2>5. /\ Graph(b, cs, in, al) /\ Len(b) = n /\ DOMAIN b = 1..n
        /\ \A i \in 1..n : b[i] = s.trail[i] /\ i \in DOMAIN s.trail
    <3>1. \A i \in 1..n : i \in DOMAIN s.trail
      BY <1>1, <2>3
    <3>2. \A i \in 1..n : s.trail[i].user <= al /\ in[Abs(s.trail[i].lit)] = in[Abs(s.trail[i].lit)]
      BY <1>1, <3>1
    <3> QED  BY <1>3, <2>3, <3>2, GraphPrefix DEF b
  <2>6. Decidable(t, in)
    <3> SUFFICES ASSUME NEW v \in Atom, in[v] # -1, v \notin t.order_heap
                 PROVE  v \in Vars(Lits(t.trail))
      BY DEF Decidable
    <3>1. v \in Vars(Lits(s.trail))
      BY <1>3, <2>2 DEF Decidable
    <3>2. PICK i \in DOMAIN s.trail : v = Abs(s.trail[i].lit)
      BY <3>1 DEF Vars, Lits
    <3>3. i \notin (n + 1)..Len(s.trail)
      BY <2>2, <3>2 DEF heap
    <3>4. i \in 1..n
      BY <1>1, <2>3, <3>3
    <3>5. t.trail[i].lit \in Lits(t.trail)
      BY <2>2, <2>5, <3>4 DEF Lits
    <3> QED  BY <2>2, <2>5, <3>2, <3>4, <3>5 DEF Vars
  <2>7. CoreTyped(t)
    <3> DEFINE S == [queue : Seq(Lit), facts : Seq(Lit), known : SUBSET TheoryAtom]
               R == [var : TheoryAtom, level : Nat]
    <3>1. s.saved \in Seq(S) /\ s.regs \in Seq(R) /\ s.order_heap \subseteq Atom
      BY <1>3 DEF CoreTyped
    <3>2. k \in 1..Len(s.saved) /\ k - 1 \in 0..Len(s.saved)
      BY <1>1, <1>2, <1>5
    <3>3. s.saved[k] \in S
      BY <3>1, <3>2, ElementOfSeq
    <3>4. s.saved[k].queue \in Seq(Lit) /\ s.saved[k].facts \in Seq(Lit) /\ s.saved[k].known \subseteq TheoryAtom
      BY <3>3
    <3> HIDE DEF k, S, R
    <3>5. t.saved \in Seq(S)
      <4> DEFINE w == SubSeq(s.saved, 1, k - 1)
      <4>1. Len(w) = k - 1 /\ IsSequence(w) /\ \A i \in 1..(k - 1) : w[i] = s.saved[i] /\ i \in 1..Len(s.saved)
        <5>1. Len(w) = k - 1 /\ IsSequence(w) /\ \A i \in 1..(k - 1) : w[i] = s.saved[i]
          BY <1>2, <3>2, SequencePrefix
        <5>2. Len(s.saved) \in Nat
          BY <1>1, <1>2
        <5> QED  BY <3>2, <5>1, <5>2
      <4>2. \A i \in 1..Len(w) : w[i] \in S
        BY <3>1, <4>1, ElementOfSeq
      <4> HIDE DEF w
      <4>3. w \in Seq(S)
        BY <4>1, <4>2, SequenceWithin
      <4> QED  BY <2>2, <4>3 DEF w
    <3>6. \A i \in DOMAIN s.regs : s.regs[i] \in R /\ i \in 1..Len(s.regs)
      BY <3>1, ElementOfSeq, LenProperties
    <3>7. Again(s.regs, lev) \subseteq TheoryAtom
      BY <3>6 DEF Again, Above, R
    <3>8. t.regs \in Seq(R)
      <4>1. DOMAIN s.regs = 1..Len(s.regs) /\ Len(s.regs) \in Nat
        BY <3>1, LenProperties
      <4>2. \A i \in 1..Len(s.regs) : Lowered(s.regs, lev)[i] \in R
        BY <3>6, <4>1 DEF Lowered, R
      <4>3. Lowered(s.regs, lev) = [i \in 1..Len(s.regs) |-> Lowered(s.regs, lev)[i]]
        BY <4>1 DEF Lowered
      <4>4. Lowered(s.regs, lev) \in [1..Len(s.regs) -> R]
        BY <4>2, <4>3
      <4> QED  BY <2>2, <4>1, <4>4
    <3>9. heap \subseteq Atom
      <4>1. \A i \in (n + 1)..Len(s.trail) : i \in DOMAIN s.trail
        BY <1>1, <2>3
      <4> QED  BY <1>1, <4>1, LitFacts DEF heap
    <3> QED  BY <2>2, <3>1, <3>4, <3>5, <3>7, <3>8, <3>9 DEF CoreTyped, S, R
  <2>8. Sound(t, cs, in, al, ins)
    BY <2>2, <2>3, <2>4, <2>5, <2>6, <2>7 DEF Sound
  <2>9. Cut(s, t, lev)
    <3>1. lev \in 0..d /\ ~ (lev >= d)
      BY <1>1, <1>5
    <3>2. p # <<>> => lev > 0
      <4> SUFFICES ASSUME lev = 0
                   PROVE  p = <<>>
        OBVIOUS
      <4>1. p \in Seq(Nat) /\ Len(p) = 0
        BY <2>3 DEF Decisions
      <4> QED  BY <4>1, EmptySeq
    <3>3. s.trail_lim # <<>>
      BY <1>1, <1>5, EmptySeq
    <3>4. Len(t.trail) = n /\ n = s.trail_lim[lev + 1]
      BY <2>2, <2>5 DEF n
    <3> QED  BY <1>1, <1>5, <2>2, <2>3, <2>5, <3>1, <3>2, <3>3, <3>4 DEF Cut
  <2> QED  BY <2>2, <2>8, <2>9 DEF t
<1> QED  BY <1>1, <1>4, <1>5

-----------------------------------------------------------------------------
(* The invariant in the next state. *)

\* The clauses that count are the same as long as the problem is.
LEMMA SoundNext ==
  ASSUME problem' = problem,
         Introduced(intro', assertionLevel'),
         Database(ca', intro', assertionLevel', inputs'),
         Sound(Core', ca', intro', assertionLevel', inputs'),
         Levels(assertionLevel', ok', inputs', trail_ok', checks', answer'),
         Updating(lemmas', order', update', pc', Core', ca', intro', assertionLevel', inputs'),
         Searching(pc', type', recheck', answer', watching', confl', Core', ca',
                   assertionLevel', inputs')
  PROVE  SoundInv'
<1>1. Theory' = Theory /\ TheoryAtom' = TheoryAtom
  BY DEF TheoryAtom, Theory
<1>2. Entry' = Entry
  BY <1>1 DEF Entry
<1>4. Introduced(intro, assertionLevel)'
  BY DEF Introduced
<1>5. Database(ca, intro, assertionLevel, inputs)'
  BY <1>1 DEF Database, Follow, AssertedIn
<1>7. Sound(Core, ca, intro, assertionLevel, inputs)'
  BY <1>1, <1>2 DEF Sound, Graph, Rests, Fixed, Decidable, CoreTyped, AssertedIn
<1>8. Levels(assertionLevel, ok, inputs, trail_ok, checks, answer)'
  BY <1>1 DEF Levels, Inconsistent, AssertedIn
<1>9. Updating(lemmas, order, update, pc, Core, ca, intro, assertionLevel, inputs)'
  BY <1>1 DEF Updating, Pending, Lemma, ConflictIn, Inconsistent, AssertedIn
<1>10. Searching(pc, type, recheck, answer, watching, confl, Core, ca, assertionLevel, inputs)'
  BY <1>1 DEF Searching, ConflictIn, Inconsistent, AssertedIn
<1> QED  BY <1>4, <1>5, <1>7, <1>8, <1>9, <1>10 DEF SoundInv

\* What a step leaves, as far as the soundness is concerned.
StaysSound ==
  /\ Introduced(intro', assertionLevel')
  /\ Database(ca', intro', assertionLevel', inputs')
  /\ Sound(Core', ca', intro', assertionLevel', inputs')
  /\ Levels(assertionLevel', ok', inputs', trail_ok', checks', answer')
  /\ Updating(lemmas', order', update', pc', Core', ca', intro', assertionLevel', inputs')
  /\ Searching(pc', type', recheck', answer', watching', confl', Core', ca',
               assertionLevel', inputs')

\* The parts of the invariant.
LEMMA SoundParts ==
  ASSUME SoundInv
  PROVE  /\ Introduced(intro, assertionLevel)
         /\ Database(ca, intro, assertionLevel, inputs)
         /\ Sound(Core, ca, intro, assertionLevel, inputs)
         /\ Levels(assertionLevel, ok, inputs, trail_ok, checks, answer)
         /\ Updating(lemmas, order, update, pc, Core, ca, intro, assertionLevel, inputs)
         /\ Searching(pc, type, recheck, answer, watching, confl, Core, ca, assertionLevel, inputs)
         /\ assertionLevel \in 0..MaxLevel /\ assertionLevel \in Nat /\ MaxLevel \in Nat
BY SolverAssumption DEF SoundInv, Levels

\* Fields that do not carry the implication graph change.
LEMMA SoundOther ==
  ASSUME NEW s, NEW cs, NEW in, NEW al, NEW ins, Sound(s, cs, in, al, ins),
         NEW t, t.trail = s.trail, t.trail_lim = s.trail_lim,
         t.qhead \in 0..Len(s.trail), s.qhead <= t.qhead,
         Decidable(t, in), CoreTyped(t)
  PROVE  Sound(t, cs, in, al, ins)
<1>1. Decisions(s.trail, s.trail_lim, s.qhead)
  BY DEF Sound
<1>2. \A k \in DOMAIN s.trail_lim : s.trail_lim[k] \in Nat /\ s.trail_lim[k] <= s.qhead
  BY <1>1, DecisionsShape
<1>3. \A k \in DOMAIN s.trail_lim : s.trail_lim[k] <= t.qhead
  <2>1. s.qhead \in 0..Len(s.trail) /\ Len(s.trail) \in Nat
    BY <1>1, SoundShape DEF Decisions
  <2> QED  BY <1>2, <2>1
<1>4. Decisions(t.trail, t.trail_lim, t.qhead)
  BY <1>1, <1>3 DEF Decisions
<1> QED  BY <1>4 DEF Sound

\* More is asserted, about more variables.
LEMMA SoundMore ==
  ASSUME NEW s, NEW cs, NEW in, NEW al \in Nat, NEW ins, Sound(s, cs, in, al, ins),
         NEW bl \in Nat, al <= bl, NEW to, \A v \in Atom : in[v] # -1 => to[v] = in[v],
         NEW tins, \A k \in 0..al : ins[k] \subseteq tins[k],
         Decidable(s, to)
  PROVE  Sound(s, cs, to, bl, tins)
<1>1. Graph(s.trail, cs, to, bl)
  BY GraphMore DEF Sound
<1>2. Fixed(s.trail, s.trail_lim, tins)
  BY SoundShape, FixedMore DEF Sound
<1> QED  BY <1>1, <1>2 DEF Sound

\* The clauses change but for what the reasons need.
LEMMA SoundClauses ==
  ASSUME NEW s, NEW cs, NEW in, NEW al, NEW ins, Sound(s, cs, in, al, ins), NEW to,
         \A i \in DOMAIN s.trail : s.trail[i].reason > 0 =>
            /\ s.trail[i].reason \in DOMAIN to
            /\ to[s.trail[i].reason].lits[1] = cs[s.trail[i].reason].lits[1]
            /\ to[s.trail[i].reason].level = cs[s.trail[i].reason].level
            /\ ToSet(to[s.trail[i].reason].lits) = ToSet(cs[s.trail[i].reason].lits)
  PROVE  Sound(s, to, in, al, ins)
<1>1. Graph(s.trail, to, in, al)
  BY GraphClauses DEF Sound
<1> QED  BY <1>1 DEF Sound

\* A clause is added.
LEMMA SoundAlloc ==
  ASSUME NEW s, NEW cs, NEW in, NEW al, NEW ins, Sound(s, cs, in, al, ins),
         IsFiniteSet(DOMAIN cs), NEW lits, NEW lev, NEW removable
  PROVE  Sound(s, alloc(cs, lits, lev, removable), in, al, ins)
<1> DEFINE to == alloc(cs, lits, lev, removable)
<1>1. /\ DOMAIN to = DOMAIN cs \cup {NewRef(cs)}
      /\ \A c \in DOMAIN cs : c # NewRef(cs) => to[c] = cs[c]
  BY DEF alloc
<1> HIDE DEF to
<1>0. \A c \in DOMAIN cs : c \in DOMAIN to /\ to[c] = cs[c]
  BY <1>1, RefNew
<1>2. \A i \in DOMAIN s.trail : s.trail[i].reason > 0 => s.trail[i].reason \in DOMAIN cs
  BY DEF Sound, Graph, Rests
<1>3. Sound(s, to, in, al, ins)
  BY <1>0, <1>2, SoundClauses
<1> QED  BY <1>3 DEF to

\* The reasons change.
LEMMA SoundReasons ==
  ASSUME NEW s, NEW cs, NEW in, NEW al, NEW ins, Sound(s, cs, in, al, ins),
         NEW to, NEW t, t.trail \in Seq(Entry), Len(t.trail) = Len(s.trail),
         \A i \in DOMAIN s.trail : /\ t.trail[i].lit = s.trail[i].lit
                                   /\ t.trail[i].user = s.trail[i].user
                                   /\ Rests(t.trail, to, i)
                                   /\ t.trail[i].reason = Undef
                                        => s.trail[i].reason = Undef \/ AtZero(s.trail_lim, i),
         t.trail_lim = s.trail_lim, t.qhead = s.qhead, Decidable(t, in), CoreTyped(t)
  PROVE  Sound(t, to, in, al, ins)
<1>1. /\ DOMAIN s.trail = 1..Len(s.trail) /\ DOMAIN t.trail = DOMAIN s.trail
  BY SoundShape, EntryLits
<1>2. Graph(t.trail, to, in, al)
  BY <1>1 DEF Sound, Graph
<1>3. Decisions(t.trail, t.trail_lim, t.qhead)
  BY <1>1 DEF Sound, Decisions
<1>4. Fixed(t.trail, t.trail_lim, ins)
  BY <1>1 DEF Sound, Fixed
<1> QED  BY <1>2, <1>3, <1>4 DEF Sound

\* Variables are made.
LEMMA SoundNewVar ==
  ASSUME problem \in Problems, assertionLevel \in 0..MaxLevel,
         Introduced(intro, assertionLevel),
         NEW s, HasFields(s), NEW cs, NEW ins, Sound(s, cs, intro, assertionLevel, ins),
         NEW C \in SUBSET Lit
  PROVE  LET t  == newVar(s, C)
             to == introduced(C)
         IN  /\ Introduced(to, assertionLevel)
             /\ Sound(t, cs, to, assertionLevel, ins) /\ HasFields(t)
             /\ t.trail = s.trail /\ t.trail_lim = s.trail_lim /\ t.qhead = s.qhead
             /\ \A v \in Atom : intro[v] # -1 => to[v] = intro[v]
             /\ \A v \in Vars(C) : to[v] \in 0..assertionLevel
<1> DEFINE t == newVar(s, C)
           to == introduced(C)
<1>1. assertionLevel \in Nat /\ MaxLevel \in Nat /\ TheoryAtom \subseteq Atom
  BY SolverAssumption, TheoryAtoms
<1>2. /\ \A v \in Atom : to[v] = IF v \in NewVars(C) THEN assertionLevel ELSE intro[v]
      /\ to = [v \in Atom |-> to[v]]
  BY DEF introduced
<1>3. intro \in [Atom -> -1..MaxLevel] /\ \A v \in Atom : intro[v] <= assertionLevel
  BY DEF Introduced
<1>4. Vars(C) \subseteq Atom
  BY LitFacts DEF Vars
<1> HIDE DEF to
<1>5. Introduced(to, assertionLevel)
  <2>1. \A v \in Atom : to[v] \in -1..MaxLevel /\ to[v] <= assertionLevel
    BY <1>1, <1>2, <1>3
  <2> QED  BY <1>2, <2>1 DEF Introduced
<1>6. \A v \in Atom : intro[v] # -1 => to[v] = intro[v]
  BY <1>2 DEF NewVars
<1>7. \A v \in Vars(C) : to[v] \in 0..assertionLevel
  BY <1>1, <1>2, <1>3, <1>4 DEF NewVars
<1>8. /\ HasFields(t)
      /\ t.known = s.known \cup NewAtoms(C)
      /\ \E e : t.regs = s.regs \o e /\ ListsAt(e, NewAtoms(C), Len(s.trail_lim))
      /\ t.trail = s.trail /\ t.trail_lim = s.trail_lim /\ t.queue = s.queue
      /\ t.facts = s.facts /\ t.saved = s.saved
      /\ t.qhead = s.qhead /\ t.order_heap = s.order_heap \cup NewVars(C)
  BY NewVarFields
<1> HIDE DEF t
<1>9. Decidable(s, intro) /\ CoreTyped(s)
  BY DEF Sound
<1>10. NewVars(C) \subseteq Atom /\ NewAtoms(C) \subseteq TheoryAtom
  BY <1>4 DEF NewVars, NewAtoms
<1>11. Decidable(t, to)
  BY <1>2, <1>8, <1>9 DEF Decidable
<1>12. CoreTyped(t)
  <2> DEFINE R == [var : TheoryAtom, level : Nat]
  <2>1. PICK e : t.regs = s.regs \o e /\ ListsAt(e, NewAtoms(C), Len(s.trail_lim))
    BY <1>8
  <2>2. s.regs \in Seq(R)
    BY <1>9 DEF CoreTyped
  <2>3. e \in Seq(R)
    <3>1. Len(s.trail_lim) \in Nat
      BY SoundShape
    <3>2. ASSUME NEW i \in 1..Len(e)
          PROVE  e[i] \in R
      <4>1. e[i] = [var |-> e[i].var, level |-> e[i].level]
        BY <2>1 DEF ListsAt, IsRegistration
      <4>2. e[i].var \in TheoryAtom /\ e[i].level \in Nat
        BY <1>10, <2>1, <3>1 DEF ListsAt
      <4> QED  BY <4>1, <4>2
    <3>3. IsSequence(e)
      BY <2>1 DEF ListsAt
    <3> HIDE DEF R
    <3> QED  BY <3>2, <3>3, SequenceWithin
  <2>4. t.regs \in Seq(R)
    <3> HIDE DEF R
    <3> QED  BY <2>1, <2>2, <2>3, ConcatProperties
  <2> QED  BY <1>8, <1>9, <1>10, <2>4 DEF CoreTyped
<1>13. Sound(t, cs, to, assertionLevel, ins)
  <2>1. Graph(s.trail, cs, to, assertionLevel)
    BY <1>1, <1>6, GraphMore DEF Sound
  <2> QED  BY <1>8, <1>11, <1>12, <2>1 DEF Sound
<1> QED  BY <1>5, <1>6, <1>7, <1>8, <1>13 DEF t, to

-----------------------------------------------------------------------------
(* Pending lemmas, and the calls of propagate. *)

\* A lemma stays one.
LEMMA PendingMore ==
  ASSUME NEW ls, NEW in, NEW ins, Pending(ls, in, ins),
         NEW to, \A v \in Atom : in[v] # -1 => to[v] # -1,
         NEW tins, ins[0] \subseteq tins[0]
  PROVE  Pending(ls, to, tins)
<1> SUFFICES ASSUME NEW i \in DOMAIN ls
             PROVE  Lemma(ls[i], to, tins)
  BY DEF Pending
<1>1. Lemma(ls[i], in, ins)
  BY DEF Pending
<1>2. ls[i].c \in SUBSET Lit
  BY <1>1 DEF Lemma
<1>3. Entails(AssertedIn(tins, 0), ls[i].c)
  BY <1>1, <1>2, EntailsMore DEF Lemma
<1>4. \A l \in ls[i].c : to[Abs(l)] # -1
  BY <1>1, <1>2, LitFacts DEF Lemma
<1> QED  BY <1>1, <1>3, <1>4 DEF Lemma

\* One more.
LEMMA PendingAppend ==
  ASSUME NEW ls, NEW in, NEW ins, Pending(ls, in, ins), NEW m, Lemma(m, in, ins)
  PROVE  /\ Pending(Append(ls, m), in, ins)
         /\ Len(Append(ls, m)) = Len(ls) + 1
         /\ \A i \in DOMAIN ls : i \in DOMAIN Append(ls, m) /\ Append(ls, m)[i] = ls[i]
<1> DEFINE S == [c : SUBSET Lit, removable : BOOLEAN]
<1>1. ls \in Seq(S) /\ m \in S
  BY DEF Pending, Lemma
<1> HIDE DEF S
<1>2. /\ Append(ls, m) \in Seq(S) /\ Len(Append(ls, m)) = Len(ls) + 1
      /\ Append(ls, m)[Len(ls) + 1] = m
      /\ \A i \in 1..Len(ls) : Append(ls, m)[i] = ls[i]
      /\ Len(ls) \in Nat /\ DOMAIN ls = 1..Len(ls)
      /\ DOMAIN Append(ls, m) = 1..Len(Append(ls, m))
  BY <1>1, AppendProperties, LenProperties
<1> DEFINE n == Len(ls)
           a == Append(ls, m)
<1> HIDE DEF n, a
<1>3. \A i \in 1..(n + 1) : i \in 1..n \/ i = n + 1
  BY <1>2 DEF n
<1>4. \A i \in DOMAIN a : Lemma(a[i], in, ins)
  BY <1>2, <1>3 DEF n, a, Pending
<1>5. \A i \in 1..n : i \in 1..(n + 1)
  BY <1>2 DEF n
<1> QED  BY <1>2, <1>4, <1>5 DEF n, a, S, Pending

\* Literals that were decided at level 0 of both kinds do not count.
LEMMA KeptEntailed ==
  ASSUME NEW s, NEW cs, NEW in, NEW al, NEW ins, Sound(s, cs, in, al, ins),
         NEW C \in SUBSET Lit, NEW lev \in Nat, Entails(AssertedIn(ins, lev), C)
  PROVE  /\ Entails(AssertedIn(ins, lev), Kept(s, C))
         /\ Kept(s, C) \subseteq C /\ \A l \in C \ Kept(s, C) : IsFalse(s, l)
<1>1. Kept(s, C) \subseteq C
  BY DEF Kept
<1>2. Graph(s.trail, cs, in, al) /\ Decisions(s.trail, s.trail_lim, s.qhead)
  BY DEF Sound
<1>3. ASSUME NEW l \in C \ Kept(s, C)
      PROVE  /\ IsFalse(s, l)
             /\ \E i \in DOMAIN s.trail :
                  s.trail[i].lit = -l /\ AtZero(s.trail_lim, i) /\ s.trail[i].user <= lev
  <2>1. IsTrue(s, -l) /\ level(s, -l) = 0 /\ user_level(s, -l) = 0 /\ l \in Lit
    BY DEF Kept, FixedFalse, FixedTrue
  <2>2. -l \in Lit
    BY <2>1, LitFacts
  <2>3. PICK i \in DOMAIN s.trail : s.trail[i].lit = -l
    BY <2>1 DEF IsTrue, Lits
  <2>4. level(s, -l) = levelAt(s, i) /\ user_level(s, -l) = s.trail[i].user
    BY <1>2, <2>2, <2>3, AssignedAt
  <2>5. i \in Int
    BY SoundShape
  <2>6. AtZero(s.trail_lim, i)
    BY <1>2, <2>1, <2>4, <2>5, LevelIs
  <2> QED  BY <2>1, <2>3, <2>4, <2>6 DEF IsFalse, IsTrue
<1>4. Entails(AssertedIn(ins, lev), Kept(s, C))
  <2>1. s.trail \in Seq(Entry) /\ Fixed(s.trail, s.trail_lim, ins)
    BY SoundShape DEF Sound
  <2> HIDE DEF Kept
  <2> QED  BY <1>1, <1>3, <2>1, Dropped
<1> QED  BY <1>1, <1>3, <1>4

\* addClause_ during the search.
LEMMA PendingAdd ==
  ASSUME NEW s, NEW cs, NEW in, NEW al, NEW ins, Sound(s, cs, in, al, ins),
         NEW ls, Pending(ls, in, ins), NEW C \in SUBSET Lit, Entails(AssertedIn(ins, 0), C),
         \A v \in Vars(C) : in[v] # -1, NEW removable \in BOOLEAN
  PROVE  LET ms == AddLemma(s, ls, C, removable) IN
         /\ Pending(ms, in, ins)
         /\ ms = ls \/ Len(ms) = Len(ls) + 1
         /\ \A i \in DOMAIN ls : i \in DOMAIN ms /\ ms[i] = ls[i]
<1> DEFINE m == [c |-> Kept(s, C), removable |-> removable]
<1>1. CASE Ignored(s, C)
  BY <1>1 DEF AddLemma
<1>2. CASE ~Ignored(s, C)
  <2>1. \A l \in C : -l \notin C
    BY <1>2 DEF Ignored
  <2>2. /\ Entails(AssertedIn(ins, 0), Kept(s, C)) /\ Kept(s, C) \subseteq C
    BY KeptEntailed
  <2>3. Lemma(m, in, ins)
    BY <2>1, <2>2 DEF Lemma, Vars
  <2>4. AddLemma(s, ls, C, removable) = Append(ls, m)
    BY <1>2 DEF AddLemma
  <2> HIDE DEF m
  <2> QED  BY <2>3, <2>4, PendingAppend
<1> QED  BY <1>1, <1>2

\* Lemmas that theories send when cancelUntil registers atoms again.
LEMMA PendingCancel ==
  ASSUME Inv, SoundInv, NEW ls, Pending(ls, intro, inputs), NEW lev \in Nat,
         NEW ms \in LemmasOnCancel(ls, lev)
  PROVE  /\ Pending(ms, intro, inputs)
         /\ ms = ls \/ (Len(ms) = Len(ls) + 1 /\ problem.registering)
         /\ \A i \in DOMAIN ls : i \in DOMAIN ms /\ ms[i] = ls[i]
<1>1. CASE ms = ls
  BY <1>1
<1>2. CASE ms # ls
  <2>1. PICK t \in Theory : /\ NewVars(t) = {} /\ ms = AddLemma(cancelUntil(Core, lev), ls, t, FALSE)
                            /\ problem.registering
    BY <1>2, Zenon DEF LemmasOnCancel
  <2>2. t \in SUBSET Lit
    BY InvCore, ProblemTyped
  <2> DEFINE s == cancelUntil(Core, lev)
  <2>3. Sound(s, ca, intro, assertionLevel, inputs)
    BY InvCore, SoundParts, SoundCancel
  <2>4. Entails(AssertedIn(inputs, 0), t)
    BY <2>2, MemberEntailed
  <2>5. \A v \in Vars(t) : intro[v] # -1
    BY <2>1 DEF NewVars
  <2>6. \E r : r \in BOOLEAN /\ ms = AddLemma(s, ls, t, r)
    <3>1. FALSE \in BOOLEAN
      OBVIOUS
    <3> QED  BY <2>1, <3>1, Zenon
  <2>7. PICK r : r \in BOOLEAN /\ ms = AddLemma(s, ls, t, r)
    BY <2>6
  <2> HIDE DEF Inv, SoundInv, s
  <2>8. /\ Pending(ms, intro, inputs)
        /\ ms = ls \/ Len(ms) = Len(ls) + 1
        /\ \A i \in DOMAIN ls : i \in DOMAIN ms /\ ms[i] = ls[i]
    BY <2>2, <2>3, <2>4, <2>5, <2>7, PendingAdd
  <2> QED  BY <2>1, <2>8
<1> QED  BY <1>1, <1>2

\* Outside of updateLemmas.
LEMMA UpdatingFresh ==
  ASSUME NEW ls, NEW in, NEW ins, Pending(ls, in, ins), NEW u, NEW p, NEW s, NEW cs, NEW al,
         ls = <<>> \/ p \in {"output", "lemmas"}, p # "attach",
         u.conflict \in {Undef, Lazy},
         p = "lemmas" => /\ u.btlevel = Len(s.trail_lim) /\ u.index \in 0..Len(s.trail)
                         /\ u.conflict = Undef
  PROVE  Updating(ls, <<>>, u, p, s, cs, in, al, ins)
<1>1. <<>> \in Seq(Seq(Lit)) /\ Len(<<>>) = 0 /\ DOMAIN <<>> = {}
  OBVIOUS
<1>2. Len(ls) \in Nat
  BY LenProperties DEF Pending
<1>3. Len(<<>>) <= Len(ls)
  BY <1>1, <1>2
<1> QED  BY <1>1, <1>3 DEF Updating

\* No lemma waits.
LEMMA PendingNone ==
  ASSUME NEW in, NEW ins
  PROVE  Pending(<<>>, in, ins)
BY DEF Pending

\* propagate is called by the search.
LEMMA StaysPropagate ==
  ASSUME NEW s, HasFields(s), Becomes(s), Sound(s, ca', intro', assertionLevel', inputs'),
         Introduced(intro', assertionLevel'),
         Database(ca', intro', assertionLevel', inputs'),
         Levels(assertionLevel', ok', inputs', trail_ok', checks', answer'),
         NEW ls, Pending(ls, intro', inputs'), NEW ty \in {"with", "final"},
         Propagate(s, ls, ty)
  PROVE  StaysSound
<1>1. Core' = s
  BY BecomesIs
<1>2. /\ type' = ty /\ pc' = PropagateFrom(ls, ty) /\ lemmas' = ls /\ order' = <<>>
      /\ update' = IF ls = <<>> THEN NoUpdate ELSE UpdateLocals(s, "begin")
      /\ confl' = Undef /\ recheck' = FALSE /\ watching' = {}
  BY DEF Propagate
<1>3. pc' \in {"lemmas", "theory", "bool"} /\ (ls # <<>> => pc' = "lemmas")
      /\ (pc' = "lemmas" => ls # <<>>)
  BY <1>2 DEF PropagateFrom
<1>4. update'.conflict = Undef
  BY <1>2 DEF NoUpdate, UpdateLocals
<1>5. pc' = "lemmas" => update'.btlevel = Len(s.trail_lim) /\ update'.index = 0
  BY <1>2, <1>3 DEF UpdateLocals, decisionLevel
<1>6. 0 \in 0..Len(s.trail)
  BY SoundShape
<1>7. Updating(ls, <<>>, update', pc', s, ca', intro', assertionLevel', inputs')
  BY <1>3, <1>4, <1>5, <1>6, UpdatingFresh
<1>8. Searching(pc', type', recheck', answer', watching', confl', s, ca', assertionLevel', inputs')
  BY <1>2, <1>3 DEF Searching
<1> QED  BY <1>1, <1>2, <1>7, <1>8 DEF StaysSound

\* The greatest element of a set of numbers up to w.
LEMMA BoundedMax ==
  ASSUME NEW w \in Nat, NEW T, T \subseteq 0..w, T # {}
  PROVE  Max(T) \in T /\ \A y \in T : y <= Max(T)
<1> DEFINE M == {w - x : x \in T}
<1>1. M \subseteq Nat /\ M # {}
  <2>1. \A x \in T : w - x \in Nat
    OBVIOUS
  <2>2. \E x : x \in T
    OBVIOUS
  <2> QED  BY <2>1, <2>2
<1>2. \A y \in T : w - y \in M
  OBVIOUS
<1>3. \A m \in M : \E x \in T : m = w - x
  OBVIOUS
<1> HIDE DEF M
<1>4. Min(M) \in M /\ \A y \in M : Min(M) <= y
  BY <1>1, NatMin
<1>5. PICK x \in T : Min(M) = w - x
  BY <1>3, <1>4
<1>6. ASSUME NEW y \in T
      PROVE  x >= y
  <2>1. w - x <= w - y
    BY <1>2, <1>4, <1>5
  <2>2. x \in Int /\ y \in Int
    OBVIOUS
  <2> QED  BY <2>1, <2>2
<1>7. \E z \in T : \A y \in T : z >= y
  BY <1>6
<1>8. Max(T) \in T /\ \A y \in T : Max(T) >= y
  BY <1>7 DEF Max
<1> QED  BY <1>8

\* The user level at which all variables of a clause exist.
LEMMA MaxIntroIs ==
  ASSUME NEW w \in Nat, NEW in, NEW C, \A v \in Vars(C) : in[v] \in 0..w
  PROVE  MaxIntro(in, C) \in 0..w /\ \A v \in Vars(C) : in[v] \in 0..MaxIntro(in, C)
<1> DEFINE T == {0} \cup {in[v] : v \in Vars(C)}
<1>1. T \subseteq 0..w /\ T # {}
  OBVIOUS
<1>2. \A v \in Vars(C) : in[v] \in T
  OBVIOUS
<1> HIDE DEF T
<1>3. Max(T) \in T /\ \A y \in T : y <= Max(T)
  BY <1>1, BoundedMax
<1>4. MaxIntro(in, C) = Max(T)
  BY DEF MaxIntro, T
<1>5. ASSUME NEW v \in Vars(C)
      PROVE  in[v] \in 0..Max(T)
  BY <1>1, <1>2, <1>3
<1> QED  BY <1>1, <1>3, <1>4, <1>5

\* Outside of the search.
LEMMA UserState ==
  ASSUME SoundInv, pc = "user"
  PROVE  /\ lemmas = <<>> /\ order = <<>> /\ watching = {} /\ confl = Undef
         /\ update.conflict \in {Undef, Lazy}
         /\ type \in {"without", "with", "final"} /\ recheck \in BOOLEAN
         /\ answer = "none" => trail_lim = <<>>
         /\ type = "without" => trail_lim = <<>>
BY CoreShape DEF SoundInv, Updating, Searching

\* Neither conflict nor pending lemmas.
LEMMA StaysIdle ==
  ASSUME Introduced(intro', assertionLevel'),
         Database(ca', intro', assertionLevel', inputs'),
         NEW s, Core' = s, Sound(s, ca', intro', assertionLevel', inputs'),
         Levels(assertionLevel', ok', inputs', trail_ok', checks', answer'),
         lemmas' = <<>>, order' = <<>>, update'.conflict \in {Undef, Lazy},
         watching' = {}, confl' = Undef, pc' \in {"user", "bool", "theory", "output", "decide"},
         type' \in {"without", "with", "final"}, recheck' \in BOOLEAN,
         pc' = "user" /\ answer' = "none" => s.trail_lim = <<>>,
         type' = "without" => s.trail_lim = <<>> /\ pc' \in {"user", "bool"},
         pc' = "decide" /\ type' = "with" => s.qhead = Len(s.trail)
  PROVE  StaysSound
<1>1. Pending(lemmas', intro', inputs')
  BY PendingNone
<1>2. Updating(<<>>, <<>>, update', pc', s, ca', intro', assertionLevel', inputs')
  BY PendingNone, UpdatingFresh
<1>3. Searching(pc', type', recheck', answer', watching', confl', s, ca', assertionLevel', inputs')
  BY DEF Searching
<1> QED  BY <1>2, <1>3 DEF StaysSound

\* The literals of the clause C that addClause_ keeps, those that are not false,
\* and the first ones sorted.
Parts(s, C, ps, free, lits) ==
  ps = Kept(s, C) /\ free = {l \in ps : ~IsFalse(s, l)} /\ lits = Sorted(s, ps)

\* The user asserts a clause: what the clause and its literals rest on.
LEMMA AssertedClause ==
  ASSUME NEW s, NEW cs, NEW in, NEW al \in Nat, NEW ins, Sound(s, cs, in, al, ins),
         s.trail_lim = <<>>, NEW C \in SUBSET Lit, Entails(AssertedIn(ins, al), C),
         ~Ignored(s, C), NEW ps, NEW free, NEW lits, Parts(s, C, ps, free, lits)
  PROVE  /\ ps \subseteq C /\ lits \in Seq(Lit) /\ ToSet(lits) = ps
         /\ Cardinality(ps) \in Nat /\ Len(lits) = Cardinality(ps)
         /\ Entails(AssertedIn(ins, al), ps) /\ Entails(AssertedIn(ins, al), free)
         /\ free = {} => Inconsistent(ins, al)
         /\ free # {} => lits[1] \in ps
         /\ free # {} /\ Cardinality(free) = 1 /\ IsUndef(s, lits[1]) => free = {lits[1]}
<1> ps = Kept(s, C) /\ free = {l \in ps : ~IsFalse(s, l)} /\ lits = Sorted(s, ps)
  BY DEF Parts
<1>1. /\ Entails(AssertedIn(ins, al), ps) /\ ps \subseteq C /\ \A l \in C \ ps : IsFalse(s, l)
  BY KeptEntailed
<1>2. \A l \in C : -l \notin C
  BY DEF Ignored
<1>3. Entails(AssertedIn(ins, al), free)
  <2>1. free \subseteq C /\ \A l \in C \ free : IsFalse(s, l)
    BY <1>1
  <2> QED  BY <2>1, UnitEntailed
<1>4. ps \in SUBSET Lit /\ \A l \in ps : -l \notin ps
  BY <1>1, <1>2
<1>5. IsFiniteSet(ps) /\ Cardinality(ps) \in Nat
  BY <1>4, LitFinite, FS_Subset, FS_CardinalityType
<1>6. lits \in Seq(Lit) /\ ToSet(lits) = ps /\ Len(lits) = Cardinality(ps)
  <2>1. Graph(s.trail, cs, in, al)
    BY DEF Sound
  <2> QED  BY <1>4, <2>1, SortedLits
<1>7. free # {} => lits[1] \in ps
  <2> SUFFICES ASSUME free # {}
               PROVE  lits[1] \in ps
    OBVIOUS
  <2>1. ps # {}
    OBVIOUS
  <2>2. Cardinality(ps) # 0
    BY <1>5, <2>1, FS_EmptySet
  <2>3. 1 \in DOMAIN lits
    BY <1>5, <1>6, <2>2
  <2> QED  BY <1>6, <2>3 DEF ToSet
<1>8. free # {} /\ Cardinality(free) = 1 /\ IsUndef(s, lits[1]) => free = {lits[1]}
  <2> SUFFICES ASSUME free # {}, Cardinality(free) = 1, IsUndef(s, lits[1])
               PROVE  free = {lits[1]}
    OBVIOUS
  <2>1. lits[1] \in free
    BY <1>7 DEF IsUndef
  <2>2. \E x : free = {x}
    <3>1. IsFiniteSet(free)
      <4>1. free \subseteq ps
        OBVIOUS
      <4> QED  BY <1>5, <4>1, FS_Subset
    <3> QED  BY <3>1, FS_Singleton
  <2> QED  BY <2>1, <2>2
<1>9. free = {} => Inconsistent(ins, al)
  BY <1>3, EntailsNone
<1> QED  BY <1>1, <1>3, <1>5, <1>6, <1>7, <1>8, <1>9
=============================================================================
