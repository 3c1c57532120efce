-------------------------- MODULE SolverSoundProofs --------------------------
(***************************************************************************)
(* The proof that the search of Solver is sound: what is on the trail and  *)
(* in the clause database rests on what is asserted at its own user levels *)
(* and on nothing that pop() removes, and "unsat" is a right answer.       *)
(*                                                                         *)
(* The invariant is SoundInv, with the part of Inv that says how the theory*)
(* queues follow the trail.  It describes the state at each pc: the order  *)
(* in which updateLemmas sorted the literals of each lemma stays right     *)
(* while others are attached, a clause whose watched literal was assigned  *)
(* is in its two watches, a conflict has a literal of the current level.   *)
(***************************************************************************)
EXTENDS SolverProofs

\* No theory sends lemmas when an atom is registered again in a check that may be
\* interrupted.  Such a lemma would wait across pop(), and be about variables that
\* pop() removes: the run solver_pending shows it.
Calm == \A p \in Problems : ~ (p.registering /\ p.interrupts)

-----------------------------------------------------------------------------
(* The steps of the user. *)

\* addClause_ at decision level 0.
LEMMA SoundAddClause ==
  ASSUME Inv, SoundInv, NEW C \in Input, addClause(C)
  PROVE  StaysSound
<1> DEFINE s    == newVar(Core, C)
           to   == introduced(C)
           tins == [inputs EXCEPT ![assertionLevel] = @ \cup {C}]
           ps   == Kept(s, C)
           free == {l \in ps : ~IsFalse(s, l)}
           lits == Sorted(s, ps)
           lev  == Max({assertionLevel, MaxIntro(to, C)})
           big  == Cardinality(ps) > 1
           cs   == IF big THEN alloc(ca, lits, lev, FALSE) ELSE ca
           from == IF big THEN NewRef(ca) ELSE Undef
           unit == free # {} /\ Cardinality(free) = 1 /\ IsUndef(s, lits[1])
<1>1. /\ pc = "user" /\ answer = "none" /\ ok /\ intro' = to /\ inputs' = tins
      /\ UNCHANGED <<lemmas, order, assertionLevel, trail_ok, checks, answer, confl,
                     watching, recheck>>
  BY Zenon DEF addClause
<1>2. \/ Ignored(s, C) /\ Becomes(s) /\ UNCHANGED <<ca, ok, update, pc, type>>
      \/ /\ ~Ignored(s, C)
         /\ ok' = (free # {})
         /\ ca' = IF free = {} THEN ca ELSE cs
         /\ \/ /\ unit
               /\ Becomes(uncheckedEnqueue(s, lits[1], from, {}))
               /\ pc' = PropagateFrom(lemmas, "without") /\ type' = "without"
               /\ update' = IF lemmas = <<>> THEN NoUpdate ELSE UpdateLocals(s, "begin")
            \/ ~unit /\ Becomes(s) /\ UNCHANGED <<update, pc, type>>
  BY Zenon DEF addClause
<1>3. /\ problem \in Problems /\ HasFields(Core) /\ C \in SUBSET Lit
  BY InvCore, ProblemTyped
<1>4. /\ Introduced(intro, assertionLevel)
      /\ Database(ca, intro, assertionLevel, inputs)
      /\ Sound(Core, ca, intro, assertionLevel, inputs)
      /\ Levels(assertionLevel, ok, inputs, trail_ok, checks, answer)
      /\ assertionLevel \in 0..MaxLevel /\ assertionLevel \in Nat
  BY SoundParts
<1>5. /\ lemmas = <<>> /\ order = <<>> /\ watching = {} /\ confl = Undef
      /\ update.conflict \in {Undef, Lazy}
      /\ type \in {"without", "with", "final"} /\ recheck \in BOOLEAN
      /\ trail_lim = <<>>
  BY <1>1, UserState
<1>6. /\ Introduced(to, assertionLevel)
      /\ Sound(s, ca, to, assertionLevel, inputs) /\ HasFields(s)
      /\ s.trail = trail /\ s.trail_lim = <<>> /\ s.qhead = qhead
      /\ \A v \in Atom : intro[v] # -1 => to[v] = intro[v]
      /\ \A v \in Vars(C) : to[v] \in 0..assertionLevel
  BY <1>3, <1>4, <1>5, SoundNewVar, CoreShape
<1>7. /\ tins \in [0..MaxLevel -> SUBSET SUBSET Lit] /\ C \in tins[assertionLevel]
      /\ \A k \in 0..assertionLevel : inputs[k] \subseteq tins[k]
  BY <1>3, <1>4, SolverAssumption DEF Levels
<1> HIDE DEF s, to, tins, ps, free, lits, lev, big, cs, from, unit, Inv, SoundInv
<1>8. Sound(s, ca, to, assertionLevel, tins)
  <2>1. Decidable(s, to)
    BY <1>6 DEF Sound
  <2>2. assertionLevel <= assertionLevel /\ \A v \in Atom : to[v] # -1 => to[v] = to[v]
    BY <1>4
  <2> QED  BY <1>4, <1>6, <1>7, <2>1, <2>2, SoundMore, Zenon
<1>9. Database(ca, to, assertionLevel, tins)
  <2>1. assertionLevel <= assertionLevel
    BY <1>4
  <2> QED  BY <1>4, <1>6, <1>7, <2>1, DatabaseMore, Zenon
<1>10. Entails(AssertedIn(tins, assertionLevel), C)
  <2>1. assertionLevel \in 0..assertionLevel
    BY <1>4
  <2> QED  BY <1>3, <1>4, <1>7, <2>1, MemberEntailed, Zenon
<1>11. ASSUME NEW o \in BOOLEAN, ~o => Inconsistent(tins, assertionLevel)
       PROVE  Levels(assertionLevel, o, tins, trail_ok, checks, answer)
  <2>1. \A u \in DOMAIN trail_ok : ~trail_ok[u] => Inconsistent(tins, u - 1)
    <3> SUFFICES ASSUME NEW u \in DOMAIN trail_ok, ~trail_ok[u]
                 PROVE  Inconsistent(tins, u - 1)
      OBVIOUS
    <3>1. Inconsistent(inputs, u - 1)
      BY <1>4 DEF Levels
    <3>2. u \in 1..assertionLevel
      BY <1>4, LenProperties DEF Levels
    <3>3. u - 1 \in Nat /\ \A k \in 0..(u - 1) : inputs[k] \subseteq tins[k]
      BY <1>4, <1>7, <3>2
    <3> DEFINE w == u - 1
    <3> HIDE DEF w
    <3>4. {} \in SUBSET Lit
      OBVIOUS
    <3>5. Inconsistent(inputs, w) => Inconsistent(tins, w)
      BY <3>3, <3>4, EntailsMore DEF w
    <3> QED  BY <3>1, <3>5 DEF w
  <2> QED  BY <1>1, <1>4, <1>7, <1>11, <2>1 DEF Levels
<1>12. CASE Ignored(s, C)
  <2>1. Becomes(s) /\ UNCHANGED <<ca, ok, update, pc, type>>
    BY <1>2, <1>12
  <2>2. Core' = s
    BY <1>6, <2>1, BecomesIs
  <2>3. Levels(assertionLevel, ok, tins, trail_ok, checks, answer)
    <3>1. ok \in BOOLEAN /\ (~ok => Inconsistent(tins, assertionLevel))
      BY <1>1, <1>4 DEF Levels
    <3> QED  BY <1>11, <3>1
  <2> QED  BY <1>1, <1>5, <1>6, <1>8, <1>9, <2>1, <2>2, <2>3, StaysIdle
<1>13. CASE ~Ignored(s, C)
  <2>1. /\ ps \subseteq C /\ lits \in Seq(Lit) /\ ToSet(lits) = ps
        /\ Cardinality(ps) \in Nat /\ Len(lits) = Cardinality(ps)
        /\ Entails(AssertedIn(tins, assertionLevel), ps)
        /\ Entails(AssertedIn(tins, assertionLevel), free)
        /\ free = {} => Inconsistent(tins, assertionLevel)
        /\ free # {} => lits[1] \in ps
        /\ free # {} /\ Cardinality(free) = 1 /\ IsUndef(s, lits[1]) => free = {lits[1]}
    <3>1. Parts(s, C, ps, free, lits)
      BY DEF Parts, ps, free, lits
    <3>2. assertionLevel \in Nat /\ s.trail_lim = <<>> /\ C \in SUBSET Lit
      BY <1>3, <1>4, <1>6
    <3> QED  BY <1>8, <1>10, <1>13, <3>1, <3>2, AssertedClause
  <2>2. /\ ok' = (free # {})
        /\ ca' = IF free = {} THEN ca ELSE cs
        /\ \/ /\ unit
              /\ Becomes(uncheckedEnqueue(s, lits[1], from, {}))
              /\ pc' = PropagateFrom(lemmas, "without") /\ type' = "without"
              /\ update' = IF lemmas = <<>> THEN NoUpdate ELSE UpdateLocals(s, "begin")
           \/ ~unit /\ Becomes(s) /\ UNCHANGED <<update, pc, type>>
    BY <1>2, <1>13
  <2>3. Levels(assertionLevel, ok', tins, trail_ok, checks, answer)
    <3>1. ok' \in BOOLEAN /\ (~ok' => Inconsistent(tins, assertionLevel))
      BY <2>1, <2>2
    <3> QED  BY <1>11, <3>1
  <2>4. lev = assertionLevel
    <3>1. MaxIntro(to, C) \in 0..assertionLevel
      BY <1>4, <1>6, MaxIntroIs
    <3> DEFINE T == {assertionLevel, MaxIntro(to, C)}
    <3>2. T \subseteq 0..assertionLevel /\ T # {} /\ assertionLevel \in T
      BY <1>4, <3>1
    <3> HIDE DEF T
    <3>3. Max(T) \in T /\ \A y \in T : y <= Max(T)
      BY <1>4, <3>2, BoundedMax
    <3>4. Max(T) \in 0..assertionLevel /\ assertionLevel <= Max(T)
      BY <3>2, <3>3
    <3>5. Max(T) = assertionLevel
      BY <1>4, <3>4
    <3> QED  BY <3>5 DEF lev, T
  <2>5. /\ Database(cs, to, assertionLevel, tins) /\ Sound(s, cs, to, assertionLevel, tins)
        /\ big => /\ from \in DOMAIN cs /\ cs[from].lits = lits /\ from > 0 /\ from \in Nat
                  /\ from # Undef /\ from # Lazy
    <3>1. CASE big
      <4>1. \E r : r \in BOOLEAN /\ cs = alloc(ca, lits, assertionLevel, r)
        <5>1. FALSE \in BOOLEAN
          OBVIOUS
        <5> QED  BY <2>4, <3>1, <5>1, Zenon DEF cs
      <4>2. PICK r : r \in BOOLEAN /\ cs = alloc(ca, lits, assertionLevel, r)
        BY <4>1
      <4>3. Follow(ToSet(lits), assertionLevel, to, tins)
        BY <1>6, <2>1 DEF Follow, Vars
      <4>4. Len(lits) > 1
        BY <2>1, <3>1 DEF big
      <4>5. assertionLevel <= assertionLevel
        BY <1>4
      <4>6. Database(alloc(ca, lits, assertionLevel, r), to, assertionLevel, tins)
        BY <1>4, <1>9, <2>1, <4>2, <4>3, <4>4, <4>5, DatabaseAlloc
      <4>7. IsFiniteSet(DOMAIN ca)
        BY <1>4 DEF Database
      <4>8. Sound(s, alloc(ca, lits, assertionLevel, r), to, assertionLevel, tins)
        BY <1>8, <4>7, SoundAlloc
      <4>9. from = NewRef(ca)
        BY <3>1 DEF from
      <4>10. from \in DOMAIN cs /\ cs[from].lits = lits
        BY <4>2, <4>9 DEF alloc
      <4> QED  BY <4>2, <4>6, <4>7, <4>8, <4>9, <4>10, RefNew
    <3>2. CASE ~big
      BY <1>8, <1>9, <3>2 DEF cs
    <3> QED  BY <3>1, <3>2
  <2>6. Database(ca', to, assertionLevel, tins) /\ Sound(s, ca', to, assertionLevel, tins)
    BY <1>8, <1>9, <2>2, <2>5
  <2>7. CASE ~unit
    <3>1. Becomes(s) /\ UNCHANGED <<update, pc, type>>
      BY <2>2, <2>7
    <3>2. Core' = s
      BY <1>6, <3>1, BecomesIs
    <3> QED  BY <1>1, <1>5, <1>6, <2>3, <2>6, <3>1, <3>2, StaysIdle
  <2>8. CASE unit
    <3>0. PICK why : why = {}
      OBVIOUS
    <3> DEFINE l == lits[1]
               t == uncheckedEnqueue(s, l, from, why)
    <3>1. free # {} /\ free = {l} /\ IsUndef(s, l) /\ l \in ps /\ l \in Lit
      BY <1>3, <2>1, <2>8 DEF unit
    <3>2. /\ Becomes(t) /\ pc' = "bool" /\ type' = "without" /\ update' = NoUpdate /\ ca' = cs
      <4>1. ca' = cs /\ pc' = PropagateFrom(lemmas, "without") /\ type' = "without"
            /\ update' = IF lemmas = <<>> THEN NoUpdate ELSE UpdateLocals(s, "begin")
        BY <2>2, <2>8, <3>1
      <4>2. Becomes(t)
        BY <2>2, <2>8, <3>0, Zenon
      <4> QED  BY <1>5, <4>1, <4>2 DEF PropagateFrom
    <3>3. \A k \in ps : k = l \/ IsFalse(s, k)
      BY <3>1 DEF free
    <3>4. to[Abs(l)] # -1
      <4>1. Abs(l) \in Vars(C)
        BY <2>1, <3>1 DEF Vars
      <4> QED  BY <1>6, <4>1
    <3>5. /\ from \in Nat \cup {Lazy} /\ why \in {{}} \cup Theory
          /\ from = Undef => Entails(AssertedIn(tins, assertionLevel), {l})
          /\ from # Lazy
          /\ from > 0 => from \in DOMAIN cs /\ cs[from].lits = lits
      <4>1. CASE big
        BY <2>5, <3>0, <4>1
      <4>2. CASE ~big
        BY <2>1, <3>0, <3>1, <4>2 DEF from, Undef, Lazy
      <4> QED  BY <4>1, <4>2
    <3> HIDE DEF t, l
    <3>6. from > 0 => /\ from \in DOMAIN cs /\ cs[from].lits[1] = l
                      /\ \A k \in ToSet(cs[from].lits) : k = l \/ IsFalse(s, k)
      BY <2>1, <3>3, <3>5 DEF l
    <3>7. Sound(t, cs, to, assertionLevel, tins) /\ HasFields(t) /\ t.trail_lim = s.trail_lim
      <4>1. from = Undef => /\ s.trail_lim = <<>>
                            /\ Entails(AssertedIn(tins, assertionLevel), {l})
        BY <1>6, <3>5
      <4>2. from = Lazy => /\ why \in Theory /\ l \in why /\ why # {l}
                           /\ \A k \in why : k = l \/ IsFalse(s, k)
        BY <3>5
      <4>3. /\ Sound(s, cs, to, assertionLevel, tins)
            /\ Database(cs, to, assertionLevel, tins) /\ Introduced(to, assertionLevel)
        BY <1>6, <2>5
      <4>4. problem \in Problems /\ assertionLevel \in 0..MaxLevel /\ HasFields(s)
        BY <1>3, <1>4, <1>6
      <4>5. l \in Lit /\ IsUndef(s, l) /\ from \in Nat \cup {Lazy} /\ why \in {{}} \cup Theory
        BY <3>1, <3>5
      <4>6. Enqueues(s, cs, to, tins, l, from, why)
        BY <3>4, <3>6, <4>1, <4>2, <4>5, Zenon DEF Enqueues
      <4>7. t = uncheckedEnqueue(s, l, from, why)
        BY DEF t
      <4> QED  BY <4>3, <4>4, <4>6, <4>7, Enqueued
    <3>8. Core' = t
      BY <3>2, <3>7, BecomesIs
    <3>9. NoUpdate.conflict \in {Undef, Lazy}
      BY DEF NoUpdate
    <3> QED  BY <1>1, <1>5, <1>6, <2>3, <2>6, <3>2, <3>7, <3>8, <3>9, StaysIdle
  <2> QED  BY <2>7, <2>8
<1> QED  BY <1>12, <1>13

\* There is no decision level outside of a check.
LEMMA CancelNone ==
  ASSUME NEW s, s.trail_lim = <<>>
  PROVE  cancelUntil(s, 0) = s
<1>1. Len(s.trail_lim) <= 0
  OBVIOUS
<1> QED  BY <1>1 DEF cancelUntil, decisionLevel

\* push() begins a level with nothing asserted in it.
LEMMA SoundPush ==
  ASSUME Inv, SoundInv, push
  PROVE  StaysSound
<1> DEFINE al == assertionLevel
           s  == cancelUntil(Core, 0)
           t  == ContextPush(Core)
           to == Append(trail_ok, ok)
<1>1. /\ pc = "user" /\ answer = "none" /\ al < problem.levels
      /\ Becomes(ContextPush(s)) /\ assertionLevel' = al + 1 /\ trail_ok' = to
      /\ UNCHANGED <<intro, ca, lemmas, order, update, ok, answer, inputs, checks, pc, type,
                     confl, watching, recheck>>
  BY DEF push
<1>2. /\ problem \in Problems /\ HasFields(Core) /\ problem.levels \in 0..MaxLevel
  BY InvCore, ProblemTyped
<1>3. /\ Introduced(intro, al) /\ Database(ca, intro, al, inputs)
      /\ Sound(Core, ca, intro, al, inputs)
      /\ Levels(al, ok, inputs, trail_ok, checks, answer)
      /\ al \in 0..MaxLevel /\ al \in Nat /\ MaxLevel \in Nat
  BY SoundParts
<1>4. /\ lemmas = <<>> /\ order = <<>> /\ watching = {} /\ confl = Undef
      /\ update.conflict \in {Undef, Lazy}
      /\ type \in {"without", "with", "final"} /\ recheck \in BOOLEAN
      /\ trail_lim = <<>>
  BY <1>1, UserState
<1>5. Becomes(t)
  <2>1. s = Core
    BY <1>4, CancelNone, CoreShape
  <2> HIDE DEF s
  <2> QED  BY <1>1, <2>1
<1>6. /\ HasFields(t)
      /\ t.saved = Append(saved, [queue |-> queue, facts |-> facts, known |-> known])
      /\ t.trail = trail /\ t.trail_lim = trail_lim /\ t.queue = queue
      /\ t.facts = facts /\ t.known = known /\ t.regs = variables_to_register
      /\ t.qhead = qhead /\ t.order_heap = order_heap
  BY <1>2, PushFields, CoreShape
<1> HIDE DEF t, s, al, Inv, SoundInv
<1>7. al + 1 \in 0..MaxLevel /\ al + 1 \in Nat /\ al <= al + 1
  BY <1>1, <1>2, <1>3 DEF al
<1>8. Sound(t, ca, intro, al + 1, inputs)
  <2> DEFINE bl == al + 1
  <2>1. bl \in Nat /\ al <= bl
    BY <1>7
  <2> HIDE DEF bl
  <2>2. /\ CoreTyped(Core) /\ Decidable(Core, intro)
    BY <1>3 DEF Sound
  <2>3. Decidable(t, intro)
    BY <1>6, <2>2, CoreShape DEF Decidable
  <2>4. CoreTyped(t)
    <3> DEFINE S == [queue : Seq(Lit), facts : Seq(Lit), known : SUBSET TheoryAtom]
               e == [queue |-> queue, facts |-> facts, known |-> known]
    <3>1. saved \in Seq(S) /\ e \in S
      BY <2>2, CoreShape DEF CoreTyped
    <3> HIDE DEF S, e
    <3>2. Append(saved, e) \in Seq(S)
      BY <3>1
    <3> QED  BY <1>6, <2>2, <3>2, CoreShape DEF CoreTyped, S, e
  <2>5. qhead \in 0..Len(trail) /\ qhead <= qhead
    <3>1. Decisions(Core.trail, Core.trail_lim, Core.qhead)
      BY <1>3 DEF Sound
    <3>2. Core.qhead \in 0..Len(Core.trail) /\ Len(Core.trail) \in Nat
      BY <1>3, <3>1, SoundShape DEF Decisions
    <3> QED  BY <3>2, CoreShape
  <2>6. Sound(t, ca, intro, al, inputs)
    BY <1>3, <1>6, <2>3, <2>4, <2>5, SoundOther, CoreShape
  <2>7. Sound(t, ca, intro, bl, inputs)
    BY <1>3, <2>1, <2>3, <2>6, SoundMore
  <2> QED  BY <2>7 DEF bl
<1>9. Database(ca, intro, al + 1, inputs)
  <2> DEFINE bl == al + 1
  <2>1. bl \in Nat /\ al <= bl
    BY <1>7
  <2> HIDE DEF bl
  <2>2. Database(ca, intro, bl, inputs)
    BY <1>3, <2>1, DatabaseMore
  <2> QED  BY <2>2 DEF bl
<1>10. Introduced(intro, al + 1)
  <2>1. \A v \in Atom : intro[v] \in -1..MaxLevel /\ intro[v] <= al
    BY <1>3 DEF Introduced
  <2> QED  BY <1>3, <2>1 DEF Introduced
<1>11. Levels(al + 1, ok, inputs, to, checks, answer)
  <2>1. /\ ok \in BOOLEAN /\ trail_ok \in Seq(BOOLEAN) /\ Len(trail_ok) = al
        /\ ~ok => Inconsistent(inputs, al)
        /\ \A u \in DOMAIN trail_ok : ~trail_ok[u] => Inconsistent(inputs, u - 1)
    BY <1>3 DEF Levels
  <2>2. Inconsistent(inputs, al) => Inconsistent(inputs, al + 1)
    <3> DEFINE bl == al + 1
    <3>1. bl \in Nat /\ al <= bl /\ \A k \in 0..al : inputs[k] \subseteq inputs[k]
      BY <1>7
    <3> HIDE DEF bl
    <3>2. {} \in SUBSET Lit
      OBVIOUS
    <3>3. Inconsistent(inputs, al) => Inconsistent(inputs, bl)
      BY <1>3, <3>1, <3>2, EntailsMore
    <3> QED  BY <3>3 DEF bl
  <2>3. /\ to \in Seq(BOOLEAN) /\ Len(to) = al + 1 /\ to[al + 1] = ok
        /\ \A u \in 1..al : to[u] = trail_ok[u] /\ u \in DOMAIN trail_ok
        /\ DOMAIN to = 1..(al + 1)
    <3> DEFINE B == BOOLEAN
    <3>1. ok \in B /\ trail_ok \in Seq(B)
      BY <2>1
    <3> HIDE DEF B
    <3>2. /\ to \in Seq(B) /\ Len(to) = Len(trail_ok) + 1 /\ to[Len(trail_ok) + 1] = ok
          /\ \A u \in 1..Len(trail_ok) : to[u] = trail_ok[u]
      BY <3>1, AppendProperties
    <3>3. DOMAIN trail_ok = 1..Len(trail_ok) /\ DOMAIN to = 1..Len(to)
      BY <3>1, <3>2, LenProperties
    <3> HIDE DEF to
    <3> QED  BY <2>1, <3>2, <3>3 DEF B
  <2> HIDE DEF to
  <2>4. ASSUME NEW u \in DOMAIN to, ~to[u]
        PROVE  Inconsistent(inputs, u - 1)
    <3>1. u \in 1..al \/ u = al + 1
      BY <1>3, <2>3
    <3>2. CASE u \in 1..al
      BY <2>1, <2>3, <2>4, <3>2
    <3>3. CASE u = al + 1
      <4>1. Inconsistent(inputs, al)
        BY <2>1, <2>3, <2>4, <3>3
      <4>2. u - 1 = al
        BY <1>3, <3>3
      <4> QED  BY <4>1, <4>2
    <3> QED  BY <3>1, <3>2, <3>3
  <2>5. \A u \in DOMAIN to : ~to[u] => Inconsistent(inputs, u - 1)
    BY <2>4
  <2>6. /\ inputs \in [0..MaxLevel -> SUBSET SUBSET Lit] /\ checks \in 0..problem.checks
        /\ answer \in {"none", "sat", "unsat", "unknown"} /\ answer # "unsat"
    BY <1>1, <1>3 DEF Levels
  <2>7. ~ok => Inconsistent(inputs, al + 1)
    BY <2>1, <2>2
  <2> QED  BY <1>7, <2>1, <2>3, <2>5, <2>6, <2>7 DEF Levels
<1>12. Core' = t
  BY <1>5, <1>6, BecomesIs
<1>13. t.trail_lim = <<>>
  BY <1>4, <1>6
<1> HIDE DEF to
<1>14. /\ assertionLevel' = al + 1 /\ trail_ok' = to
  BY <1>1
<1>15. Levels(assertionLevel', ok', inputs', trail_ok', checks', answer')
  BY <1>1, <1>11, <1>14
<1>16. /\ Introduced(intro', assertionLevel') /\ Database(ca', intro', assertionLevel', inputs')
       /\ Sound(t, ca', intro', assertionLevel', inputs')
  BY <1>1, <1>8, <1>9, <1>10, <1>14
<1>17. /\ lemmas' = <<>> /\ order' = <<>> /\ update'.conflict \in {Undef, Lazy}
       /\ watching' = {} /\ confl' = Undef /\ pc' = "user"
       /\ type' \in {"without", "with", "final"} /\ recheck' \in BOOLEAN
  BY <1>1, <1>4
<1> QED  BY <1>12, <1>13, <1>15, <1>16, <1>17, StaysIdle

\* A check begins, or has its answer already.
LEMMA SoundSolve ==
  ASSUME Inv, SoundInv, solve
  PROVE  StaysSound
<1> DEFINE s == cancelUntil(Core, 0)
<1>1. /\ pc = "user" /\ answer = "none" /\ Becomes(s)
      /\ UNCHANGED <<intro, ca, assertionLevel, ok, trail_ok, inputs>>
      /\ problem.checks > 0 => checks < problem.checks
      /\ checks' = IF problem.checks = 0 THEN 0 ELSE checks + 1
  BY Zenon DEF solve
<1>2. \/ ok /\ Propagate(s, lemmas, "with") /\ UNCHANGED answer
      \/ /\ ~ok /\ answer' = "unsat"
         /\ UNCHANGED <<type, pc, lemmas, order, update, confl, recheck, watching>>
  BY Zenon DEF solve
<1>3. /\ problem \in Problems /\ HasFields(Core) /\ problem.checks \in Nat
  BY InvCore, ProblemTyped
<1>4. /\ Introduced(intro, assertionLevel) /\ Database(ca, intro, assertionLevel, inputs)
      /\ Sound(Core, ca, intro, assertionLevel, inputs)
      /\ Levels(assertionLevel, ok, inputs, trail_ok, checks, answer)
  BY SoundParts
<1>5. /\ lemmas = <<>> /\ order = <<>> /\ watching = {} /\ confl = Undef
      /\ update.conflict \in {Undef, Lazy}
      /\ type \in {"without", "with", "final"} /\ recheck \in BOOLEAN
      /\ trail_lim = <<>>
  BY <1>1, UserState
<1>6. s = Core
  BY <1>5, CancelNone, CoreShape
<1>7. checks' \in 0..problem.checks
  <2>1. checks \in 0..problem.checks
    BY <1>4 DEF Levels
  <2> QED  BY <1>1, <1>3, <2>1
<1> HIDE DEF s, Inv, SoundInv
<1>8. Core' = Core /\ Core.trail_lim = <<>>
  BY <1>1, <1>3, <1>5, <1>6, BecomesIs, CoreShape
<1>9. CASE ok /\ Propagate(s, lemmas, "with") /\ UNCHANGED answer
  <2>1. Levels(assertionLevel', ok', inputs', trail_ok', checks', answer')
    BY <1>1, <1>4, <1>7, <1>9 DEF Levels
  <2>2. Pending(lemmas, intro', inputs')
    BY <1>5, PendingNone
  <2>4. PICK ty : ty = "with"
    OBVIOUS
  <2>5. Propagate(s, lemmas, ty) /\ ty \in {"with", "final"}
    BY <1>9, <2>4, Zenon
  <2>6. Sound(s, ca', intro', assertionLevel', inputs') /\ HasFields(s)
        /\ Introduced(intro', assertionLevel')
        /\ Database(ca', intro', assertionLevel', inputs')
    BY <1>1, <1>3, <1>4, <1>6
  <2> QED  BY <1>1, <2>1, <2>2, <2>5, <2>6, StaysPropagate
<1>10. CASE /\ ~ok /\ answer' = "unsat"
            /\ UNCHANGED <<type, pc, lemmas, order, update, confl, recheck, watching>>
  <2>1. Levels(assertionLevel', ok', inputs', trail_ok', checks', answer')
    BY <1>1, <1>4, <1>7, <1>10 DEF Levels
  <2>2. /\ Introduced(intro', assertionLevel') /\ Database(ca', intro', assertionLevel', inputs')
        /\ Sound(Core, ca', intro', assertionLevel', inputs')
    BY <1>1, <1>4
  <2>3. /\ lemmas' = <<>> /\ order' = <<>> /\ update'.conflict \in {Undef, Lazy}
        /\ watching' = {} /\ confl' = Undef /\ pc' = "user"
        /\ type' \in {"without", "with", "final"} /\ recheck' \in BOOLEAN
    BY <1>1, <1>5, <1>10
  <2> QED  BY <1>8, <2>1, <2>2, <2>3, StaysIdle
<1> QED  BY <1>2, <1>9, <1>10

\* pop keeps the entries of the trail up to the user level.
LEMMA RemainingIs ==
  ASSUME NEW s, NEW in, NEW u \in Nat, Sync(s, in, u + 1), Len(s.trail_lim) = 0
  PROVE  /\ Remaining(s.trail, u) \in 0..Len(s.trail)
         /\ \A i \in 1..Len(s.trail) : i <= Remaining(s.trail, u) <=> s.trail[i].user <= u
<1>1. Len(s.saved) = u + 1 /\ \A i \in 1..Len(s.trail) : s.trail[i].user \in Nat
  BY DEF Sync, InStep
<1>2. PICK m : Marks(s, u + 1, m)
  BY DEF Sync, InStep
<1>3. m[u + 1] \in 0..Len(s.trail)
  BY <1>1, <1>2 DEF Marks
<1>4. \A i \in 1..Len(s.trail) : IF i <= m[u + 1] THEN s.trail[i].user < u + 1
                                                  ELSE s.trail[i].user >= u + 1
  <2>1. u + 1 \in 1..(u + 1)
    OBVIOUS
  <2> QED  BY <1>2, <2>1 DEF Marks
<1>5. Len(s.trail) \in Nat
  BY ShapedLengths DEF Sync
<1>6. Remaining(s.trail, u) = m[u + 1]
  BY <1>1, <1>3, <1>4, <1>5, RemainingIsMark
<1> QED  BY <1>1, <1>3, <1>4, <1>6

\* ds is cs without the clauses above the user level u, which are dropped, and to
\* is in without the variables above it.
Drops(cs, in, u, dropped, ds, to) ==
  /\ \A v \in Atom : to[v] = IF in[v] > u THEN -1 ELSE in[v]
  /\ dropped \subseteq DOMAIN cs /\ DOMAIN ds = DOMAIN cs \ dropped
  /\ \A c \in DOMAIN cs : c \in dropped <=> cs[c].level > u
  /\ \A c \in DOMAIN cs : cs[c].level \in Nat /\ c # Undef /\ c # Lazy
  /\ \A c \in DOMAIN ds : ds[c] = cs[c]

\* What pop leaves of the trail, and of the clauses, rests on itself.
LEMMA GraphPopped ==
  ASSUME NEW t, NEW cs, NEW in, NEW al \in Nat, Graph(t, cs, in, al), NEW n \in 0..Len(t),
         NEW u \in Nat, \A i \in 1..n : t[i].user <= u, NEW to,
         NEW dropped, NEW ds, Drops(cs, in, u, dropped, ds, to)
  PROVE  LET p == SubSeq(t, 1, n) IN
         Unlocked(p, dropped) = p /\ Graph(p, ds, to, u)
<1> DEFINE p == SubSeq(t, 1, n)
<1>0. /\ \A v \in Atom : to[v] = IF in[v] > u THEN -1 ELSE in[v]
      /\ dropped \subseteq DOMAIN cs /\ DOMAIN ds = DOMAIN cs \ dropped
      /\ \A c \in DOMAIN cs : c \in dropped <=> cs[c].level > u
      /\ \A c \in DOMAIN cs : cs[c].level \in Nat /\ c # Undef /\ c # Lazy
      /\ \A c \in DOMAIN ds : ds[c] = cs[c]
  BY DEF Drops
<1>1. /\ t \in Seq(Entry) /\ \A i \in DOMAIN t : in[Abs(t[i].lit)] \in 0..t[i].user
      /\ \A i \in DOMAIN t : t[i].reason > 0 =>
           t[i].reason \in DOMAIN cs /\ cs[t[i].reason].level <= t[i].user
  BY DEF Graph, Rests
<1>2. DOMAIN t = 1..Len(t) /\ \A i \in DOMAIN t : t[i].lit \in Lit /\ t[i].user \in Nat
                                                   /\ t[i].reason \in Nat \cup {Lazy}
  <2>1. MaxLevel \in Nat
    BY SolverAssumption
  <2>2. DOMAIN t = 1..Len(t) /\ \A i \in DOMAIN t : t[i].lit \in Lit /\ t[i].user \in 0..MaxLevel
                                                   /\ t[i].reason \in Nat \cup {Lazy}
    BY <1>1, EntryLits
  <2> QED  BY <2>1, <2>2
<1>3. \A i \in 1..n : i \in DOMAIN t
  BY <1>2
<1>4. \A i \in 1..n : t[i].user <= u /\ to[Abs(t[i].lit)] = in[Abs(t[i].lit)]
  <2> SUFFICES ASSUME NEW i \in 1..n
               PROVE  to[Abs(t[i].lit)] = in[Abs(t[i].lit)]
    OBVIOUS
  <2>1. Abs(t[i].lit) \in Atom
    BY <1>2, <1>3, LitFacts
  <2>2. in[Abs(t[i].lit)] \in 0..t[i].user /\ t[i].user \in Nat /\ t[i].user <= u
    BY <1>1, <1>2, <1>3
  <2>3. ~ (in[Abs(t[i].lit)] > u)
    BY <2>2
  <2> QED  BY <1>0, <2>1, <2>3
<1>5. Graph(p, cs, to, u) /\ Len(p) = n /\ DOMAIN p = 1..n /\ \A i \in 1..n : p[i] = t[i]
  BY <1>4, GraphPrefix
<1> HIDE DEF p
<1>6. ASSUME NEW i \in 1..n
      PROVE  /\ p[i].reason \notin dropped
             /\ p[i].reason > 0 => p[i].reason \in DOMAIN cs \ dropped
  <2>1. i \in DOMAIN t /\ p[i] = t[i] /\ t[i].user <= u /\ t[i].user \in Nat
        /\ t[i].reason \in Nat \cup {Lazy}
    BY <1>2, <1>3, <1>5
  <2> DEFINE r == t[i].reason
  <2>2. r > 0 => r \in DOMAIN cs /\ cs[r].level <= t[i].user /\ cs[r].level \in Nat
    BY <1>0, <1>1, <2>1
  <2> HIDE DEF r
  <2>3. r > 0 => r \notin dropped
    BY <1>0, <2>1, <2>2
  <2>4. r \in dropped => r \in DOMAIN cs /\ cs[r].level > u
    BY <1>0
  <2>5. r \in dropped => r > 0
    <3> SUFFICES ASSUME r \in dropped, ~ (r > 0)
                 PROVE  FALSE
      OBVIOUS
    <3>1. r = Undef \/ r = Lazy
      BY <2>1 DEF r, Undef, Lazy
    <3> QED  BY <1>0, <2>4, <3>1
  <2> QED  BY <2>1, <2>2, <2>3, <2>5 DEF r
<1>7. Unlocked(p, dropped) = p
  <2>1. p = [i \in 1..n |-> p[i]]
    <3>1. p \in Seq(Entry)
      BY <1>5 DEF Graph
    <3> QED  BY <1>5, <3>1
  <2> QED  BY <1>5, <1>6, <2>1 DEF Unlocked
<1>8. Graph(p, ds, to, u)
  <2>1. \A i \in DOMAIN p : p[i].reason > 0 =>
            /\ p[i].reason \in DOMAIN ds
            /\ ds[p[i].reason] = cs[p[i].reason]
    BY <1>0, <1>5, <1>6
  <2> QED  BY <1>5, <2>1, GraphClauses
<1> QED  BY <1>7, <1>8 DEF p

\* pop() leaves what was there before the level: the clauses, assignments and variables
\* of the level go, and what stays rests on none of them.
LEMMA SoundPop ==
  ASSUME Inv, SoundInv, pop
  PROVE  StaysSound
<1> DEFINE al == assertionLevel
           s == cancelUntil(Core, 0)
           u == al - 1
           n == Remaining(s.trail, u)
           cs == {c \in DOMAIN ca : ca[c].level > u}
           heap == {Abs(s.trail[i].lit) : i \in (n + 1)..Len(s.trail)}
           p == ContextPop(s, 1)
           tr == SubSeq(s.trail, 1, n)
           t == [p EXCEPT !.trail = Unlocked(tr, cs), !.qhead = n,
                          !.order_heap = @ \cup heap, !.regs = <<>>]
           to == [v \in Atom |-> IF intro[v] > u THEN -1 ELSE intro[v]]
           tins == [inputs EXCEPT ![al] = {}]
           ds == [c \in DOMAIN ca \ cs |-> ca[c]]
<1>1. /\ pc = "user" /\ al > 0 /\ Becomes(t) /\ assertionLevel' = u
      /\ intro' = to /\ ca' = ds /\ ok' = Last(trail_ok) /\ trail_ok' = Front(trail_ok)
      /\ inputs' = tins /\ answer' = "none"
      /\ UNCHANGED <<lemmas, order, update, checks, pc, type, confl, watching, recheck>>
  BY Zenon DEF pop, Without
<1>2. /\ problem \in Problems /\ al \in Nat /\ Sync(Core, intro, al)
      /\ Sync(s, intro, al) /\ Len(s.trail_lim) = 0
  BY InvCore, CancelAll
<1>3. /\ Introduced(intro, al) /\ Database(ca, intro, al, inputs)
      /\ Sound(Core, ca, intro, al, inputs)
      /\ Levels(al, ok, inputs, trail_ok, checks, answer)
      /\ al \in 0..MaxLevel /\ al \in Nat /\ MaxLevel \in Nat
  BY SoundParts
<1>4. /\ lemmas = <<>> /\ order = <<>> /\ watching = {} /\ confl = Undef
      /\ update.conflict \in {Undef, Lazy}
      /\ type \in {"without", "with", "final"} /\ recheck \in BOOLEAN
  BY <1>1, UserState
<1>5. Sound(s, ca, intro, al, inputs) /\ HasFields(s)
  BY <1>2, <1>3, SoundCancel
<1>6. u \in Nat /\ u + 1 = al /\ u <= al /\ u \in 0..MaxLevel
  BY <1>1, <1>3
<1>7. Len(s.saved) = u + 1 /\ Sync(s, intro, u + 1) /\ s.trail_lim = <<>>
  BY <1>2, <1>5, <1>6, SoundShape DEF Sync, InStep
<1> HIDE DEF s, u, cs, heap, al, to, tins, ds, Inv, SoundInv
<1>8. /\ n \in 0..Len(s.trail)
      /\ \A i \in 1..Len(s.trail) : i <= n <=> s.trail[i].user <= u
  BY <1>2, <1>6, <1>7, RemainingIs
<1> HIDE DEF n
<1>9. /\ s.trail \in Seq(Entry) /\ Len(s.trail) \in Nat /\ DOMAIN s.trail = 1..Len(s.trail)
      /\ \A i \in DOMAIN s.trail : s.trail[i].lit \in Lit
      /\ Graph(s.trail, ca, intro, al) /\ Fixed(s.trail, <<>>, inputs)
      /\ Decidable(s, intro) /\ CoreTyped(s)
  BY <1>5, <1>7, SoundShape DEF Sound
<1>10. /\ to = [v \in Atom |-> to[v]]
       /\ \A v \in Atom : to[v] = IF intro[v] > u THEN -1 ELSE intro[v]
  BY DEF to
<1>11. \A i \in 1..n : i \in DOMAIN s.trail /\ s.trail[i].user <= u
  BY <1>8, <1>9
<1>12. \A c \in DOMAIN ca : ca[c].level \in Nat /\ c # Undef /\ c # Lazy
  BY <1>3, ClauseAt
<1>13. Unlocked(tr, cs) = tr /\ Graph(tr, ds, to, u)
  <2>1. Drops(ca, intro, u, cs, ds, to)
    <3>1. /\ cs \subseteq DOMAIN ca /\ DOMAIN ds = DOMAIN ca \ cs
          /\ \A c \in DOMAIN ca : c \in cs <=> ca[c].level > u
          /\ \A c \in DOMAIN ds : ds[c] = ca[c]
      BY DEF cs, ds
    <3> QED  BY <1>10, <1>12, <3>1 DEF Drops
  <2> DEFINE r == s.trail
  <2>2. Graph(r, ca, intro, al) /\ n \in 0..Len(r) /\ \A i \in 1..n : r[i].user <= u
    BY <1>8, <1>9, <1>11
  <2> HIDE DEF r
  <2>3. Unlocked(SubSeq(r, 1, n), cs) = SubSeq(r, 1, n) /\ Graph(SubSeq(r, 1, n), ds, to, u)
    BY <1>3, <1>6, <2>1, <2>2, GraphPopped
  <2> QED  BY <2>3 DEF r
<1>14. Len(tr) = n /\ DOMAIN tr = 1..n /\ \A i \in 1..n : tr[i] = s.trail[i]
  <2>1. \A i \in 1..n : s.trail[i].user <= u /\ intro[Abs(s.trail[i].lit)] = intro[Abs(s.trail[i].lit)]
    BY <1>11
  <2> QED  BY <1>8, <1>9, <2>1, GraphPrefix
<1>15. /\ HasFields(p) /\ p.saved = SubSeq(s.saved, 1, u)
       /\ p.queue = s.saved[u + 1].queue /\ p.facts = s.saved[u + 1].facts
       /\ p.known = s.saved[u + 1].known /\ p.trail_lim = s.trail_lim
       /\ p.order_heap = s.order_heap
  <2> DEFINE k == u + 1
  <2>1. k = Len(s.saved) - 1 + 1 /\ k - 1 = Len(s.saved) - 1 /\ k - 1 = u
    BY <1>6, <1>7
  <2> HIDE DEF k
  <2>2. /\ HasFields(p) /\ p.saved = SubSeq(s.saved, 1, k - 1)
        /\ p.queue = s.saved[k].queue /\ p.facts = s.saved[k].facts
        /\ p.known = s.saved[k].known /\ p.trail_lim = s.trail_lim
        /\ p.order_heap = s.order_heap
    BY <1>5, <2>1, PopFields
  <2> QED  BY <2>1, <2>2 DEF k
<1> HIDE DEF p, tr
<1>16. /\ HasFields(t) /\ t.trail = tr /\ t.qhead = n /\ t.regs = <<>>
       /\ t.order_heap = s.order_heap \cup heap
       /\ t.saved = p.saved /\ t.queue = p.queue /\ t.facts = p.facts /\ t.known = p.known
       /\ t.trail_lim = <<>>
  <2> DEFINE r == Unlocked(tr, cs)
             w == [p EXCEPT !.trail = r, !.qhead = n, !.order_heap = @ \cup heap, !.regs = <<>>]
  <2>1. /\ HasFields(w) /\ w.trail = r /\ w.qhead = n /\ w.regs = <<>>
        /\ w.order_heap = p.order_heap \cup heap
        /\ w.saved = p.saved /\ w.queue = p.queue /\ w.facts = p.facts /\ w.known = p.known
        /\ w.trail_lim = p.trail_lim
    BY <1>15 DEF HasFields, CoreFields
  <2>2. t = w
    OBVIOUS
  <2> HIDE DEF w, t
  <2> QED  BY <1>7, <1>13, <1>15, <2>1, <2>2 DEF r
<1>17. Core' = t
  BY <1>1, <1>16, BecomesIs
<1> HIDE DEF t
<1>18. \A k \in 0..u : tins[k] = inputs[k]
  <2>1. inputs \in [0..MaxLevel -> SUBSET SUBSET Lit]
    BY <1>3 DEF Levels
  <2> QED  BY <1>3, <1>6, <2>1 DEF tins
<1>19. Decidable(t, to)
  <2> SUFFICES ASSUME NEW v \in Atom, to[v] # -1, v \notin t.order_heap
               PROVE  v \in Vars(Lits(tr))
    BY <1>16 DEF Decidable
  <2>1. v \in Vars(Lits(s.trail))
    BY <1>9, <1>10, <1>16 DEF Decidable
  <2>2. PICK i \in DOMAIN s.trail : v = Abs(s.trail[i].lit)
    BY <2>1 DEF Vars, Lits
  <2>3. i \notin (n + 1)..Len(s.trail)
    BY <1>16, <2>2 DEF heap
  <2>4. i \in 1..n
    BY <1>8, <1>9, <2>3
  <2>5. tr[i].lit \in Lits(tr)
    BY <1>14, <2>4 DEF Lits
  <2> QED  BY <1>14, <2>2, <2>4, <2>5 DEF Vars
<1>20. CoreTyped(t)
  <2> DEFINE S == [queue : Seq(Lit), facts : Seq(Lit), known : SUBSET TheoryAtom]
  <2>1. s.saved \in Seq(S)
    BY <1>9 DEF CoreTyped
  <2>2. u + 1 \in 1..Len(s.saved) /\ u \in 0..Len(s.saved)
    BY <1>6, <1>7
  <2>3. s.saved[u + 1] \in S
    BY <2>1, <2>2, ElementOfSeq
  <2>4. /\ s.saved[u + 1].queue \in Seq(Lit) /\ s.saved[u + 1].facts \in Seq(Lit)
        /\ s.saved[u + 1].known \subseteq TheoryAtom
    BY <2>3
  <2> HIDE DEF S
  <2>5. SubSeq(s.saved, 1, u) \in Seq(S)
    <3>1. \A i \in 1..u : s.saved[i] \in S
      BY <1>6, <1>7, <2>1, ElementOfSeq
    <3>2. IsSequence(s.saved)
      BY <2>1, SequenceOver
    <3> DEFINE w == SubSeq(s.saved, 1, u)
    <3>3. IsSequence(w) /\ Len(w) = u /\ \A i \in 1..u : w[i] = s.saved[i]
      BY <2>2, <3>2, SequencePrefix
    <3> HIDE DEF w
    <3>4. w \in Seq(S)
      BY <3>1, <3>3, SequenceWithin
    <3> QED  BY <3>4 DEF w
  <2>6. heap \subseteq Atom
    <3>1. \A i \in (n + 1)..Len(s.trail) : i \in DOMAIN s.trail
      BY <1>8, <1>9
    <3> QED  BY <1>9, <3>1, LitFacts DEF heap
  <2>7. <<>> \in Seq([var : TheoryAtom, level : Nat])
    OBVIOUS
  <2> QED  BY <1>9, <1>15, <1>16, <2>4, <2>5, <2>6, <2>7 DEF CoreTyped, S
<1>21. Sound(t, ds, to, u, tins)
  <2>1. Decisions(tr, <<>>, n)
    <3>1. <<>> \in Seq(Nat) /\ DOMAIN <<>> = {}
      OBVIOUS
    <3>2. n \in 0..Len(tr)
      BY <1>8, <1>14
    <3> QED  BY <3>1, <3>2 DEF Decisions, AtZero
  <2>2. Fixed(tr, <<>>, tins)
    <3> SUFFICES ASSUME NEW i \in 1..n
                 PROVE  Entails(AssertedIn(tins, s.trail[i].user), {s.trail[i].lit})
      BY <1>14 DEF Fixed
    <3>1. AtZero(<<>>, i)
      BY DEF AtZero
    <3>2. Entails(AssertedIn(inputs, s.trail[i].user), {s.trail[i].lit})
      BY <1>9, <1>11, <3>1 DEF Fixed
    <3> DEFINE w == s.trail[i].user
    <3>3. w \in Nat /\ w <= u /\ w <= w
      BY <1>5, <1>11, SoundShape
    <3>4. {s.trail[i].lit} \in SUBSET Lit
      BY <1>9, <1>11
    <3> HIDE DEF w
    <3>5. \A k \in 0..w : inputs[k] \subseteq tins[k]
      BY <1>6, <1>18, <3>3
    <3>6. Entails(AssertedIn(inputs, w), {s.trail[i].lit})
            => Entails(AssertedIn(tins, w), {s.trail[i].lit})
      BY <3>3, <3>4, <3>5, EntailsMore
    <3> QED  BY <3>2, <3>6 DEF w
  <2> QED  BY <1>13, <1>16, <1>19, <1>20, <2>1, <2>2 DEF Sound
<1>22. Database(ds, to, u, tins)
  <2>1. ASSUME NEW c \in DOMAIN ca \ cs
        PROVE  ca[c].level <= u /\ Follow(ToSet(ca[c].lits), ca[c].level, to, tins)
    <3>1. ca[c].level \in Nat /\ ca[c].level <= u
      BY <1>6, <1>12 DEF cs
    <3>2. ToSet(ca[c].lits) \in SUBSET Lit /\ Follow(ToSet(ca[c].lits), ca[c].level, intro, inputs)
      BY <1>3, ClauseAt
    <3> DEFINE w == ca[c].level
    <3>3. w \in Nat /\ w <= w /\ w <= u
      BY <3>1
    <3> HIDE DEF w
    <3>4. \A k \in 0..w : inputs[k] \subseteq tins[k]
      BY <1>6, <1>18, <3>3
    <3>5. \A v \in Atom : intro[v] \in 0..w => to[v] = intro[v]
      <4>1. ASSUME NEW v \in Atom, intro[v] \in 0..w
            PROVE  to[v] = intro[v]
        <5>1. ~ (intro[v] > u)
          BY <1>6, <3>3, <4>1
        <5> QED  BY <1>10, <5>1
      <4> QED  BY <4>1
    <3>6. Follow(ToSet(ca[c].lits), w, to, tins)
      BY <3>2, <3>3, <3>4, <3>5, FollowMore DEF w
    <3> QED  BY <3>1, <3>6 DEF w
  <2> QED  BY <1>3, <2>1, DatabaseFewer DEF ds
<1>23. Introduced(to, u)
  <2>1. \A v \in Atom : to[v] \in -1..MaxLevel /\ to[v] <= u
    <3>1. \A v \in Atom : intro[v] \in -1..MaxLevel
      BY <1>3 DEF Introduced
    <3> QED  BY <1>3, <1>6, <1>10, <3>1
  <2> QED  BY <1>10, <2>1 DEF Introduced
<1>24. Levels(u, ok', tins, trail_ok', checks, "none")
  <2>1. /\ trail_ok \in Seq(BOOLEAN) /\ Len(trail_ok) = u + 1
        /\ \A k \in DOMAIN trail_ok : ~trail_ok[k] => Inconsistent(inputs, k - 1)
        /\ inputs \in [0..MaxLevel -> SUBSET SUBSET Lit] /\ checks \in 0..problem.checks
    BY <1>3, <1>6 DEF Levels
  <2>2. ok' = trail_ok[u + 1] /\ trail_ok' = SubSeq(trail_ok, 1, u)
    <3>1. Len(trail_ok) = u + 1 /\ Len(trail_ok) - 1 = u
      BY <1>6, <2>1
    <3>2. Last(trail_ok) = trail_ok[u + 1] /\ Front(trail_ok) = SubSeq(trail_ok, 1, u)
      BY <3>1, Zenon DEF Last, Front
    <3> QED  BY <1>1, <3>2, Zenon
  <2>3. /\ trail_ok' \in Seq(BOOLEAN) /\ Len(trail_ok') = u /\ DOMAIN trail_ok' = 1..u
        /\ \A k \in 1..u : trail_ok'[k] = trail_ok[k] /\ k \in DOMAIN trail_ok
        /\ ok' \in BOOLEAN /\ u + 1 \in DOMAIN trail_ok
    <3> DEFINE B == BOOLEAN
               w == SubSeq(trail_ok, 1, u)
    <3>1. trail_ok \in Seq(B) /\ IsSequence(trail_ok)
      BY <2>1, SequenceOver
    <3> HIDE DEF B
    <3>2. /\ DOMAIN trail_ok = 1..(u + 1) /\ u \in 0..Len(trail_ok)
          /\ \A k \in 1..u : k \in DOMAIN trail_ok
          /\ \A k \in 1..(u + 1) : trail_ok[k] \in B
      BY <1>6, <2>1, <3>1, LenProperties, ElementOfSeq
    <3>3. IsSequence(w) /\ Len(w) = u /\ \A k \in 1..u : w[k] = trail_ok[k]
      BY <3>1, <3>2, SequencePrefix
    <3> HIDE DEF w
    <3>4. \A k \in 1..Len(w) : w[k] \in B
      BY <1>6, <3>2, <3>3
    <3>5. w \in Seq(B) /\ DOMAIN w = 1..u
      BY <3>3, <3>4, SequenceWithin, SequenceShape
    <3>6. u + 1 \in 1..(u + 1)
      BY <1>6
    <3> QED  BY <2>2, <3>2, <3>3, <3>5, <3>6 DEF B, w
  <2>4. ASSUME NEW k \in Nat, k <= u, Inconsistent(inputs, k)
        PROVE  Inconsistent(tins, k)
    <3>1. \A j \in 0..k : inputs[j] \subseteq tins[j]
      BY <1>6, <1>18, <2>4
    <3>2. {} \in SUBSET Lit /\ k <= k
      OBVIOUS
    <3> QED  BY <2>4, <3>1, <3>2, EntailsMore
  <2>5. ~ok' => Inconsistent(tins, u)
    <3> SUFFICES ASSUME ~ok'
                 PROVE  Inconsistent(tins, u)
      OBVIOUS
    <3>1. ~trail_ok[u + 1]
      BY <2>2
    <3>2. Inconsistent(inputs, (u + 1) - 1)
      BY <2>1, <2>3, <3>1, Zenon
    <3>3. (u + 1) - 1 = u /\ u <= u
      BY <1>6
    <3> QED  BY <1>6, <2>4, <3>2, <3>3
  <2>6. ASSUME NEW k \in 1..u, ~trail_ok'[k]
        PROVE  Inconsistent(tins, k - 1)
    <3>1. Inconsistent(inputs, k - 1)
      BY <2>1, <2>3, <2>6
    <3> DEFINE j == k - 1
    <3>2. j \in Nat /\ j <= u
      BY <1>6
    <3> HIDE DEF j
    <3>3. Inconsistent(inputs, j) => Inconsistent(tins, j)
      BY <2>4, <3>2
    <3> QED  BY <3>1, <3>3 DEF j
  <2>7. tins \in [0..MaxLevel -> SUBSET SUBSET Lit]
    BY <2>1 DEF tins
  <2> QED  BY <1>6, <2>1, <2>3, <2>5, <2>6, <2>7 DEF Levels
<1>25. /\ Introduced(intro', assertionLevel') /\ Database(ca', intro', assertionLevel', inputs')
       /\ Sound(t, ca', intro', assertionLevel', inputs')
  BY <1>1, <1>21, <1>22, <1>23
<1>26. Levels(assertionLevel', ok', inputs', trail_ok', checks', answer')
  BY <1>1, <1>24
<1>27. /\ lemmas' = <<>> /\ order' = <<>> /\ update'.conflict \in {Undef, Lazy}
       /\ watching' = {} /\ confl' = Undef /\ pc' = "user"
       /\ type' \in {"without", "with", "final"} /\ recheck' \in BOOLEAN
  BY <1>1, <1>4
<1> QED  BY <1>16, <1>17, <1>25, <1>26, <1>27, StaysIdle

\* A conflict at decision level 0 is one of what is asserted.
LEMMA ConflictAtZeroIs ==
  ASSUME NEW s, NEW cs, NEW in, NEW al \in Nat, NEW ins, Sound(s, cs, in, al, ins),
         Database(cs, in, al, ins), s.trail_lim = <<>>,
         NEW c, ConflictIn(c, s.trail, s.trail_lim, cs, al, ins)
  PROVE  Inconsistent(ins, al)
<1>1. CASE c = Lazy /\ Inconsistent(ins, al)
  BY <1>1
<1>2. CASE c \in DOMAIN cs /\ \A l \in ToSet(cs[c].lits) : -l \in Lits(s.trail)
  <2> DEFINE C == ToSet(cs[c].lits)
             lev == cs[c].level
             D == {}
  <2>1. C \in SUBSET Lit /\ lev \in Nat /\ lev <= al /\ Entails(AssertedIn(ins, lev), C)
    BY <1>2, ClauseAt DEF Follow
  <2>2. \A l \in C \ D : IsFalse(s, l)
    BY <1>2 DEF IsFalse
  <2>3. D \subseteq C
    OBVIOUS
  <2> HIDE DEF C, lev, D
  <2>4. Entails(AssertedIn(ins, al), D)
    BY <2>1, <2>2, <2>3, UnitEntailed
  <2> QED  BY <2>4, EntailsNone DEF D
<1> QED  BY <1>1, <1>2 DEF ConflictIn

-----------------------------------------------------------------------------
(* Unit propagation. *)

\* Outside of updateLemmas, and of the output of the theories, nothing waits.
LEMMA QuietState ==
  ASSUME SoundInv, pc \notin {"output", "lemmas", "attach"}
  PROVE  /\ lemmas = <<>> /\ order = <<>> /\ update.conflict \in {Undef, Lazy}
         /\ type \in {"without", "with", "final"} /\ recheck \in BOOLEAN
BY DEF SoundInv, Updating, Searching

\* Steps to such a state.
LEMMA StaysQuiet ==
  ASSUME Introduced(intro', assertionLevel'),
         Database(ca', intro', assertionLevel', inputs'),
         NEW s, Core' = s, Sound(s, ca', intro', assertionLevel', inputs'),
         Levels(assertionLevel', ok', inputs', trail_ok', checks', answer'),
         lemmas' = <<>>, order' = <<>>, update'.conflict \in {Undef, Lazy},
         pc' \notin {"lemmas", "attach"},
         Searching(pc', type', recheck', answer', watching', confl', s, ca',
                   assertionLevel', inputs')
  PROVE  StaysSound
<1>1. Updating(<<>>, <<>>, update', pc', s, ca', intro', assertionLevel', inputs')
  BY PendingNone, UpdatingFresh
<1> QED  BY <1>1 DEF StaysSound

\* propagateBool moves on.
LEMMA SoundQhead ==
  ASSUME Inv, SoundInv, NEW q \in 0..Len(trail), qhead <= q
  PROVE  LET t == [Core EXCEPT !.qhead = q] IN
         /\ Sound(t, ca, intro, assertionLevel, inputs) /\ HasFields(t)
         /\ t.trail = trail /\ t.trail_lim = trail_lim /\ t.qhead = q
<1> DEFINE t == [Core EXCEPT !.qhead = q]
<1>1. /\ HasFields(t) /\ t.trail = Core.trail /\ t.trail_lim = Core.trail_lim /\ t.qhead = q
      /\ t.queue = Core.queue /\ t.facts = Core.facts /\ t.known = Core.known
      /\ t.saved = Core.saved /\ t.regs = Core.regs /\ t.order_heap = Core.order_heap
  BY CoreShape DEF HasFields, CoreFields
<1> HIDE DEF t
<1>2. Sound(Core, ca, intro, assertionLevel, inputs)
  BY SoundParts
<1>3. Decidable(t, intro) /\ CoreTyped(t)
  BY <1>1, <1>2 DEF Sound, Decidable, CoreTyped
<1>4. t.qhead \in 0..Len(Core.trail) /\ Core.qhead <= t.qhead
  BY <1>1, CoreShape
<1>5. Sound(t, ca, intro, assertionLevel, inputs)
  BY <1>1, <1>2, <1>3, <1>4, SoundOther
<1> QED  BY <1>1, <1>5, CoreShape DEF t

\* Where the trail and qhead are.
LEMMA TrailShape ==
  ASSUME SoundInv
  PROVE  /\ trail \in Seq(Entry) /\ Len(trail) \in Nat /\ DOMAIN trail = 1..Len(trail)
         /\ \A i \in DOMAIN trail : trail[i].lit \in Lit
         /\ qhead \in 0..Len(trail) /\ qhead \in Nat
         /\ \A k \in DOMAIN trail_lim : trail_lim[k] \in Nat /\ trail_lim[k] < Len(trail)
                                         /\ trail_lim[k] <= qhead
         /\ Graph(trail, ca, intro, assertionLevel) /\ Decisions(trail, trail_lim, qhead)
<1>1. Sound(Core, ca, intro, assertionLevel, inputs)
  BY SoundParts
<1>2. Graph(trail, ca, intro, assertionLevel) /\ Decisions(trail, trail_lim, qhead)
  BY <1>1, CoreShape DEF Sound
<1>3. /\ trail \in Seq(Entry) /\ Len(trail) \in Nat /\ DOMAIN trail = 1..Len(trail)
      /\ \A i \in DOMAIN trail : trail[i].lit \in Lit
  BY <1>1, SoundShape, CoreShape
<1>4. /\ qhead \in 0..Len(trail) /\ DOMAIN trail_lim = 1..Len(trail_lim)
      /\ \A k \in 1..Len(trail_lim) : trail_lim[k] \in Nat /\ trail_lim[k] < Len(trail)
                                       /\ trail_lim[k] <= qhead
  BY <1>2, DecisionsShape
<1> QED  BY <1>2, <1>3, <1>4

\* propagateBool takes the next literal of the trail.
LEMMA SoundNextFact ==
  ASSUME Inv, SoundInv, NextFact
  PROVE  StaysSound
<1> DEFINE q == qhead + 1
           t == [Core EXCEPT !.qhead = q]
<1>1. /\ pc = "bool" /\ confl = Undef /\ qhead < Len(trail) /\ qhead' = q
      /\ watching' = Watches(trail[q].lit)
      /\ UNCHANGED <<trail, trail_lim, queue, facts, known, saved, order_heap,
                     variables_to_register, intro, ca, lemmas, order, update, pc,
                     type, confl, recheck>>
      /\ UNCHANGED <<assertionLevel, ok, trail_ok, answer, inputs, checks>>
  BY DEF NextFact, userVars
<1>2. /\ Introduced(intro, assertionLevel) /\ Database(ca, intro, assertionLevel, inputs)
      /\ Levels(assertionLevel, ok, inputs, trail_ok, checks, answer)
  BY SoundParts
<1>3. /\ lemmas = <<>> /\ order = <<>> /\ update.conflict \in {Undef, Lazy}
      /\ type \in {"without", "with", "final"} /\ recheck \in BOOLEAN
  BY <1>1, QuietState
<1>4. type = "without" => trail_lim = <<>>
  BY CoreShape DEF SoundInv, Searching
<1>5. q \in 0..Len(trail) /\ qhead <= q /\ q > 0 /\ AtTop(trail_lim, q)
  <2>1. \A k \in DOMAIN trail_lim : trail_lim[k] < q
    BY TrailShape
  <2> QED  BY <1>1, <2>1, TrailShape DEF AtTop
<1> HIDE DEF q
<1>6. /\ Sound(t, ca, intro, assertionLevel, inputs) /\ HasFields(t)
      /\ t.trail = trail /\ t.trail_lim = trail_lim /\ t.qhead = q
  BY <1>5, SoundQhead
<1>7. Core' = t
  BY <1>1 DEF Core
<1> HIDE DEF t, Inv, SoundInv
<1>8. \A c \in watching' : c \in DOMAIN ca /\ -trail[q].lit \in {ca[c].lits[1], ca[c].lits[2]}
  BY <1>1 DEF Watches
<1>9. Searching(pc', type', recheck', answer', watching', confl', t, ca',
                assertionLevel', inputs')
  BY <1>1, <1>3, <1>4, <1>5, <1>6, <1>8 DEF Searching
<1> QED  BY <1>1, <1>2, <1>3, <1>6, <1>7, <1>9, StaysQuiet

\* propagateBool is done, or has found a conflict.
LEMMA SoundBoolDone ==
  ASSUME Inv, SoundInv, BoolDone
  PROVE  StaysSound
<1>1. /\ pc = "bool" /\ watching = {} /\ qhead = Len(trail)
      /\ confl' = IF pc' = "user" THEN Undef ELSE confl
      /\ UNCHANGED <<coreVars, intro, ca, lemmas, order, update, assertionLevel, trail_ok, checks,
                     answer, inputs, type, watching, recheck>>
      /\ \/ confl = Undef /\ type # "without" /\ pc' = "theory" /\ ok' = ok
         \/ type = "without" /\ pc' = "user" /\ ok' = (confl = Undef)
         \/ confl # Undef /\ type # "without" /\ pc' = "conflict" /\ ok' = ok
  BY DEF BoolDone, Return
<1>2. /\ Introduced(intro, assertionLevel) /\ Database(ca, intro, assertionLevel, inputs)
      /\ Sound(Core, ca, intro, assertionLevel, inputs)
      /\ Levels(assertionLevel, ok, inputs, trail_ok, checks, answer)
      /\ Searching(pc, type, recheck, answer, watching, confl, Core, ca, assertionLevel, inputs)
  BY SoundParts
<1>3. /\ lemmas = <<>> /\ order = <<>> /\ update.conflict \in {Undef, Lazy}
      /\ type \in {"without", "with", "final"} /\ recheck \in BOOLEAN
  BY <1>1, QuietState
<1>4. Core' = Core
  BY <1>1, CoreUnchanged
<1>5. confl # Undef => ConflictIn(confl, trail, trail_lim, ca, assertionLevel, inputs)
  BY <1>2, CoreShape DEF Searching
<1>6. type = "without" => trail_lim = <<>>
  BY <1>2, CoreShape DEF Searching
<1> HIDE DEF Inv, SoundInv
<1>7. Levels(assertionLevel', ok', inputs', trail_ok', checks', answer')
  <2>1. CASE ok' = ok
    BY <1>1, <1>2, <2>1
  <2>2. CASE type = "without" /\ pc' = "user" /\ ok' = (confl = Undef)
    <3>1. confl # Undef => Inconsistent(inputs, assertionLevel)
      <4>1. assertionLevel \in Nat /\ Core.trail_lim = <<>>
        BY <1>6, <2>2, SoundParts, CoreShape
      <4>2. confl # Undef => ConflictIn(confl, Core.trail, Core.trail_lim, ca, assertionLevel, inputs)
        BY <1>5, CoreShape
      <4> QED  BY <1>2, <4>1, <4>2, ConflictAtZeroIs
    <3>2. ok' \in BOOLEAN /\ (~ok' => confl # Undef)
      BY <2>2
    <3> QED  BY <1>1, <1>2, <3>1, <3>2 DEF Levels
  <2> QED  BY <1>1, <2>1, <2>2
<1>8. Searching(pc', type', recheck', answer', watching', confl', Core, ca',
                assertionLevel', inputs')
  BY <1>1, <1>3, <1>5, <1>6, CoreShape DEF Searching
<1>9. pc' \in {"theory", "user", "conflict"}
  BY <1>1
<1>10. /\ Introduced(intro', assertionLevel') /\ Database(ca', intro', assertionLevel', inputs')
       /\ Sound(Core, ca', intro', assertionLevel', inputs')
  BY <1>1, <1>2
<1>11. lemmas' = <<>> /\ order' = <<>> /\ update'.conflict \in {Undef, Lazy}
  BY <1>1, <1>3
<1> QED  BY <1>4, <1>7, <1>8, <1>9, <1>10, <1>11, StaysQuiet

\* Exchanging two literals.
Swapped(q, i, j) == [q EXCEPT ![i] = q[j], ![j] = q[i]]

\* Two literals of a clause change places.
LEMMA SwapLits ==
  ASSUME NEW q, q \in Seq(Lit), NEW i, i \in 1..Len(q), NEW j, j \in 1..Len(q),
         NEW r, r = Swapped(q, i, j)
  PROVE  /\ r \in Seq(Lit) /\ Len(r) = Len(q) /\ ToSet(r) = ToSet(q)
         /\ r[j] = q[i] /\ r[i] = q[j]
         /\ \A k \in 1..Len(q) : k # i /\ k # j => r[k] = q[k]
<1>1. DOMAIN q = 1..Len(q) /\ Len(q) \in Nat /\ \A k \in 1..Len(q) : q[k] \in Lit
  BY LenProperties, ElementOfSeq
<1>2. /\ DOMAIN r = 1..Len(q) /\ r[j] = q[i] /\ r[i] = q[j]
      /\ \A k \in 1..Len(q) : k # i /\ k # j => r[k] = q[k]
      /\ r = [k \in 1..Len(q) |-> r[k]]
  BY <1>1 DEF Swapped
<1>3. \A k \in 1..Len(q) : r[k] \in Lit
  BY <1>1, <1>2
<1>4. IsSequence(r) /\ Len(r) = Len(q)
  BY <1>1, <1>2, SequenceFunction
<1>5. r \in Seq(Lit)
  BY <1>3, <1>4, SequenceWithin
<1>6. ToSet(r) = ToSet(q)
  <2>1. ToSet(r) = {r[k] : k \in 1..Len(q)} /\ ToSet(q) = {q[k] : k \in 1..Len(q)}
    BY <1>1, <1>2 DEF ToSet
  <2>2. \A k \in 1..Len(q) : \E m \in 1..Len(q) : r[k] = q[m]
    BY <1>2
  <2>3. \A k \in 1..Len(q) : \E m \in 1..Len(q) : q[k] = r[m]
    BY <1>2
  <2>4. \A x : x \in ToSet(r) <=> \E k \in 1..Len(q) : x = r[k]
    BY <2>1
  <2>5. \A x : x \in ToSet(q) <=> \E k \in 1..Len(q) : x = q[k]
    BY <2>1
  <2> HIDE DEF ToSet
  <2>6. ASSUME NEW x \in ToSet(r)
        PROVE  x \in ToSet(q)
    <3>1. PICK k \in 1..Len(q) : x = r[k]
      BY <2>4, <2>6
    <3> QED  BY <2>2, <2>5, <3>1
  <2>7. ASSUME NEW x \in ToSet(q)
        PROVE  x \in ToSet(r)
    <3>1. PICK k \in 1..Len(q) : x = q[k]
      BY <2>5, <2>7
    <3> QED  BY <2>3, <2>4, <3>1
  <2> QED  BY <2>6, <2>7
<1> QED  BY <1>2, <1>4, <1>5, <1>6

\* The literals q with the false one f, which is one of the first two, second.
FalseSecond(q, f) == IF q[1] = f THEN [q EXCEPT ![1] = q[2], ![2] = f] ELSE q

\* The false watched literal is made the second one.
LEMMA FalseSecondIs ==
  ASSUME NEW q, q \in Seq(Lit), Len(q) > 1, NEW f, f \in {q[1], q[2]}
  PROVE  LET r == FalseSecond(q, f) IN
         /\ r \in Seq(Lit) /\ Len(r) = Len(q) /\ ToSet(r) = ToSet(q) /\ r[2] = f
         /\ q[1] # f => r[1] = q[1]
<1> DEFINE r == FalseSecond(q, f)
<1>1. CASE q[1] = f
  <2>1. PICK i, j : i = 1 /\ j = 2
    OBVIOUS
  <2>2. r = Swapped(q, i, j)
    BY <1>1, <2>1 DEF Swapped, FalseSecond
  <2>3. i \in 1..Len(q) /\ j \in 1..Len(q)
    BY <2>1, LenProperties
  <2> HIDE DEF r
  <2>4. /\ r \in Seq(Lit) /\ Len(r) = Len(q) /\ ToSet(r) = ToSet(q) /\ r[j] = q[i]
    BY <2>2, <2>3, SwapLits
  <2> QED  BY <1>1, <2>1, <2>4 DEF r
<1>2. CASE q[1] # f
  BY <1>2 DEF FalseSecond
<1> QED  BY <1>1, <1>2

\* The literals of a clause are exchanged, those that it is a reason of stay first.
LEMMA SoundVisited ==
  ASSUME SoundInv, NEW c \in DOMAIN ca, NEW lits \in Seq(Lit),
         Len(lits) = Len(ca[c].lits), ToSet(lits) = ToSet(ca[c].lits),
         \A i \in DOMAIN trail : trail[i].reason = c => lits[1] = ca[c].lits[1]
  PROVE  LET to == [ca EXCEPT ![c].lits = lits] IN
         /\ Database(to, intro, assertionLevel, inputs)
         /\ Sound(Core, to, intro, assertionLevel, inputs)
         /\ DOMAIN to = DOMAIN ca /\ to[c].lits = lits
         /\ \A d \in DOMAIN ca : d # c => to[d] = ca[d]
<1> DEFINE to == [ca EXCEPT ![c].lits = lits]
<1>1. Database(ca, intro, assertionLevel, inputs) /\ Sound(Core, ca, intro, assertionLevel, inputs)
  BY SoundParts
<1>2. /\ Database(to, intro, assertionLevel, inputs) /\ DOMAIN to = DOMAIN ca
      /\ to[c].lits = lits /\ to[c].level = ca[c].level
      /\ \A d \in DOMAIN ca : d # c => to[d] = ca[d]
  BY <1>1, DatabaseSame
<1> HIDE DEF to
<1>3. ASSUME NEW i \in DOMAIN trail, trail[i].reason > 0
      PROVE  /\ trail[i].reason \in DOMAIN to
             /\ to[trail[i].reason].lits[1] = ca[trail[i].reason].lits[1]
             /\ to[trail[i].reason].level = ca[trail[i].reason].level
             /\ ToSet(to[trail[i].reason].lits) = ToSet(ca[trail[i].reason].lits)
  <2>1. trail[i].reason \in DOMAIN ca
    BY <1>1, <1>3, CoreShape DEF Sound, Graph, Rests
  <2>2. CASE trail[i].reason = c
    BY <1>2, <2>1, <2>2
  <2>3. CASE trail[i].reason # c
    BY <1>2, <2>1, <2>3
  <2> QED  BY <2>2, <2>3
<1>4. Sound(Core, to, intro, assertionLevel, inputs)
  <2>1. \A i \in DOMAIN Core.trail : Core.trail[i].reason > 0 =>
          /\ Core.trail[i].reason \in DOMAIN to
          /\ to[Core.trail[i].reason].lits[1] = ca[Core.trail[i].reason].lits[1]
          /\ to[Core.trail[i].reason].level = ca[Core.trail[i].reason].level
          /\ ToSet(to[Core.trail[i].reason].lits) = ToSet(ca[Core.trail[i].reason].lits)
    BY <1>3, CoreShape
  <2> QED  BY <1>1, <2>1, SoundClauses
<1> QED  BY <1>2, <1>4 DEF to

\* What propagateBool reads: the visited clause, with the false literal second.
LEMMA VisitedClause ==
  ASSUME Inv, SoundInv, NEW c \in watching,
         NEW f, f = -trail[qhead].lit, NEW old, old = ca[c].lits,
         NEW lits, lits = FalseSecond(old, f)
  PROVE  /\ c \in DOMAIN ca /\ qhead \in DOMAIN trail /\ f \in Lit /\ IsFalse(Core, f)
         /\ AtTop(trail_lim, qhead)
         /\ old \in Seq(Lit) /\ lits \in Seq(Lit) /\ Len(lits) = Len(old) /\ Len(old) > 1
         /\ ToSet(lits) = ToSet(old) /\ lits[2] = f
         /\ \A i \in DOMAIN trail : trail[i].reason = c => lits[1] = old[1] /\ IsTrue(Core, lits[1])
<1>1. /\ qhead > 0 /\ AtTop(trail_lim, qhead) /\ c \in DOMAIN ca
      /\ -trail[qhead].lit \in {ca[c].lits[1], ca[c].lits[2]}
  BY CoreShape DEF SoundInv, Searching
<1>2. qhead \in DOMAIN trail /\ trail[qhead].lit \in Lit
  BY <1>1, TrailShape
<1>3. f \in Lit /\ -f = trail[qhead].lit /\ IsFalse(Core, f)
  BY <1>2, LitFacts, CoreShape DEF IsFalse, Lits
<1>4. /\ old \in Seq(Lit) /\ Len(old) \in Nat /\ Len(old) > 1
  BY <1>1, SoundParts, ClauseAt
<1>5. f \in {old[1], old[2]}
  BY <1>1
<1>6. /\ lits \in Seq(Lit) /\ Len(lits) = Len(old) /\ ToSet(lits) = ToSet(old) /\ lits[2] = f
      /\ old[1] # f => lits[1] = old[1]
  BY <1>4, <1>5, FalseSecondIs
<1>7. ASSUME NEW i \in DOMAIN trail, trail[i].reason = c
      PROVE  lits[1] = old[1] /\ IsTrue(Core, lits[1])
  <2>1. c > 0
    BY <1>1, SoundParts, ClauseAt
  <2>2. old[1] = trail[i].lit
    BY <1>7, <2>1, TrailShape DEF Graph, Rests
  <2>3. IsTrue(Core, old[1])
    BY <2>2, CoreShape DEF IsTrue, Lits
  <2>4. ~ (IsTrue(Core, f) /\ IsFalse(Core, f))
    BY <1>3, SoundParts, AssignedIs DEF Sound
  <2>5. old[1] # f
    BY <1>3, <2>3, <2>4
  <2> QED  BY <1>6, <2>3, <2>5
<1> QED  BY <1>1, <1>2, <1>3, <1>4, <1>6, <1>7

\* Another literal than f is watched.
Moved(q, m, f) == [q EXCEPT ![2] = q[m], ![m] = f]

\* What visiting a clause may do, the clause having become lits.
Visit(c, f, lits) ==
  LET free == {k \in 3..Len(lits) : ~IsFalse(Core, lits[k])} IN
      \/ ca' = ca /\ watching' = watching \ {c} /\ UNCHANGED <<confl, coreVars>>
      \/ /\ ca' = [ca EXCEPT ![c].lits = lits]
         /\ watching' = watching \ {c} /\ UNCHANGED <<confl, coreVars>>
      \/ /\ free # {}
         /\ ca' = [ca EXCEPT ![c].lits = Moved(lits, Min(free), f)]
         /\ watching' = watching \ {c} /\ UNCHANGED <<confl, coreVars>>
      \/ /\ IsUndef(Core, lits[1]) /\ free = {}
         /\ ca' = [ca EXCEPT ![c].lits = lits] /\ watching' = watching \ {c}
         /\ Becomes(uncheckedEnqueue(Core, lits[1], c, {})) /\ UNCHANGED confl
      \/ /\ IsFalse(Core, lits[1]) /\ free = {}
         /\ ca' = [ca EXCEPT ![c].lits = lits] /\ watching' = {} /\ confl' = c
         /\ Becomes([Core EXCEPT !.qhead = Len(trail)])

\* The three ways that a visited clause can go, in a form to cite.
LEMMA VisitIs ==
  ASSUME NEW c, VisitWatch(c)
  PROVE  /\ pc = "bool" /\ c \in watching
         /\ Visit(c, -trail[qhead].lit, FalseSecond(ca[c].lits, -trail[qhead].lit))
         /\ UNCHANGED <<intro, lemmas, order, update, assertionLevel, ok, trail_ok, answer,
                        inputs, checks, pc, type, recheck>>
<1>1. pc = "bool" /\ c \in watching
      /\ UNCHANGED <<intro, lemmas, order, update, userVars, pc, type, recheck>>
  BY Zenon DEF VisitWatch
<1>2. Visit(c, -trail[qhead].lit, FalseSecond(ca[c].lits, -trail[qhead].lit))
  BY Zenon DEF VisitWatch, Visit, FalseSecond, Moved
<1> QED  BY <1>1, <1>2 DEF userVars

\* Another literal is watched.
LEMMA WatchMoved ==
  ASSUME NEW q, q \in Seq(Lit), NEW f, q[2] = f, Len(q) > 1, NEW m, m \in 3..Len(q)
  PROVE  LET r == Moved(q, m, f) IN
         r \in Seq(Lit) /\ Len(r) = Len(q) /\ ToSet(r) = ToSet(q) /\ r[1] = q[1]
<1> DEFINE r == Moved(q, m, f)
<1>1. PICK i : i = 2
  OBVIOUS
<1>2. r = Swapped(q, i, m)
  BY <1>1 DEF Swapped, Moved
<1>3. i \in 1..Len(q) /\ m \in 1..Len(q)
  BY <1>1, LenProperties
<1>4. r[1] = q[1]
  BY LenProperties DEF Moved
<1> HIDE DEF r
<1>5. r \in Seq(Lit) /\ Len(r) = Len(q) /\ ToSet(r) = ToSet(q)
  BY <1>2, <1>3, SwapLits
<1> QED  BY <1>4, <1>5 DEF r

\* Where the search is after a clause is visited and moved, or not.
LEMMA VisitSearching ==
  ASSUME Inv, SoundInv, pc = "bool", NEW c \in watching, NEW to, NEW s,
         DOMAIN to = DOMAIN ca, \A d \in DOMAIN ca : d # c => to[d] = ca[d],
         s.trail_lim = trail_lim, s.qhead = qhead,
         \A i \in DOMAIN trail : s.trail[i] = trail[i]
  PROVE  Searching("bool", type, recheck, answer, watching \ {c}, confl, s, to,
                   assertionLevel, inputs)
<1>1. Searching(pc, type, recheck, answer, watching, confl, Core, ca, assertionLevel, inputs)
  BY SoundParts
<1>2. /\ confl = Undef /\ qhead > 0 /\ AtTop(trail_lim, qhead)
      /\ \A d \in watching : /\ d \in DOMAIN ca
                             /\ -trail[qhead].lit \in {ca[d].lits[1], ca[d].lits[2]}
  BY <1>1, CoreShape DEF Searching
<1>3. qhead \in DOMAIN trail
  BY <1>2, TrailShape
<1>4. type = "without" => trail_lim = <<>>
  BY <1>1, CoreShape DEF Searching
<1>5. type \in {"without", "with", "final"} /\ recheck \in BOOLEAN
  BY <1>1 DEF Searching
<1> HIDE DEF Inv, SoundInv
<1>6. \A d \in watching \ {c} : /\ d \in DOMAIN to
                                /\ -s.trail[s.qhead].lit \in {to[d].lits[1], to[d].lits[2]}
  BY <1>2, <1>3
<1> QED  BY <1>2, <1>4, <1>5, <1>6 DEF Searching

\* A clause is visited whose watched literal became false: it is satisfied, watches
\* another literal, is unit, or is the conflict.
LEMMA SoundVisitWatch ==
  ASSUME Inv, SoundInv, NEW c, VisitWatch(c)
  PROVE  StaysSound
<1> DEFINE f == -trail[qhead].lit
           old == ca[c].lits
           lits == FalseSecond(old, f)
           free == {k \in 3..Len(lits) : ~IsFalse(Core, lits[k])}
           m == Min(free)
           to == [ca EXCEPT ![c].lits = lits]
<1>1. /\ pc = "bool" /\ c \in watching /\ Visit(c, f, lits)
      /\ UNCHANGED <<intro, lemmas, order, update, assertionLevel, ok, trail_ok, answer,
                     inputs, checks, pc, type, recheck>>
  BY VisitIs
<1>2. /\ Introduced(intro, assertionLevel) /\ Database(ca, intro, assertionLevel, inputs)
      /\ Sound(Core, ca, intro, assertionLevel, inputs)
      /\ Levels(assertionLevel, ok, inputs, trail_ok, checks, answer)
      /\ assertionLevel \in 0..MaxLevel
  BY SoundParts
<1>3. /\ lemmas = <<>> /\ order = <<>> /\ update.conflict \in {Undef, Lazy}
      /\ type \in {"without", "with", "final"} /\ recheck \in BOOLEAN
  BY <1>1, QuietState
<1>4. /\ c \in DOMAIN ca /\ qhead \in DOMAIN trail /\ f \in Lit /\ IsFalse(Core, f)
      /\ AtTop(trail_lim, qhead)
      /\ old \in Seq(Lit) /\ lits \in Seq(Lit) /\ Len(lits) = Len(old) /\ Len(old) > 1
      /\ ToSet(lits) = ToSet(old) /\ lits[2] = f
      /\ \A i \in DOMAIN trail : trail[i].reason = c => lits[1] = old[1] /\ IsTrue(Core, lits[1])
  BY <1>1, VisitedClause
<1>5. problem \in Problems /\ HasFields(Core)
  BY InvCore
<1>6. /\ Database(to, intro, assertionLevel, inputs)
      /\ Sound(Core, to, intro, assertionLevel, inputs)
      /\ DOMAIN to = DOMAIN ca /\ to[c].lits = lits
      /\ \A d \in DOMAIN ca : d # c => to[d] = ca[d]
  BY <1>4, SoundVisited
<1>7. /\ \A k \in 1..Len(lits) : lits[k] \in ToSet(lits) /\ lits[k] \in Lit
      /\ ToSet(lits) = {lits[k] : k \in 1..Len(lits)} /\ Len(lits) \in Nat
  <2> HIDE DEF to, lits
  <2>1. /\ \A k \in 1..Len(to[c].lits) : to[c].lits[k] \in Lit
                                          /\ to[c].lits[k] \in ToSet(to[c].lits)
        /\ ToSet(to[c].lits) = {to[c].lits[k] : k \in 1..Len(to[c].lits)}
        /\ Len(to[c].lits) \in Nat
    BY <1>4, <1>6, ClauseAt
  <2> QED  BY <1>6, <2>1
<1>8. free = {} => \A l \in ToSet(lits) : l = lits[1] \/ IsFalse(Core, l)
  <2> SUFFICES ASSUME free = {}, NEW l \in ToSet(lits), l # lits[1]
               PROVE  IsFalse(Core, l)
    OBVIOUS
  <2>1. PICK k \in 1..Len(lits) : l = lits[k]
    BY <1>7
  <2>2. k = 2 \/ k \in 3..Len(lits)
    BY <1>7, <2>1
  <2> QED  BY <1>4, <2>1, <2>2
<1>9. ASSUME NEW ds, Database(ds, intro, assertionLevel, inputs), ca' = ds,
             Sound(Core, ds, intro, assertionLevel, inputs), DOMAIN ds = DOMAIN ca,
             \A d \in DOMAIN ca : d # c => ds[d] = ca[d],
             watching' = watching \ {c}, UNCHANGED <<confl, coreVars>>
      PROVE  StaysSound
  <2>1. Searching("bool", type, recheck, answer, watching \ {c}, confl, Core, ds,
                  assertionLevel, inputs)
    BY <1>1, <1>9, VisitSearching, CoreShape
  <2>2. Core' = Core
    BY <1>9, CoreUnchanged
  <2> HIDE DEF Inv, SoundInv
  <2> QED  BY <1>1, <1>2, <1>3, <1>9, <2>1, <2>2, StaysQuiet
<1> HIDE DEF lits, to, f
<1>10. CASE ca' = ca /\ watching' = watching \ {c} /\ UNCHANGED <<confl, coreVars>>
  BY <1>2, <1>9, <1>10
<1>11. CASE ca' = to /\ watching' = watching \ {c} /\ UNCHANGED <<confl, coreVars>>
  BY <1>6, <1>9, <1>11
<1>12. CASE /\ free # {}
            /\ ca' = [ca EXCEPT ![c].lits = Moved(lits, m, f)]
            /\ watching' = watching \ {c} /\ UNCHANGED <<confl, coreVars>>
  <2> DEFINE r == Moved(lits, m, f)
             ds == [ca EXCEPT ![c].lits = r]
  <2>1. m \in 3..Len(lits)
    <3>1. free \subseteq Nat
      BY <1>7
    <3> QED  BY <1>12, <3>1, NatMin
  <2> HIDE DEF m
  <2>2. r \in Seq(Lit) /\ Len(r) = Len(old) /\ ToSet(r) = ToSet(old) /\ r[1] = lits[1]
    BY <1>4, <2>1, WatchMoved
  <2> HIDE DEF r
  <2>3. /\ Database(ds, intro, assertionLevel, inputs)
        /\ Sound(Core, ds, intro, assertionLevel, inputs)
        /\ DOMAIN ds = DOMAIN ca
        /\ \A d \in DOMAIN ca : d # c => ds[d] = ca[d]
    BY <1>4, <2>2, SoundVisited
  <2>4. ca' = ds
    BY <1>12 DEF r
  <2> HIDE DEF ds
  <2> QED  BY <1>9, <1>12, <2>3, <2>4
<1>13. CASE /\ IsUndef(Core, lits[1]) /\ free = {} /\ ca' = to /\ watching' = watching \ {c}
            /\ Becomes(uncheckedEnqueue(Core, lits[1], c, {})) /\ UNCHANGED confl
  <2> DEFINE t == uncheckedEnqueue(Core, lits[1], c, {})
  <2>1. Enqueues(Core, to, intro, inputs, lits[1], c, {})
    <3>1. lits[1] \in Lit /\ lits[1] \in ToSet(lits)
      BY <1>4, <1>7
    <3>2. intro[Abs(lits[1])] # -1
      <4>1. Follow(ToSet(lits), to[c].level, intro, inputs)
        BY <1>4, <1>6, ClauseAt
      <4>2. intro[Abs(lits[1])] \in 0..to[c].level
        BY <3>1, <4>1 DEF Follow, Vars
      <4> QED  BY <4>2
    <3>3. c \in Nat /\ c > 0 /\ c # Undef /\ c # Lazy /\ c \in DOMAIN to
      BY <1>4, <1>6, ClauseAt
    <3>4. \A k \in ToSet(to[c].lits) : k = lits[1] \/ IsFalse(Core, k)
      BY <1>6, <1>8, <1>13
    <3> QED  BY <1>6, <1>13, <3>1, <3>2, <3>3, <3>4 DEF Enqueues
  <2>2. PICK why : why = {}
    OBVIOUS
  <2>3. t = uncheckedEnqueue(Core, lits[1], c, why) /\ Enqueues(Core, to, intro, inputs, lits[1], c, why)
    BY <2>1, <2>2
  <2> HIDE DEF t
  <2>4. /\ Sound(t, to, intro, assertionLevel, inputs) /\ HasFields(t)
        /\ t.trail_lim = Core.trail_lim /\ t.qhead = Core.qhead
        /\ \A i \in DOMAIN Core.trail : i \in DOMAIN t.trail /\ t.trail[i] = Core.trail[i]
    BY <1>2, <1>5, <1>6, <2>3, Enqueued
  <2>5. Core' = t
    BY <1>13, <2>4, BecomesIs DEF t
  <2>6. Searching("bool", type, recheck, answer, watching \ {c}, confl, t, to,
                  assertionLevel, inputs)
    BY <1>1, <1>6, <2>4, VisitSearching, CoreShape
  <2> HIDE DEF Inv, SoundInv
  <2> QED  BY <1>1, <1>2, <1>3, <1>6, <1>13, <2>4, <2>5, <2>6, StaysQuiet
<1>14. CASE /\ IsFalse(Core, lits[1]) /\ free = {} /\ ca' = to /\ watching' = {} /\ confl' = c
            /\ Becomes([Core EXCEPT !.qhead = Len(trail)])
  <2> DEFINE q == Len(trail)
             t == [Core EXCEPT !.qhead = q]
  <2>1. q \in 0..Len(trail) /\ qhead <= q
    BY TrailShape
  <2> HIDE DEF q
  <2>2. HasFields(t) /\ t.trail = trail /\ t.trail_lim = trail_lim /\ t.qhead = q
        /\ Sound(t, ca, intro, assertionLevel, inputs)
    BY <2>1, SoundQhead
  <2>3. Core' = t
    <3>1. Becomes(t)
      BY <1>14 DEF q
    <3> HIDE DEF t
    <3> QED  BY <2>2, <3>1, BecomesIs
  <2>4. Sound(t, to, intro, assertionLevel, inputs)
    <3>1. Decidable(t, intro) /\ CoreTyped(t)
      BY <2>2 DEF Sound
    <3> HIDE DEF t
    <3>2. t.qhead \in 0..Len(Core.trail) /\ Core.qhead <= t.qhead
          /\ t.trail = Core.trail /\ t.trail_lim = Core.trail_lim
      BY <2>1, <2>2, CoreShape
    <3> QED  BY <1>6, <3>1, <3>2, SoundOther
  <2> HIDE DEF t
  <2>5. ConflictIn(c, trail, trail_lim, to, assertionLevel, inputs)
    <3>1. \A l \in ToSet(lits) : -l \in Lits(trail)
      BY <1>8, <1>14, CoreShape DEF IsFalse
    <3>2. -trail[qhead].lit \in ToSet(lits)
      <4>1. 2 \in 1..Len(lits)
        BY <1>4, <1>7
      <4>2. lits[2] \in ToSet(lits)
        BY <1>7, <4>1
      <4> QED  BY <1>4, <4>2 DEF f
    <3> QED  BY <1>4, <1>6, <3>1, <3>2 DEF ConflictIn
  <2>6. type = "without" => trail_lim = <<>>
    BY CoreShape DEF SoundInv, Searching
  <2>7. Searching("bool", type, recheck, answer, {}, c, t, to, assertionLevel, inputs)
    <3>1. c # Undef
      BY <1>4, <1>2, ClauseAt
    <3> HIDE DEF Inv, SoundInv
    <3> QED  BY <1>3, <2>2, <2>5, <2>6, <3>1 DEF Searching, q
  <2> HIDE DEF Inv, SoundInv
  <2>8. /\ Introduced(intro', assertionLevel') /\ Database(ca', intro', assertionLevel', inputs')
        /\ Sound(t, ca', intro', assertionLevel', inputs')
        /\ Levels(assertionLevel', ok', inputs', trail_ok', checks', answer')
        /\ lemmas' = <<>> /\ order' = <<>> /\ update'.conflict \in {Undef, Lazy}
        /\ pc' = "bool"
    BY <1>1, <1>2, <1>3, <1>6, <1>14, <2>4
  <2>9. Searching(pc', type', recheck', answer', watching', confl', t, ca', assertionLevel', inputs')
    BY <1>1, <1>14, <2>7
  <2> QED  BY <2>3, <2>8, <2>9, StaysQuiet
<1> QED  BY <1>1, <1>10, <1>11, <1>12, <1>13, <1>14 DEF Visit, to

-----------------------------------------------------------------------------
(* The theories. *)

\* What was asserted to the theories is on the trail.
LEMMA CountedAt ==
  ASSUME NEW t, NEW n \in Nat, NEW k \in 1..TheoryCount(t, n)
  PROVE  \E i \in 1..n : Abs(t[i].lit) \in TheoryAtom /\ TheoryCount(t, i) = k
<1> DEFINE T == {i \in Nat : i <= n /\ TheoryCount(t, i) >= k}
           m == Min(T)
<1>1. TheoryCount(t, n) \in Nat /\ k \in Nat /\ k > 0 /\ n \in T
  BY TheoryCountType
<1>2. m \in T /\ \A i \in T : m <= i
  <2>1. T \subseteq Nat /\ T # {}
    BY <1>1
  <2> HIDE DEF T
  <2> QED  BY <2>1, NatMin
<1> HIDE DEF m
<1>3. m \in Nat /\ m <= n /\ TheoryCount(t, m) >= k
  BY <1>2
<1>4. m > 0
  <2> SUFFICES ASSUME m = 0
               PROVE  FALSE
    BY <1>3
  <2>1. TheoryCount(t, m) = 0
    BY TheoryCountNone
  <2> QED  BY <1>1, <1>3, <2>1
<1> DEFINE j == m - 1
<1>5. j \in Nat /\ j <= n /\ m = j + 1 /\ m \in 1..n /\ ~ (m <= j)
  BY <1>3, <1>4
<1> HIDE DEF j
<1>6. TheoryCount(t, j) \in Nat /\ TheoryCount(t, j) < k
  <2>1. TheoryCount(t, j) \in Nat
    BY <1>5, TheoryCountType
  <2>2. j \notin T
    BY <1>2, <1>5
  <2> QED  BY <1>1, <1>5, <2>1, <2>2
<1>7. TheoryCount(t, j + 1) =
        IF Abs(t[j + 1].lit) \in TheoryAtom THEN TheoryCount(t, j) + 1 ELSE TheoryCount(t, j)
  BY <1>5, TheoryCountNext
<1>8. Abs(t[m].lit) \in TheoryAtom /\ TheoryCount(t, m) = k
  <2> DEFINE x == TheoryCount(t, j)
             y == TheoryCount(t, m)
             b == Abs(t[m].lit) \in TheoryAtom
  <2>1. y = (IF b THEN x + 1 ELSE x) /\ x \in Nat /\ x < k /\ y >= k /\ k \in Nat
    BY <1>1, <1>3, <1>5, <1>6, <1>7
  <2> HIDE DEF x, y, b
  <2>2. b /\ y = k
    BY <2>1
  <2> QED  BY <2>2 DEF b, y
<1> QED  BY <1>5, <1>8

\* The literals that the theories were sent are assigned.
LEMMA FactsAssigned ==
  ASSUME Inv
  PROVE  \A l \in ToSet(facts) : l \in Lits(trail)
<1> SUFFICES ASSUME NEW l \in ToSet(facts)
             PROVE  l \in Lits(trail)
  OBVIOUS
<1>1. /\ IsSequence(trail) /\ IsSequence(facts) /\ IsSequence(queue)
      /\ Follows(facts \o queue, trail, Len(trail))
  BY InvCore, CoreShape DEF Sync, InStep, Shaped
<1>2. /\ Len(facts) \in Nat /\ Len(queue) \in Nat /\ Len(trail) \in Nat
      /\ DOMAIN facts = 1..Len(facts) /\ DOMAIN trail = 1..Len(trail)
  BY <1>1, SequenceShape
<1>3. /\ Len(facts \o queue) = Len(facts) + Len(queue)
      /\ \A i \in 1..Len(facts) : (facts \o queue)[i] = facts[i]
  BY <1>1, SequenceConcat
<1>4. PICK k \in 1..Len(facts) : l = facts[k]
  BY <1>2 DEF ToSet
<1>5. /\ Len(facts \o queue) = TheoryCount(trail, Len(trail))
      /\ \A i \in 1..Len(trail) : Abs(trail[i].lit) \in TheoryAtom =>
            (facts \o queue)[TheoryCount(trail, i)] = trail[i].lit
  BY <1>1 DEF Follows
<1>6. k \in 1..TheoryCount(trail, Len(trail))
  BY <1>2, <1>3, <1>4, <1>5
<1>7. PICK i \in 1..Len(trail) : Abs(trail[i].lit) \in TheoryAtom /\ TheoryCount(trail, i) = k
  BY <1>2, <1>6, CountedAt
<1>8. l = trail[i].lit
  BY <1>3, <1>4, <1>5, <1>7
<1> QED  BY <1>2, <1>7, <1>8 DEF Lits

\* The theories get the literals that wait for them.
LEMMA SoundTheoryCheck ==
  ASSUME Inv, SoundInv, TheoryCheck
  PROVE  StaysSound
<1> DEFINE fs == facts \o queue
           t == [Core EXCEPT !.facts = @ \o queue, !.queue = <<>>]
<1>1. /\ pc = "theory" /\ pc' = "output" /\ Becomes(t)
      /\ UNCHANGED <<intro, ca, lemmas, order, update, assertionLevel, ok, trail_ok, answer,
                     inputs, checks, type, confl, watching, recheck>>
  BY DEF TheoryCheck, userVars
<1>2. /\ Introduced(intro, assertionLevel) /\ Database(ca, intro, assertionLevel, inputs)
      /\ Sound(Core, ca, intro, assertionLevel, inputs)
      /\ Levels(assertionLevel, ok, inputs, trail_ok, checks, answer)
      /\ Searching(pc, type, recheck, answer, watching, confl, Core, ca, assertionLevel, inputs)
  BY SoundParts
<1>3. /\ lemmas = <<>> /\ order = <<>> /\ update.conflict \in {Undef, Lazy}
      /\ type \in {"without", "with", "final"} /\ recheck \in BOOLEAN
  BY <1>1, QuietState
<1>4. watching = {} /\ confl = Undef /\ type # "without"
  BY <1>1, <1>2 DEF Searching
<1>5. /\ HasFields(t) /\ t.trail = Core.trail /\ t.trail_lim = Core.trail_lim
      /\ t.qhead = Core.qhead /\ t.queue = <<>> /\ t.facts = fs /\ t.known = Core.known
      /\ t.saved = Core.saved /\ t.regs = Core.regs /\ t.order_heap = Core.order_heap
  BY CoreShape DEF HasFields, CoreFields
<1>6. Core' = t
  BY <1>1, <1>5, BecomesIs
<1> HIDE DEF t, Inv, SoundInv
<1>7. fs \in Seq(Lit) /\ <<>> \in Seq(Lit)
  <2> DEFINE S == Lit
  <2>1. facts \in Seq(S) /\ queue \in Seq(S)
    BY <1>2, CoreShape DEF Sound, CoreTyped
  <2> HIDE DEF S
  <2>2. facts \o queue \in Seq(S)
    BY <2>1
  <2> QED  BY <2>2 DEF S
<1> HIDE DEF fs
<1>8. Sound(t, ca, intro, assertionLevel, inputs)
  <2>1. Decidable(t, intro) /\ CoreTyped(t)
    BY <1>2, <1>5, <1>7 DEF Sound, Decidable, CoreTyped
  <2>2. t.qhead \in 0..Len(Core.trail) /\ Core.qhead <= t.qhead
    BY <1>5, CoreShape, TrailShape
  <2> QED  BY <1>2, <1>5, <2>1, <2>2, SoundOther
<1>9. /\ Introduced(intro', assertionLevel') /\ Database(ca', intro', assertionLevel', inputs')
      /\ Sound(t, ca', intro', assertionLevel', inputs')
      /\ Levels(assertionLevel', ok', inputs', trail_ok', checks', answer')
  BY <1>1, <1>2, <1>8
<1>10. /\ lemmas' = <<>> /\ order' = <<>> /\ update'.conflict \in {Undef, Lazy}
       /\ watching' = {} /\ confl' = Undef /\ pc' = "output"
       /\ type' \in {"without", "with", "final"} /\ recheck' \in BOOLEAN /\ type' # "without"
  BY <1>1, <1>3, <1>4
<1> QED  BY <1>6, <1>9, <1>10, StaysIdle

\* When the theories use their output channels.
LEMMA OutputState ==
  ASSUME SoundInv, pc = "output"
  PROVE  /\ Pending(lemmas, intro, inputs) /\ order = <<>> /\ update.conflict \in {Undef, Lazy}
         /\ watching = {} /\ confl = Undef
         /\ type \in {"with", "final"} /\ recheck \in BOOLEAN
BY DEF SoundInv, Updating, Searching

\* Steps of the theories change the core, the variables and the pending lemmas only.
LEMMA StaysOutput ==
  ASSUME Introduced(intro', assertionLevel'),
         Database(ca', intro', assertionLevel', inputs'),
         NEW s, Core' = s, Sound(s, ca', intro', assertionLevel', inputs'),
         Levels(assertionLevel', ok', inputs', trail_ok', checks', answer'),
         Pending(lemmas', intro', inputs'), order' = <<>>,
         watching' = {}, confl' = Undef, type' \in {"with", "final"}, recheck' \in BOOLEAN,
         \/ pc' = "output" /\ update'.conflict \in {Undef, Lazy}
         \/ pc' = "lemmas" /\ \E back : update' = UpdateLocals(s, back)
  PROVE  StaysSound
<1>1. pc' \in {"output", "lemmas"} /\ pc' # "attach" /\ update'.conflict \in {Undef, Lazy}
      /\ (pc' = "lemmas" => /\ update'.btlevel = Len(s.trail_lim) /\ update'.index = 0
                            /\ update'.conflict = Undef)
  BY DEF UpdateLocals, decisionLevel
<1>2. 0 \in 0..Len(s.trail)
  BY SoundShape
<1>3. Updating(lemmas', <<>>, update', pc', s, ca', intro', assertionLevel', inputs')
  BY <1>1, <1>2, UpdatingFresh
<1>4. Searching(pc', type', recheck', answer', watching', confl', s, ca', assertionLevel', inputs')
  BY <1>1 DEF Searching
<1> QED  BY <1>3, <1>4 DEF StaysSound

\* A theory sends a lemma.
LEMMA SoundTheoryLemma ==
  ASSUME Inv, SoundInv, NEW t \in Theory, NEW removable \in BOOLEAN, TheoryLemma(t, removable)
  PROVE  StaysSound
<1> DEFINE s == newVar(Core, t)
           to == introduced(t)
           ms == AddLemma(s, lemmas, t, removable)
<1>1. /\ pc = "output" /\ pc' = pc /\ intro' = to /\ Becomes(s) /\ lemmas' = ms
      /\ UNCHANGED <<ca, order, update, assertionLevel, ok, trail_ok, answer,
                     inputs, checks, type, confl, watching, recheck>>
  BY DEF TheoryLemma, userVars
<1>2. /\ Introduced(intro, assertionLevel) /\ Database(ca, intro, assertionLevel, inputs)
      /\ Sound(Core, ca, intro, assertionLevel, inputs)
      /\ Levels(assertionLevel, ok, inputs, trail_ok, checks, answer)
      /\ assertionLevel \in 0..MaxLevel /\ assertionLevel \in Nat
  BY SoundParts
<1>3. /\ Pending(lemmas, intro, inputs) /\ order = <<>> /\ update.conflict \in {Undef, Lazy}
      /\ watching = {} /\ confl = Undef
      /\ type \in {"with", "final"} /\ recheck \in BOOLEAN
  BY <1>1, OutputState
<1>4. problem \in Problems /\ HasFields(Core) /\ t \in SUBSET Lit
  BY InvCore, ProblemTyped
<1>5. /\ Introduced(to, assertionLevel)
      /\ Sound(s, ca, to, assertionLevel, inputs) /\ HasFields(s)
      /\ \A v \in Atom : intro[v] # -1 => to[v] = intro[v]
      /\ \A v \in Vars(t) : to[v] \in 0..assertionLevel
  BY <1>2, <1>4, SoundNewVar
<1>6. Core' = s
  BY <1>1, <1>5, BecomesIs
<1> HIDE DEF s, to, Inv, SoundInv
<1>7. Pending(lemmas, to, inputs)
  <2>1. \A v \in Atom : intro[v] # -1 => to[v] # -1
    BY <1>5
  <2> QED  BY <1>3, <2>1, PendingMore
<1>8. Pending(ms, to, inputs)
  <2>1. PICK z : z = 0
    OBVIOUS
  <2>2. z \in Nat
    BY <2>1
  <2>3. Entails(AssertedIn(inputs, z), t)
    BY <1>4, <2>2, MemberEntailed
  <2>4. Entails(AssertedIn(inputs, 0), t)
    BY <2>1, <2>3
  <2>5. \A v \in Vars(t) : to[v] # -1
    BY <1>5
  <2> QED  BY <1>4, <1>5, <1>7, <2>4, <2>5, PendingAdd
<1>9. Database(ca, to, assertionLevel, inputs)
  <2>1. assertionLevel <= assertionLevel /\ \A k \in 0..assertionLevel : inputs[k] \subseteq inputs[k]
    BY <1>2
  <2> QED  BY <1>2, <1>5, <2>1, DatabaseMore
<1> HIDE DEF ms
<1>10. /\ Introduced(intro', assertionLevel') /\ Database(ca', intro', assertionLevel', inputs')
       /\ Sound(s, ca', intro', assertionLevel', inputs')
       /\ Levels(assertionLevel', ok', inputs', trail_ok', checks', answer')
       /\ Pending(lemmas', intro', inputs')
  BY <1>1, <1>2, <1>5, <1>8, <1>9
<1>11. /\ order' = <<>> /\ update'.conflict \in {Undef, Lazy} /\ pc' = "output"
       /\ watching' = {} /\ confl' = Undef
       /\ type' \in {"with", "final"} /\ recheck' \in BOOLEAN
  BY <1>1, <1>3
<1> QED  BY <1>6, <1>10, <1>11, StaysOutput

\* A theory propagates a literal, with an explanation to come.
LEMMA SoundTheoryPropagates ==
  ASSUME Inv, SoundInv, NEW t \in Theory, NEW l \in t, TheoryPropagates(t, l)
  PROVE  StaysSound
<1>0. PICK from : from = Lazy
  OBVIOUS
<1> DEFINE s == uncheckedEnqueue(Core, l, from, t)
<1>1. /\ pc = "output" /\ pc' = pc /\ Becomes(s)
      /\ intro[Abs(l)] # -1 /\ IsUndef(Core, l) /\ t # {l} /\ Falsified(t \ {l})
      /\ UNCHANGED <<intro, ca, lemmas, order, update, assertionLevel, ok, trail_ok, answer,
                     inputs, checks, type, confl, watching, recheck>>
  BY <1>0 DEF TheoryPropagates, userVars
<1>2. /\ Introduced(intro, assertionLevel) /\ Database(ca, intro, assertionLevel, inputs)
      /\ Sound(Core, ca, intro, assertionLevel, inputs)
      /\ Levels(assertionLevel, ok, inputs, trail_ok, checks, answer)
      /\ assertionLevel \in 0..MaxLevel /\ assertionLevel \in Nat
  BY SoundParts
<1>3. /\ Pending(lemmas, intro, inputs) /\ order = <<>> /\ update.conflict \in {Undef, Lazy}
      /\ watching = {} /\ confl = Undef
      /\ type \in {"with", "final"} /\ recheck \in BOOLEAN
  BY <1>1, OutputState
<1>4. problem \in Problems /\ HasFields(Core) /\ t \in SUBSET Lit
  BY InvCore, ProblemTyped
<1>5. \A k \in t : k = l \/ IsFalse(Core, k)
  <2>1. \A k \in t \ {l} : -k \in ToSet(facts)
    BY <1>1 DEF Falsified
  <2> QED  BY <2>1, FactsAssigned, CoreShape DEF IsFalse
<1>6. Enqueues(Core, ca, intro, inputs, l, from, t)
  <2>1. from \in Nat \cup {Lazy} /\ from # Undef /\ ~ (from > 0)
    BY <1>0 DEF Lazy, Undef
  <2> QED  BY <1>1, <1>4, <1>5, <2>1 DEF Enqueues
<1> HIDE DEF s, Inv, SoundInv
<1>7. Sound(s, ca, intro, assertionLevel, inputs) /\ HasFields(s)
  BY <1>2, <1>4, <1>6, Enqueued DEF s
<1>8. Core' = s
  BY <1>1, <1>7, BecomesIs
<1>9. /\ Introduced(intro', assertionLevel') /\ Database(ca', intro', assertionLevel', inputs')
      /\ Sound(s, ca', intro', assertionLevel', inputs')
      /\ Levels(assertionLevel', ok', inputs', trail_ok', checks', answer')
      /\ Pending(lemmas', intro', inputs')
  BY <1>1, <1>2, <1>3, <1>7
<1>10. /\ order' = <<>> /\ update'.conflict \in {Undef, Lazy} /\ pc' = "output"
       /\ watching' = {} /\ confl' = Undef
       /\ type' \in {"with", "final"} /\ recheck' \in BOOLEAN
  BY <1>1, <1>3
<1> QED  BY <1>8, <1>9, <1>10, StaysOutput

\* The theories are done.
LEMMA SoundTheoryDone ==
  ASSUME Inv, SoundInv, TheoryDone
  PROVE  StaysSound
<1>1. /\ pc = "output" /\ recheck' = (type = "final" /\ NeedCheck)
      /\ UNCHANGED <<coreVars, intro, ca, lemmas, order, assertionLevel, trail_ok, checks, answer,
                     inputs, type, confl, watching>>
      /\ \/ lemmas # <<>> /\ pc' = "lemmas" /\ update' = UpdateLocals(Core, "theory") /\ ok' = ok
         \/ /\ lemmas = <<>> /\ update' = update
            /\ \/ type # "final" /\ pc' = "bool" /\ ok' = ok
               \/ ~ (type # "final" /\ qhead < Len(trail)) /\ Return(Undef)
  BY DEF TheoryDone
<1>2. /\ Introduced(intro, assertionLevel) /\ Database(ca, intro, assertionLevel, inputs)
      /\ Sound(Core, ca, intro, assertionLevel, inputs)
      /\ Levels(assertionLevel, ok, inputs, trail_ok, checks, answer)
  BY SoundParts
<1>3. /\ Pending(lemmas, intro, inputs) /\ order = <<>> /\ update.conflict \in {Undef, Lazy}
      /\ watching = {} /\ confl = Undef
      /\ type \in {"with", "final"} /\ recheck \in BOOLEAN
  BY <1>1, OutputState
<1>4. Core' = Core /\ recheck' \in BOOLEAN
  BY <1>1, CoreUnchanged
<1>5. CASE lemmas # <<>> /\ pc' = "lemmas" /\ update' = UpdateLocals(Core, "theory") /\ ok' = ok
  <2> HIDE DEF Inv, SoundInv
  <2>1. /\ Introduced(intro', assertionLevel') /\ Database(ca', intro', assertionLevel', inputs')
        /\ Sound(Core, ca', intro', assertionLevel', inputs')
        /\ Levels(assertionLevel', ok', inputs', trail_ok', checks', answer')
        /\ Pending(lemmas', intro', inputs')
        /\ order' = <<>> /\ watching' = {} /\ confl' = Undef
        /\ type' \in {"with", "final"} /\ recheck' \in BOOLEAN
    BY <1>1, <1>2, <1>3, <1>4, <1>5
  <2>2. pc' = "lemmas" /\ \E back : update' = UpdateLocals(Core, back)
    BY <1>5
  <2> QED  BY <1>4, <2>1, <2>2, StaysOutput
<1>6. CASE /\ lemmas = <<>> /\ update' = update
           /\ \/ type # "final" /\ pc' = "bool" /\ ok' = ok
              \/ ~ (type # "final" /\ qhead < Len(trail)) /\ Return(Undef)
  <2>1. /\ ok' = ok /\ pc' \in {"bool", "decide"}
        /\ pc' = "decide" /\ type = "with" => ~ (qhead < Len(trail))
    BY <1>3, <1>6 DEF Return
  <2>2. pc' = "decide" /\ type' = "with" => Core.qhead = Len(Core.trail)
    <3>1. qhead \in 0..Len(trail) /\ Len(trail) \in Nat
      BY TrailShape
    <3> QED  BY <1>1, <2>1, <3>1, CoreShape
  <2> HIDE DEF Inv, SoundInv
  <2>3. /\ Introduced(intro', assertionLevel') /\ Database(ca', intro', assertionLevel', inputs')
        /\ Sound(Core, ca', intro', assertionLevel', inputs')
        /\ Levels(assertionLevel', ok', inputs', trail_ok', checks', answer')
        /\ lemmas' = <<>> /\ order' = <<>> /\ update'.conflict \in {Undef, Lazy}
        /\ watching' = {} /\ confl' = Undef
        /\ type' \in {"without", "with", "final"} /\ type' # "without" /\ recheck' \in BOOLEAN
        /\ pc' \in {"user", "bool", "theory", "output", "decide"} /\ pc' # "user"
    BY <1>1, <1>2, <1>3, <1>4, <1>6, <2>1
  <2> QED  BY <1>4, <2>2, <2>3, StaysIdle
<1> QED  BY <1>1, <1>5, <1>6

-----------------------------------------------------------------------------
(* Lemmas are attached. *)

\* In updateLemmas.
LEMMA UpdateState ==
  ASSUME SoundInv, pc \in {"lemmas", "attach"}
  PROVE  /\ Pending(lemmas, intro, inputs) /\ Len(lemmas) \in Nat /\ DOMAIN lemmas = 1..Len(lemmas)
         /\ order \in Seq(Seq(Lit)) /\ Len(order) \in Nat /\ DOMAIN order = 1..Len(order)
         /\ Len(order) <= Len(lemmas) /\ (pc = "attach" => Len(order) = Len(lemmas))
         /\ update.btlevel = Len(trail_lim) /\ update.index \in 0..Len(trail)
         /\ pc = "lemmas" /\ order # <<>> => update.index = Len(trail)
         /\ \A k \in 1..Len(order) :
              InOrder(order[k], lemmas[k].c, trail, trail_lim, update.index, update.conflict)
         /\ update.conflict # Undef =>
              ConflictIn(update.conflict, trail, trail_lim, ca, assertionLevel, inputs)
         /\ pc = "lemmas" => update.conflict \in {Undef, Lazy}
         /\ watching = {} /\ confl = Undef
         /\ type \in {"with", "final"} /\ recheck \in BOOLEAN
<1>1. /\ Updating(lemmas, order, update, pc, Core, ca, intro, assertionLevel, inputs)
      /\ Searching(pc, type, recheck, answer, watching, confl, Core, ca, assertionLevel, inputs)
  BY SoundParts
<1>2. /\ order \in Seq(Seq(Lit)) /\ lemmas \in Seq([c : SUBSET Lit, removable : BOOLEAN])
      /\ Pending(lemmas, intro, inputs)
  BY <1>1 DEF Updating, Pending
<1>3. /\ Len(lemmas) \in Nat /\ DOMAIN lemmas = 1..Len(lemmas)
  <2> DEFINE S == [c : SUBSET Lit, removable : BOOLEAN]
  <2>1. lemmas \in Seq(S)
    BY <1>2
  <2> HIDE DEF S
  <2> QED  BY <2>1, LenProperties
<1>4. /\ Len(order) \in Nat /\ DOMAIN order = 1..Len(order)
  <2> DEFINE S == Seq(Lit)
  <2>1. order \in Seq(S)
    BY <1>2
  <2> HIDE DEF S
  <2> QED  BY <2>1, LenProperties
<1>5. /\ Len(order) <= Len(lemmas) /\ (pc = "attach" => Len(order) = Len(lemmas))
      /\ update.btlevel = Len(trail_lim) /\ update.index \in 0..Len(trail)
      /\ pc = "lemmas" /\ order # <<>> => update.index = Len(trail)
      /\ \A k \in DOMAIN order :
           InOrder(order[k], lemmas[k].c, trail, trail_lim, update.index, update.conflict)
      /\ update.conflict # Undef =>
           ConflictIn(update.conflict, trail, trail_lim, ca, assertionLevel, inputs)
      /\ pc = "lemmas" => update.conflict \in {Undef, Lazy}
  BY <1>1, CoreShape DEF Updating
<1>6. /\ watching = {} /\ confl = Undef
      /\ type \in {"with", "final"} /\ recheck \in BOOLEAN
  BY <1>1 DEF Searching
<1> QED  BY <1>2, <1>3, <1>4, <1>5, <1>6

\* updateLemmas is done, with or without a conflict.
LEMMA SoundLemmasDone ==
  ASSUME Inv, SoundInv, LemmasDone
  PROVE  StaysSound
<1> DEFINE c == update.conflict
<1>1. /\ pc = "attach" /\ lemmas = <<>> /\ update' = NoUpdate
      /\ confl' = IF pc' = "user" THEN Undef ELSE c
      /\ UNCHANGED <<coreVars, intro, ca, lemmas, order, assertionLevel, trail_ok, checks, answer,
                     inputs, type, watching, recheck>>
      /\ \/ c = Undef /\ pc' = PropagateFrom(<<>>, type) /\ ok' = ok
         \/ c = Undef /\ type # "final" /\ pc' = "bool" /\ ok' = ok
         \/ ~ (c = Undef /\ type # "final" /\ qhead < Len(trail)) /\ Return(c)
  BY DEF LemmasDone
<1>2. /\ Introduced(intro, assertionLevel) /\ Database(ca, intro, assertionLevel, inputs)
      /\ Sound(Core, ca, intro, assertionLevel, inputs)
      /\ Levels(assertionLevel, ok, inputs, trail_ok, checks, answer)
  BY SoundParts
<1>3. /\ Len(order) = Len(lemmas) /\ order \in Seq(Seq(Lit)) /\ watching = {}
      /\ type \in {"with", "final"} /\ recheck \in BOOLEAN
      /\ c # Undef => ConflictIn(c, trail, trail_lim, ca, assertionLevel, inputs)
  BY <1>1, UpdateState
<1>4. order = <<>>
  <2> DEFINE S == Seq(Lit)
  <2>1. order \in Seq(S) /\ Len(order) = 0
    BY <1>1, <1>3
  <2> HIDE DEF S
  <2> QED  BY <2>1, EmptySeq
<1>5. /\ ok' = ok /\ pc' \in {"bool", "theory", "decide", "conflict"}
      /\ c # Undef => pc' = "conflict"
      /\ c = Undef => pc' # "conflict" /\ (pc' = "decide" => ~ (type # "final" /\ qhead < Len(trail)))
  BY <1>1, <1>3 DEF Return, PropagateFrom
<1>6. Core' = Core
  BY <1>1, CoreUnchanged
<1>7. /\ Introduced(intro', assertionLevel') /\ Database(ca', intro', assertionLevel', inputs')
      /\ Sound(Core, ca', intro', assertionLevel', inputs')
      /\ Levels(assertionLevel', ok', inputs', trail_ok', checks', answer')
      /\ lemmas' = <<>> /\ order' = <<>> /\ update'.conflict \in {Undef, Lazy}
  BY <1>1, <1>2, <1>4, <1>5 DEF NoUpdate
<1>8. qhead \in 0..Len(trail) /\ Len(trail) \in Nat
  BY TrailShape
<1> HIDE DEF Inv, SoundInv
<1>9. Searching(pc', type', recheck', answer', watching', confl', Core, ca',
                assertionLevel', inputs')
  <2>1. /\ confl' = c /\ watching' = {} /\ type' = type /\ recheck' = recheck /\ ca' = ca
        /\ assertionLevel' = assertionLevel /\ inputs' = inputs
    BY <1>1, <1>3, <1>5
  <2>2. pc' = "decide" /\ type = "with" => qhead = Len(trail)
    BY <1>5, <1>8
  <2>3. pc' \in {"bool", "theory", "decide", "conflict"} /\ (c # Undef <=> pc' = "conflict")
    BY <1>5
  <2> HIDE DEF c
  <2> QED  BY <1>3, <2>1, <2>2, <2>3, CoreShape DEF Searching, c
<1> QED  BY <1>5, <1>6, <1>7, <1>9, StaysQuiet

\* A sorted lemma stays in order when the trail grows.
LEMMA InOrderMore ==
  ASSUME NEW m, NEW c, NEW t, NEW lim, NEW ix, NEW cf, InOrder(m, c, t, lim, ix, cf),
         NEW to, \A i \in DOMAIN t : i \in DOMAIN to /\ to[i] = t[i],
         \A i \in DOMAIN to : i \in DOMAIN t \/ ~ (i <= ix),
         NEW tf, cf # Undef => tf # Undef
  PROVE  InOrder(m, c, to, lim, ix, tf)
<1>1. /\ m \in Seq(Lit) /\ ToSet(m) = c /\ (Len(m) = 0 => tf # Undef)
  BY DEF InOrder
<1>2. Len(m) = 1 => lim = <<>> \/ \E i \in DOMAIN to : to[i].lit = m[1] /\ AtZero(lim, i)
  BY DEF InOrder
<1>3. ASSUME NEW i \in DOMAIN to, Len(m) > 1, i <= ix, to[i].lit = -m[2]
      PROVE  /\ \A k \in 3..Len(m) : FalseBefore(to, m[k], i)
             /\ \/ AtTop(lim, i)
                \/ \E j \in DOMAIN to : /\ to[j].lit = m[1]
                                        /\ \A k \in DOMAIN lim : i <= lim[k] => j <= lim[k]
  <2>1. i \in DOMAIN t /\ t[i].lit = -m[2]
    BY <1>3
  <2>2. /\ \A k \in 3..Len(m) : FalseBefore(t, m[k], i)
        /\ \/ AtTop(lim, i)
           \/ \E j \in DOMAIN t : /\ t[j].lit = m[1]
                                  /\ \A k \in DOMAIN lim : i <= lim[k] => j <= lim[k]
    BY <1>3, <2>1 DEF InOrder
  <2>3. \A k \in 3..Len(m) : FalseBefore(to, m[k], i)
    BY <2>2 DEF FalseBefore
  <2>4. \/ AtTop(lim, i)
        \/ \E j \in DOMAIN to : /\ to[j].lit = m[1]
                                /\ \A k \in DOMAIN lim : i <= lim[k] => j <= lim[k]
    BY <2>2
  <2> QED  BY <2>3, <2>4
<1> QED  BY <1>1, <1>2, <1>3 DEF InOrder

\* A conflict stays one when clauses are added, and when the trail grows.
LEMMA ConflictMore ==
  ASSUME NEW c, NEW t, NEW lim, NEW cs, NEW al, NEW ins, ConflictIn(c, t, lim, cs, al, ins),
         NEW to, \A i \in DOMAIN t : i \in DOMAIN to /\ to[i] = t[i],
         NEW ds, \A d \in DOMAIN cs : d \in DOMAIN ds /\ ds[d] = cs[d]
  PROVE  ConflictIn(c, to, lim, ds, al, ins)
<1>1. CASE c = Lazy /\ lim = <<>> /\ Inconsistent(ins, al)
  BY <1>1 DEF ConflictIn
<1>2. CASE /\ c \in DOMAIN cs
           /\ \A l \in ToSet(cs[c].lits) : -l \in Lits(t)
           /\ \E i \in DOMAIN t : -t[i].lit \in ToSet(cs[c].lits) /\ AtTop(lim, i)
  <2>1. c \in DOMAIN ds /\ ds[c] = cs[c]
    BY <1>2
  <2>2. \A l \in Lits(t) : l \in Lits(to)
    BY DEF Lits
  <2>3. \E i \in DOMAIN to : -to[i].lit \in ToSet(cs[c].lits) /\ AtTop(lim, i)
    BY <1>2
  <2> QED  BY <1>2, <2>1, <2>2, <2>3 DEF ConflictIn
<1> QED  BY <1>1, <1>2 DEF ConflictIn

\* The first pending lemma m is sorted as lits: what attaching it does.
Acts(lits) ==
  /\ update.conflict = Undef
  /\ ~IsTrue(Core, lits[1])
  /\ Len(lits) > 1 => IsFalse(Core, lits[2]) /\ trail_index(Core, lits[2]) <= update.index

\* The cases of AttachLemma, in a form to cite.
LEMMA AttachIs ==
  ASSUME AttachLemma, NEW lits, lits = Head(order), NEW m, m = Head(lemmas),
         NEW lev, lev = (IF m.removable THEN MaxIntro(intro, m.c) ELSE assertionLevel),
         NEW from, from = (IF Len(lits) > 1 THEN NewRef(ca) ELSE Undef)
  PROVE  /\ pc = "attach" /\ lemmas # <<>> /\ pc' = pc
         /\ Len(lits) > 1 => ca' = alloc(ca, lits, lev, m.removable)
         /\ ~ (Len(lits) > 1) => ca' = ca
         /\ lemmas' = Tail(lemmas) /\ order' = Tail(order)
         /\ \/ /\ Acts(lits) /\ IsUndef(Core, lits[1]) /\ update' = update
               /\ Becomes(uncheckedEnqueue(Core, lits[1], from, {}))
            \/ /\ Acts(lits) /\ ~IsUndef(Core, lits[1]) /\ UNCHANGED coreVars
               /\ update' = [update EXCEPT !.conflict = IF Len(lits) > 1 THEN from ELSE Lazy]
            \/ /\ ~Acts(lits) /\ UNCHANGED coreVars
               /\ update' = [update EXCEPT !.conflict = update.conflict]
         /\ UNCHANGED <<intro, assertionLevel, ok, trail_ok, answer, inputs, checks, type,
                        confl, watching, recheck>>
BY DEF AttachLemma, Acts, userVars

\* The first of two lists that go on.
LEMMA TailEntries ==
  ASSUME NEW S, NEW q \in Seq(S), Len(q) > 0
  PROVE  /\ Tail(q) \in Seq(S) /\ Len(Tail(q)) = Len(q) - 1 /\ Head(q) = q[1]
         /\ \A k \in 1..(Len(q) - 1) : k + 1 \in 1..Len(q) /\ Tail(q)[k] = q[k + 1]
         /\ 1 \in 1..Len(q) /\ DOMAIN Tail(q) = 1..(Len(q) - 1)
<1>1. Tail(q) \in Seq(S) /\ Len(Tail(q)) = Len(q) - 1 /\ Head(q) = q[1] /\ Len(q) \in Nat
  BY HeadTailProperties, LenProperties, EmptySeq
<1>2. \A k \in 1..(Len(q) - 1) : k + 1 \in 1..Len(q)
  BY <1>1
<1>3. \A k \in 1..(Len(q) - 1) : Tail(q)[k] = q[k + 1]
  BY HeadTailProperties, EmptySeq
<1>4. DOMAIN Tail(q) = 1..Len(Tail(q))
  BY <1>1, LenProperties
<1> QED  BY <1>1, <1>2, <1>3, <1>4

\* The lemmas that are left are in order after an attached one.
LEMMA StaysAttaching ==
  ASSUME SoundInv, pc = "attach", lemmas # <<>>, pc' = "attach",
         lemmas' = Tail(lemmas), order' = Tail(order),
         UNCHANGED <<intro, assertionLevel, ok, trail_ok, answer, inputs, checks, type,
                     confl, watching, recheck>>,
         NEW s, Core' = s, Sound(s, ca', intro, assertionLevel, inputs),
         Database(ca', intro, assertionLevel, inputs), s.trail_lim = trail_lim,
         \A i \in DOMAIN trail : i \in DOMAIN s.trail /\ s.trail[i] = trail[i],
         Len(trail) <= Len(s.trail),
         update'.btlevel = update.btlevel, update'.index = update.index,
         update'.conflict = Undef => update.conflict = Undef,
         update'.conflict # Undef =>
           ConflictIn(update'.conflict, s.trail, trail_lim, ca', assertionLevel, inputs)
  PROVE  StaysSound
<1>1. /\ Pending(lemmas, intro, inputs) /\ Len(lemmas) \in Nat /\ DOMAIN lemmas = 1..Len(lemmas)
      /\ order \in Seq(Seq(Lit)) /\ Len(order) = Len(lemmas)
      /\ update.btlevel = Len(trail_lim) /\ update.index \in 0..Len(trail)
      /\ \A k \in 1..Len(order) :
           InOrder(order[k], lemmas[k].c, trail, trail_lim, update.index, update.conflict)
      /\ watching = {} /\ confl = Undef
      /\ type \in {"with", "final"} /\ recheck \in BOOLEAN
  BY UpdateState
<1>2. /\ Introduced(intro, assertionLevel) /\ Levels(assertionLevel, ok, inputs, trail_ok, checks, answer)
  BY SoundParts
<1>3. /\ lemmas \in Seq([c : SUBSET Lit, removable : BOOLEAN])
      /\ \A i \in DOMAIN lemmas : Lemma(lemmas[i], intro, inputs)
  BY <1>1 DEF Pending
<1> DEFINE n == Len(lemmas) - 1
<1>4. n \in Nat /\ Len(lemmas) > 0 /\ n = Len(order) - 1
  <2> DEFINE S == [c : SUBSET Lit, removable : BOOLEAN]
  <2>1. lemmas \in Seq(S)
    BY <1>3
  <2> HIDE DEF S
  <2>2. Len(lemmas) # 0
    BY <2>1, EmptySeq
  <2> QED  BY <1>1, <2>2
<1>5. /\ Tail(lemmas) \in Seq([c : SUBSET Lit, removable : BOOLEAN])
      /\ Len(Tail(lemmas)) = n /\ DOMAIN Tail(lemmas) = 1..n
      /\ \A k \in 1..n : k + 1 \in 1..Len(lemmas) /\ Tail(lemmas)[k] = lemmas[k + 1]
  <2> DEFINE S == [c : SUBSET Lit, removable : BOOLEAN]
  <2>1. lemmas \in Seq(S)
    BY <1>3
  <2> HIDE DEF S
  <2>2. /\ Tail(lemmas) \in Seq(S) /\ Len(Tail(lemmas)) = n /\ DOMAIN Tail(lemmas) = 1..n
        /\ \A k \in 1..n : k + 1 \in 1..Len(lemmas) /\ Tail(lemmas)[k] = lemmas[k + 1]
    BY <1>4, <2>1, TailEntries
  <2> QED  BY <2>2 DEF S
<1>6. /\ Tail(order) \in Seq(Seq(Lit)) /\ Len(Tail(order)) = n /\ DOMAIN Tail(order) = 1..n
      /\ \A k \in 1..n : Tail(order)[k] = order[k + 1]
  <2> DEFINE S == Seq(Lit)
  <2>1. order \in Seq(S)
    BY <1>1
  <2> HIDE DEF S
  <2>2. /\ Tail(order) \in Seq(S) /\ Len(Tail(order)) = n /\ DOMAIN Tail(order) = 1..n
        /\ \A k \in 1..n : Tail(order)[k] = order[k + 1]
    BY <1>1, <1>4, <2>1, TailEntries
  <2> QED  BY <2>2 DEF S
<1> HIDE DEF n
<1>7. Pending(Tail(lemmas), intro, inputs)
  BY <1>1, <1>3, <1>5 DEF Pending
<1>8. Len(trail) \in Nat /\ DOMAIN trail = 1..Len(trail)
      /\ Len(s.trail) \in Nat /\ DOMAIN s.trail = 1..Len(s.trail)
  BY TrailShape, SoundShape
<1>9. ASSUME NEW k \in 1..n
      PROVE  InOrder(Tail(order)[k], Tail(lemmas)[k].c, s.trail, trail_lim, update'.index,
                     update'.conflict)
  <2> DEFINE j == k + 1
  <2>1. j \in 1..Len(order) /\ Tail(order)[k] = order[j] /\ Tail(lemmas)[k] = lemmas[j]
    BY <1>1, <1>5, <1>6
  <2> HIDE DEF j
  <2>2. InOrder(order[j], lemmas[j].c, trail, trail_lim, update.index, update.conflict)
    BY <1>1, <2>1
  <2>3. \A i \in DOMAIN s.trail : i \in DOMAIN trail \/ ~ (i <= update.index)
    BY <1>1, <1>8
  <2>4. InOrder(order[j], lemmas[j].c, s.trail, trail_lim, update.index, update'.conflict)
    BY <2>2, <2>3, InOrderMore
  <2> QED  BY <2>1, <2>4
<1>10. update'.index \in 0..Len(s.trail)
  BY <1>1, <1>8
<1>11. n <= n
  BY <1>4
<1> HIDE DEF SoundInv
<1>12. Updating(Tail(lemmas), Tail(order), update', "attach", s, ca', intro, assertionLevel, inputs)
  BY <1>1, <1>5, <1>6, <1>7, <1>9, <1>10, <1>11 DEF Updating
<1>13. Searching("attach", type, recheck, answer, {}, Undef, s, ca', assertionLevel, inputs)
  BY <1>1 DEF Searching
<1>14. /\ lemmas' = Tail(lemmas) /\ order' = Tail(order) /\ pc' = "attach" /\ intro' = intro
       /\ assertionLevel' = assertionLevel /\ inputs' = inputs /\ type' = type
       /\ recheck' = recheck /\ answer' = answer /\ watching' = {} /\ confl' = Undef
       /\ ok' = ok /\ trail_ok' = trail_ok /\ checks' = checks
  BY <1>1
<1> QED  BY <1>2, <1>12, <1>13, <1>14 DEF StaysSound

\* The clause of a lemma that waits may be attached.
LEMMA AttachDatabase ==
  ASSUME SoundInv, problem \in Problems, NEW m, Lemma(m, intro, inputs),
         NEW lits, lits \in Seq(Lit), Len(lits) > 1, ToSet(lits) = m.c,
         NEW lev, lev = (IF m.removable THEN MaxIntro(intro, m.c) ELSE assertionLevel)
  PROVE  Database(alloc(ca, lits, lev, m.removable), intro, assertionLevel, inputs)
<1>1. /\ Introduced(intro, assertionLevel) /\ Database(ca, intro, assertionLevel, inputs)
      /\ assertionLevel \in 0..MaxLevel /\ assertionLevel \in Nat /\ MaxLevel \in Nat
  BY SoundParts
<1>2. /\ m.c \in SUBSET Lit /\ m.removable \in BOOLEAN /\ Entails(AssertedIn(inputs, 0), m.c)
      /\ \A l \in m.c : intro[Abs(l)] # -1
  BY DEF Lemma
<1>3. \A v \in Vars(m.c) : intro[v] \in 0..assertionLevel
  <2> SUFFICES ASSUME NEW l \in m.c
               PROVE  intro[Abs(l)] \in 0..assertionLevel
    BY DEF Vars
  <2>1. Abs(l) \in Atom
    BY <1>2, LitFacts
  <2>2. intro[Abs(l)] \in -1..MaxLevel /\ intro[Abs(l)] <= assertionLevel
    BY <1>1, <2>1 DEF Introduced
  <2> QED  BY <1>1, <1>2, <2>2
<1>4. /\ MaxIntro(intro, m.c) \in 0..assertionLevel
      /\ \A v \in Vars(m.c) : intro[v] \in 0..MaxIntro(intro, m.c)
  BY <1>1, <1>3, MaxIntroIs
<1>5. lev \in 0..assertionLevel /\ \A v \in Vars(m.c) : intro[v] \in 0..lev
  BY <1>1, <1>3, <1>4
<1> HIDE DEF SoundInv
<1>6. lev \in Nat /\ lev \in 0..MaxLevel /\ lev <= assertionLevel
  BY <1>1, <1>5
<1>7. Entails(AssertedIn(inputs, lev), m.c)
  <2>1. 0 \in Nat /\ 0 <= lev /\ \A k \in 0..0 : inputs[k] \subseteq inputs[k]
    BY <1>6
  <2> QED  BY <1>2, <1>6, <2>1, EntailsMore
<1>8. Follow(ToSet(lits), lev, intro, inputs)
  BY <1>5, <1>7 DEF Follow
<1> QED  BY <1>1, <1>2, <1>6, <1>8, DatabaseAlloc

\* A lemma that acts has all but its first literal false; if that is false too, one of
\* its literals is of the last decision level.
LEMMA ActsFalse ==
  ASSUME SoundInv, NEW lits, NEW c,
         InOrder(lits, c, trail, trail_lim, update.index, update.conflict),
         update.index \in Nat, Acts(lits), Len(lits) > 1
  PROVE  /\ \A l \in ToSet(lits) : l = lits[1] \/ IsFalse(Core, l)
         /\ \E i \in DOMAIN trail : -trail[i].lit \in ToSet(lits) /\ AtTop(trail_lim, i)
<1>1. Sound(Core, ca, intro, assertionLevel, inputs)
  BY SoundParts
<1>2. /\ trail \in Seq(Entry) /\ Len(trail) \in Nat /\ DOMAIN trail = 1..Len(trail)
      /\ \A i \in DOMAIN trail : trail[i].lit \in Lit
      /\ Graph(trail, ca, intro, assertionLevel)
  BY TrailShape
<1>3. Core.trail = trail
  BY CoreShape
<1> HIDE DEF SoundInv
<1>4. lits \in Seq(Lit)
  BY DEF InOrder
<1>5. Len(lits) \in Nat /\ DOMAIN lits = 1..Len(lits) /\ \A k \in 1..Len(lits) : lits[k] \in Lit
  BY <1>4, LenProperties, ElementOfSeq
<1>6. ToSet(lits) = {lits[k] : k \in 1..Len(lits)}
  BY <1>5 DEF ToSet
<1>7. 2 \in 1..Len(lits) /\ lits[2] \in Lit
  BY <1>5
<1>8. IsFalse(Core, lits[2]) /\ trail_index(Core, lits[2]) <= update.index /\ ~IsTrue(Core, lits[1])
  BY DEF Acts
<1>9. PICK i \in DOMAIN trail : trail[i].lit = -lits[2]
  BY <1>3, <1>8 DEF IsFalse, Lits
<1>10. lits[2] = -trail[i].lit
  BY <1>2, <1>7, <1>9, LitFacts
<1>11. trail_index(Core, lits[2]) = i
  BY <1>2, <1>3, <1>7, <1>10, AssignedAt
<1>12. i <= update.index
  BY <1>8, <1>11
<1>13. /\ \A k \in 3..Len(lits) : FalseBefore(trail, lits[k], i)
       /\ \/ AtTop(trail_lim, i)
          \/ \E j \in DOMAIN trail : trail[j].lit = lits[1]
  BY <1>9, <1>12 DEF InOrder
<1>14. AtTop(trail_lim, i)
  BY <1>3, <1>8, <1>13 DEF IsTrue, Lits
<1>15. \A k \in 3..Len(lits) : IsFalse(Core, lits[k])
  BY <1>3, <1>13 DEF FalseBefore, IsFalse, Lits
<1>16. ASSUME NEW k \in 1..Len(lits)
       PROVE  lits[k] = lits[1] \/ IsFalse(Core, lits[k])
  <2>1. k = 1 \/ k = 2 \/ k \in 3..Len(lits)
    BY <1>5
  <2> QED  BY <1>8, <1>15, <2>1
<1> QED  BY <1>6, <1>7, <1>10, <1>14, <1>16

\* A lemma is attached, and propagated, or is the conflict.
LEMMA SoundAttachLemma ==
  ASSUME Inv, SoundInv, AttachLemma
  PROVE  StaysSound
<1> DEFINE lits == Head(order)
           m == Head(lemmas)
           lev == IF m.removable THEN MaxIntro(intro, m.c) ELSE assertionLevel
           from == IF Len(lits) > 1 THEN NewRef(ca) ELSE Undef
<1>1. /\ pc = "attach" /\ lemmas # <<>> /\ pc' = pc
      /\ Len(lits) > 1 => ca' = alloc(ca, lits, lev, m.removable)
      /\ ~ (Len(lits) > 1) => ca' = ca
      /\ lemmas' = Tail(lemmas) /\ order' = Tail(order)
      /\ \/ /\ Acts(lits) /\ IsUndef(Core, lits[1]) /\ update' = update
            /\ Becomes(uncheckedEnqueue(Core, lits[1], from, {}))
         \/ /\ Acts(lits) /\ ~IsUndef(Core, lits[1]) /\ UNCHANGED coreVars
            /\ update' = [update EXCEPT !.conflict = IF Len(lits) > 1 THEN from ELSE Lazy]
         \/ /\ ~Acts(lits) /\ UNCHANGED coreVars
            /\ update' = [update EXCEPT !.conflict = update.conflict]
      /\ UNCHANGED <<intro, assertionLevel, ok, trail_ok, answer, inputs, checks, type,
                     confl, watching, recheck>>
  <2>1. /\ lits = Head(order) /\ m = Head(lemmas)
        /\ lev = (IF m.removable THEN MaxIntro(intro, m.c) ELSE assertionLevel)
        /\ from = (IF Len(lits) > 1 THEN NewRef(ca) ELSE Undef)
    OBVIOUS
  <2> HIDE DEF lits, m, lev, from
  <2> QED  BY <2>1, AttachIs
<1>2. /\ Introduced(intro, assertionLevel) /\ Database(ca, intro, assertionLevel, inputs)
      /\ Sound(Core, ca, intro, assertionLevel, inputs)
      /\ assertionLevel \in 0..MaxLevel /\ assertionLevel \in Nat
  BY SoundParts
<1>3. problem \in Problems /\ HasFields(Core) /\ UpdateRight(update)
  BY InvCore
<1>4. /\ Pending(lemmas, intro, inputs) /\ Len(lemmas) \in Nat /\ DOMAIN lemmas = 1..Len(lemmas)
      /\ order \in Seq(Seq(Lit)) /\ Len(order) = Len(lemmas)
      /\ update.index \in 0..Len(trail) /\ update.index \in Nat
      /\ \A k \in 1..Len(order) :
           InOrder(order[k], lemmas[k].c, trail, trail_lim, update.index, update.conflict)
      /\ update.conflict # Undef =>
           ConflictIn(update.conflict, trail, trail_lim, ca, assertionLevel, inputs)
  <2>1. Len(trail) \in Nat
    BY TrailShape
  <2>2. pc \in {"lemmas", "attach"}
    BY <1>1
  <2>3. Len(order) = Len(lemmas) /\ update.index \in 0..Len(trail)
    BY <1>1, <2>2, UpdateState
  <2>4. update.index \in Nat
    BY <2>1, <2>3
  <2> HIDE DEF SoundInv
  <2> QED  BY <2>2, <2>3, <2>4, UpdateState, Zenon
<1>5. /\ Core.trail = trail /\ Core.trail_lim = trail_lim
      /\ trail \in Seq(Entry) /\ Len(trail) \in Nat /\ DOMAIN trail = 1..Len(trail)
      /\ \A i \in DOMAIN trail : trail[i].lit \in Lit
      /\ Graph(trail, ca, intro, assertionLevel) /\ Decisions(trail, trail_lim, qhead)
  BY TrailShape, CoreShape
<1> HIDE DEF Inv, SoundInv
<1>6. /\ 1 \in 1..Len(lemmas) /\ 1 \in 1..Len(order) /\ m = lemmas[1] /\ lits = order[1]
  <2>1. Len(lemmas) > 0 /\ Len(order) > 0
    <3>1. lemmas \in Seq([c : SUBSET Lit, removable : BOOLEAN])
      BY <1>4 DEF Pending
    <3>2. Len(lemmas) # 0
      BY <1>1, <3>1, EmptySeq
    <3> QED  BY <1>4, <3>2
  <2>2. 1 \in 1..Len(lemmas) /\ 1 \in 1..Len(order)
    BY <1>4, <2>1
  <2> QED  BY <2>2
<1>7. Lemma(m, intro, inputs)
  BY <1>4, <1>6 DEF Pending
<1>8. InOrder(lits, m.c, trail, trail_lim, update.index, update.conflict)
  BY <1>4, <1>6
<1>9. lits \in Seq(Lit) /\ ToSet(lits) = m.c
  BY <1>8 DEF InOrder
<1>10. /\ m.c \in SUBSET Lit /\ Entails(AssertedIn(inputs, 0), m.c)
       /\ \A l \in m.c : l \in Lit /\ intro[Abs(l)] # -1
  BY <1>7 DEF Lemma
<1> HIDE DEF lits, m
<1>11. Len(lits) \in Nat /\ DOMAIN lits = 1..Len(lits) /\ \A k \in 1..Len(lits) : lits[k] \in Lit
  BY <1>9, LenProperties, ElementOfSeq
<1>12. ToSet(lits) = {lits[k] : k \in 1..Len(lits)}
  BY <1>11 DEF ToSet
<1>13. IsFiniteSet(DOMAIN ca)
  BY <1>2 DEF Database
<1> HIDE DEF lev
<1>14. Database(ca', intro, assertionLevel, inputs)
  <2>1. CASE Len(lits) > 1
    <3>1. Database(alloc(ca, lits, lev, m.removable), intro, assertionLevel, inputs)
      BY <1>3, <1>7, <1>9, <2>1, AttachDatabase, SMT DEF lev
    <3> QED  BY <1>1, <2>1, <3>1
  <2> QED  BY <1>1, <1>2, <2>1
<1>15. Sound(Core, ca', intro, assertionLevel, inputs)
  <2>1. CASE Len(lits) > 1
    <3>1. Sound(Core, alloc(ca, lits, lev, m.removable), intro, assertionLevel, inputs)
      BY <1>2, <1>13, SoundAlloc
    <3> QED  BY <1>1, <2>1, <3>1
  <2> QED  BY <1>1, <1>2, <2>1
<1>16. /\ \A d \in DOMAIN ca : d \in DOMAIN ca' /\ ca'[d] = ca[d]
       /\ Len(lits) > 1 => /\ from \in Nat /\ from > 0 /\ from # Lazy /\ from # Undef
                           /\ from \in DOMAIN ca' /\ ca'[from].lits = lits
       /\ ~ (Len(lits) > 1) => from = Undef /\ ~ (from > 0) /\ from # Lazy
  <2>1. CASE Len(lits) > 1
    <3>1. /\ from = NewRef(ca)
          /\ from \in Nat /\ from > 0 /\ from \notin DOMAIN ca /\ from # Undef /\ from # Lazy
      BY <1>13, <2>1, RefNew
    <3>2. /\ DOMAIN ca' = DOMAIN ca \cup {from} /\ ca'[from].lits = lits
          /\ \A d \in DOMAIN ca : ca'[d] = ca[d]
      BY <1>1, <2>1, <3>1 DEF alloc
    <3> QED  BY <2>1, <3>1, <3>2
  <2> QED  BY <1>1, <2>1 DEF Undef, Lazy
<1> HIDE DEF from
<1>17. Acts(lits) => update.conflict = Undef /\ ~IsTrue(Core, lits[1]) /\ 1 \in 1..Len(lits)
  <2>1. Len(lits) = 0 => update.conflict # Undef
    BY <1>8 DEF InOrder
  <2>2. Acts(lits) => update.conflict = Undef /\ ~IsTrue(Core, lits[1])
    BY DEF Acts
  <2> QED  BY <1>11, <2>1, <2>2
<1>18. Acts(lits) /\ Len(lits) > 1 =>
         /\ \A l \in ToSet(lits) : l = lits[1] \/ IsFalse(Core, l)
         /\ \E i \in DOMAIN trail : -trail[i].lit \in ToSet(lits) /\ AtTop(trail_lim, i)
  BY <1>4, <1>8, ActsFalse
<1>19. Acts(lits) /\ ~ (Len(lits) > 1) =>
         /\ trail_lim = <<>> /\ Entails(AssertedIn(inputs, assertionLevel), {lits[1]})
  <2> SUFFICES ASSUME Acts(lits), ~ (Len(lits) > 1)
               PROVE  trail_lim = <<>> /\ Entails(AssertedIn(inputs, assertionLevel), {lits[1]})
    OBVIOUS
  <2>1. Len(lits) = 1
    BY <1>11, <1>17
  <2>2. trail_lim = <<>> \/ \E i \in DOMAIN trail : trail[i].lit = lits[1]
    BY <1>8, <2>1 DEF InOrder
  <2>3. trail_lim = <<>>
    BY <1>5, <1>17, <2>2 DEF IsTrue, Lits
  <2>4. m.c = {lits[1]}
    BY <1>9, <1>12, <2>1
  <2>5. 0 \in Nat /\ 0 <= assertionLevel /\ \A k \in 0..0 : inputs[k] \subseteq inputs[k]
    BY <1>2
  <2>6. Entails(AssertedIn(inputs, assertionLevel), m.c)
    BY <1>2, <1>10, <2>5, EntailsMore
  <2> QED  BY <2>3, <2>4, <2>6
<1>20. Acts(lits) => lits[1] \in Lit /\ intro[Abs(lits[1])] # -1
  BY <1>9, <1>10, <1>12, <1>17
<1>21. CASE /\ Acts(lits) /\ IsUndef(Core, lits[1]) /\ update' = update
            /\ Becomes(uncheckedEnqueue(Core, lits[1], from, {}))
  <2>0. PICK none : none = {}
    OBVIOUS
  <2> DEFINE s == uncheckedEnqueue(Core, lits[1], from, none)
  <2>1. Enqueues(Core, ca', intro, inputs, lits[1], from, none)
    <3>1. from \in Nat \cup {Lazy} /\ from # Lazy /\ none \in {{}} \cup Theory
      BY <1>16, <2>0 DEF Undef
    <3>2. from = Undef => /\ Core.trail_lim = <<>>
                          /\ Entails(AssertedIn(inputs, assertionLevel), {lits[1]})
      BY <1>5, <1>16, <1>19, <1>21
    <3>3. from > 0 => /\ from \in DOMAIN ca' /\ ca'[from].lits[1] = lits[1]
                      /\ \A k \in ToSet(ca'[from].lits) : k = lits[1] \/ IsFalse(Core, k)
      BY <1>16, <1>18, <1>21
    <3> QED  BY <1>20, <1>21, <3>1, <3>2, <3>3 DEF Enqueues
  <2> HIDE DEF s
  <2>2. /\ Sound(s, ca', intro, assertionLevel, inputs) /\ HasFields(s)
        /\ s.trail_lim = trail_lim /\ Len(s.trail) = Len(trail) + 1
        /\ \A i \in DOMAIN trail : i \in DOMAIN s.trail /\ s.trail[i] = trail[i]
    BY <1>2, <1>3, <1>5, <1>14, <1>15, <2>1, Enqueued DEF s
  <2>3. Core' = s
    BY <1>21, <2>0, <2>2, BecomesIs DEF s
  <2>4. Len(trail) <= Len(s.trail)
    BY <1>5, <2>2
  <2>5. update.conflict = Undef
    BY <1>17, <1>21
  <2> QED  BY <1>1, <1>14, <1>21, <2>2, <2>3, <2>4, <2>5, StaysAttaching, Zenon
<1>22. CASE /\ Acts(lits) /\ ~IsUndef(Core, lits[1]) /\ UNCHANGED coreVars
            /\ update' = [update EXCEPT !.conflict = IF Len(lits) > 1 THEN from ELSE Lazy]
  <2> DEFINE cf == IF Len(lits) > 1 THEN from ELSE Lazy
  <2>1. IsFalse(Core, lits[1])
    BY <1>17, <1>22 DEF IsUndef
  <2>2. ConflictIn(cf, trail, trail_lim, ca', assertionLevel, inputs)
    <3>1. CASE Len(lits) > 1
      <4>1. \A l \in ToSet(lits) : -l \in Lits(trail)
        BY <1>5, <1>18, <1>22, <2>1, <3>1 DEF IsFalse
      <4>2. cf = from /\ from \in DOMAIN ca' /\ ca'[from].lits = lits
        BY <1>16, <3>1
      <4>3. \E i \in DOMAIN trail : -trail[i].lit \in ToSet(lits) /\ AtTop(trail_lim, i)
        BY <1>18, <1>22, <3>1
      <4> QED  BY <4>1, <4>2, <4>3 DEF ConflictIn
    <3>2. CASE ~ (Len(lits) > 1)
      <4>1. cf = Lazy
        BY <3>2
      <4>2. trail_lim = <<>> /\ Entails(AssertedIn(inputs, assertionLevel), {lits[1]})
        BY <1>19, <1>22, <3>2
      <4>3. PICK C \in SUBSET Lit : C = {lits[1]}
        BY <1>20, <1>22
      <4>4. PICK D : D = {}
        OBVIOUS
      <4>5. \A l \in C \ D : IsFalse(Core, l)
        BY <2>1, <4>3
      <4>6. D \subseteq C /\ assertionLevel <= assertionLevel
        BY <1>2, <4>4
      <4>7. Entails(AssertedIn(inputs, assertionLevel), D)
        BY <1>2, <1>5, <4>2, <4>3, <4>5, <4>6, UnitEntailed
      <4>8. Inconsistent(inputs, assertionLevel)
        BY <4>4, <4>7, EntailsNone
      <4> QED  BY <4>1, <4>2, <4>8 DEF ConflictIn
    <3> QED  BY <3>1, <3>2
  <2>3. cf # Undef
    BY <1>16 DEF Lazy, Undef
  <2>4. Core' = Core
    BY <1>22, CoreUnchanged
  <2>5. update'.btlevel = update.btlevel /\ update'.index = update.index /\ update'.conflict = cf
    BY <1>3, <1>22 DEF UpdateRight
  <2> HIDE DEF cf
  <2>6. Len(trail) <= Len(trail) /\ \A i \in DOMAIN trail : i \in DOMAIN trail /\ trail[i] = trail[i]
    BY <1>5
  <2> QED  BY <1>1, <1>5, <1>14, <1>15, <2>2, <2>3, <2>4, <2>5, <2>6, StaysAttaching, Zenon
<1>23. CASE /\ ~Acts(lits) /\ UNCHANGED coreVars
            /\ update' = [update EXCEPT !.conflict = update.conflict]
  <2>1. Core' = Core
    BY <1>23, CoreUnchanged
  <2>2. update'.btlevel = update.btlevel /\ update'.index = update.index
        /\ update'.conflict = update.conflict
    BY <1>3, <1>23 DEF UpdateRight
  <2>3. Len(trail) <= Len(trail) /\ \A i \in DOMAIN trail : i \in DOMAIN trail /\ trail[i] = trail[i]
    BY <1>5
  <2>4. update.conflict # Undef =>
          ConflictIn(update.conflict, trail, trail_lim, ca', assertionLevel, inputs)
    BY <1>4, <1>16, <2>3, ConflictMore
  <2> QED  BY <1>1, <1>5, <1>14, <1>15, <2>1, <2>2, <2>3, <2>4, StaysAttaching, Zenon
<1> QED  BY <1>1, <1>21, <1>22, <1>23

-----------------------------------------------------------------------------
(* The lemmas are sorted. *)

\* m is the lemma c, sorted on the trail t, which may be cut at the level lev.
Sortable(m, c, t, lim, lev, conflict) ==
  /\ m \in Seq(Lit) /\ ToSet(m) = c
  /\ Len(m) = 0 => conflict # Undef
  /\ Len(m) = 1 => lev = 0 \/ \E i \in DOMAIN t : t[i].lit = m[1] /\ AtZero(lim, i)
  /\ \A i \in DOMAIN t : Len(m) > 1 /\ t[i].lit = -m[2] =>
       /\ \A k \in 3..Len(m) : FalseBefore(t, m[k], i)
       /\ \/ \A k \in DOMAIN lim : k <= lev => lim[k] < i
          \/ \E j \in DOMAIN t : /\ t[j].lit = m[1]
                                 /\ \A k \in DOMAIN lim : i <= lim[k] => j <= lim[k]

\* Lemmas stay in order when updateLemmas cancels to a level at which they are.
LEMMA CutInOrder ==
  ASSUME NEW s, NEW t, NEW lev \in Nat, Cut(s, t, lev), s.trail_lim \in Seq(Nat),
         s.trail \in Seq(Entry), lev <= Len(s.trail_lim),
         NEW m, NEW c, NEW cf, Sortable(m, c, s.trail, s.trail_lim, lev, cf), NEW ix
  PROVE  InOrder(m, c, t.trail, t.trail_lim, ix, cf)
<1>1. /\ Len(s.trail_lim) \in Nat /\ DOMAIN s.trail_lim = 1..Len(s.trail_lim)
      /\ \A k \in 1..Len(s.trail_lim) : s.trail_lim[k] \in Nat
      /\ DOMAIN s.trail = 1..Len(s.trail) /\ Len(s.trail) \in Nat
  BY LenProperties, ElementOfSeq
<1>2. /\ Len(t.trail) \in 0..Len(s.trail)
      /\ \A i \in 1..Len(t.trail) : t.trail[i] = s.trail[i] /\ i \in DOMAIN s.trail
      /\ DOMAIN t.trail = 1..Len(t.trail)
      /\ \A k \in DOMAIN t.trail_lim : k \in DOMAIN s.trail_lim /\ t.trail_lim[k] = s.trail_lim[k]
      /\ DOMAIN t.trail_lim = 1..Len(t.trail_lim)
      /\ lev < Len(s.trail_lim) =>
           /\ Len(t.trail_lim) = lev
           /\ Len(t.trail) = s.trail_lim[lev + 1]
      /\ lev >= Len(s.trail_lim) => t = s
      /\ \A i \in 1..Len(t.trail) : AtZero(t.trail_lim, i) <=> AtZero(s.trail_lim, i)
      /\ t.trail_lim # <<>> => lev > 0
  BY DEF Cut
<1>3. /\ m \in Seq(Lit) /\ ToSet(m) = c /\ (Len(m) = 0 => cf # Undef)
      /\ Len(m) = 1 => lev = 0 \/ \E i \in DOMAIN s.trail :
                                    s.trail[i].lit = m[1] /\ AtZero(s.trail_lim, i)
  BY DEF Sortable
\* What is at no higher level than an entry that stays, stays.
<1>4. ASSUME NEW j \in DOMAIN s.trail, NEW i \in 0..Len(t.trail),
             \A k \in DOMAIN s.trail_lim : i <= s.trail_lim[k] => j <= s.trail_lim[k]
      PROVE  j \in 1..Len(t.trail)
  <2>1. CASE lev < Len(s.trail_lim)
    <3>1. lev + 1 \in DOMAIN s.trail_lim
      BY <1>1, <2>1
    <3>2. i <= s.trail_lim[lev + 1]
      BY <1>2, <2>1
    <3>3. j <= s.trail_lim[lev + 1]
      BY <1>4, <3>1, <3>2
    <3> QED  BY <1>1, <1>2, <2>1, <3>3
  <2>2. CASE lev >= Len(s.trail_lim)
    BY <1>1, <1>2, <2>2
  <2> QED  BY <1>1, <2>1, <2>2
<1>5. Len(m) = 1 => t.trail_lim = <<>> \/ \E i \in DOMAIN t.trail :
                                            t.trail[i].lit = m[1] /\ AtZero(t.trail_lim, i)
  <2> SUFFICES ASSUME Len(m) = 1, t.trail_lim # <<>>
               PROVE  \E i \in DOMAIN t.trail : t.trail[i].lit = m[1] /\ AtZero(t.trail_lim, i)
    OBVIOUS
  <2>1. lev # 0
    BY <1>2
  <2>2. PICK i \in DOMAIN s.trail : s.trail[i].lit = m[1] /\ AtZero(s.trail_lim, i)
    BY <1>3, <2>1
  <2>3. i \in 1..Len(t.trail)
    <3>1. 0 \in 0..Len(t.trail)
      BY <1>1, <1>2
    <3>2. \A k \in DOMAIN s.trail_lim : 0 <= s.trail_lim[k] => i <= s.trail_lim[k]
      BY <2>2 DEF AtZero
    <3> QED  BY <1>4, <3>1, <3>2
  <2> QED  BY <1>2, <2>2, <2>3
<1>6. ASSUME NEW i \in DOMAIN t.trail, Len(m) > 1, t.trail[i].lit = -m[2]
      PROVE  /\ \A k \in 3..Len(m) : FalseBefore(t.trail, m[k], i)
             /\ \/ AtTop(t.trail_lim, i)
                \/ \E j \in DOMAIN t.trail :
                     /\ t.trail[j].lit = m[1]
                     /\ \A k \in DOMAIN t.trail_lim : i <= t.trail_lim[k] => j <= t.trail_lim[k]
  <2>1. i \in DOMAIN s.trail /\ s.trail[i].lit = -m[2] /\ i \in 0..Len(t.trail)
    <3>1. i \in 1..Len(t.trail)
      BY <1>2
    <3>2. t.trail[i] = s.trail[i] /\ i \in DOMAIN s.trail
      BY <1>2, <3>1, Zenon
    <3>3. i \in 0..Len(t.trail)
      BY <3>1
    <3> QED  BY <1>6, <3>2, <3>3
  <2>2. /\ \A k \in 3..Len(m) : FalseBefore(s.trail, m[k], i)
        /\ \/ \A k \in DOMAIN s.trail_lim : k <= lev => s.trail_lim[k] < i
           \/ \E j \in DOMAIN s.trail :
                /\ s.trail[j].lit = m[1]
                /\ \A k \in DOMAIN s.trail_lim : i <= s.trail_lim[k] => j <= s.trail_lim[k]
    BY <1>6, <2>1 DEF Sortable
  <2>3. ASSUME NEW k \in 3..Len(m)
        PROVE  FalseBefore(t.trail, m[k], i)
    <3>1. PICK j \in DOMAIN s.trail : j < i /\ s.trail[j].lit = -m[k]
      BY <2>2, <2>3 DEF FalseBefore
    <3>2. j \in 1..Len(t.trail)
      BY <1>1, <1>2, <2>1, <3>1
    <3> QED  BY <1>2, <3>1, <3>2 DEF FalseBefore
  <2>4. CASE \A k \in DOMAIN s.trail_lim : k <= lev => s.trail_lim[k] < i
    <3>1. ASSUME NEW k \in DOMAIN t.trail_lim
          PROVE  t.trail_lim[k] < i
      <4>1. k \in DOMAIN s.trail_lim /\ t.trail_lim[k] = s.trail_lim[k]
        BY <1>2, <3>1
      <4>2. k <= lev
        BY <1>1, <1>2, <3>1, <4>1
      <4> QED  BY <2>4, <4>1, <4>2
    <3> QED  BY <2>3, <3>1 DEF AtTop
  <2>5. ASSUME NEW j \in DOMAIN s.trail, s.trail[j].lit = m[1],
               \A k \in DOMAIN s.trail_lim : i <= s.trail_lim[k] => j <= s.trail_lim[k]
        PROVE  \E h \in DOMAIN t.trail :
                 /\ t.trail[h].lit = m[1]
                 /\ \A k \in DOMAIN t.trail_lim : i <= t.trail_lim[k] => h <= t.trail_lim[k]
    <3>1. j \in 1..Len(t.trail)
      <4>1. \A k \in DOMAIN s.trail_lim : i <= s.trail_lim[k] => j <= s.trail_lim[k]
        BY <2>5
      <4>2. i \in 0..Len(t.trail)
        BY <2>1
      <4> QED  BY <1>4, <4>1, <4>2, Zenon
    <3>2. t.trail[j].lit = m[1]
      BY <1>2, <2>5, <3>1
    <3>3. \A k \in DOMAIN t.trail_lim : i <= t.trail_lim[k] => j <= t.trail_lim[k]
      BY <1>2, <2>5
    <3> QED  BY <1>2, <3>1, <3>2, <3>3
  <2> QED  BY <2>2, <2>3, <2>4, <2>5
<1> QED  BY <1>3, <1>5, <1>6 DEF InOrder

\* A lemma sorted earlier can be cut again, when the sorting has gone on since.
LEMMA SortedBefore ==
  ASSUME NEW m, NEW c, NEW t, NEW lim, NEW ix, NEW cf, InOrder(m, c, t, lim, ix, cf),
         t \in Seq(Entry), lim \in Seq(Nat), ix = Len(t), NEW lev \in Nat, lev <= Len(lim),
         NEW tf, cf # Undef => tf # Undef
  PROVE  Sortable(m, c, t, lim, lev, tf)
<1>1. DOMAIN t = 1..Len(t) /\ Len(t) \in Nat /\ (lim = <<>> => Len(lim) = 0)
  BY LenProperties
<1>2. \A i \in DOMAIN t : i <= ix
  BY <1>1
<1>3. \A i : AtTop(lim, i) => \A k \in DOMAIN lim : k <= lev => lim[k] < i
  BY DEF AtTop
<1>4. lim = <<>> => lev = 0
  BY <1>1
<1> QED  BY <1>2, <1>3, <1>4 DEF InOrder, Sortable

\* A lemma sorted now can be cut where it propagates.
LEMMA SortedNow ==
  ASSUME SoundInv, NEW c \in SUBSET Lit, \A l \in c : -l \notin c,
         NEW m, m = Sorted(Core, c), NEW lev \in Nat,
         Propagates(m) => lev <= OwnLevel(m), NEW cf, Len(m) = 0 => cf # Undef
  PROVE  Sortable(m, c, trail, trail_lim, lev, cf)
<1>1. /\ trail \in Seq(Entry) /\ Len(trail) \in Nat /\ DOMAIN trail = 1..Len(trail)
      /\ \A i \in DOMAIN trail : trail[i].lit \in Lit
      /\ Graph(trail, ca, intro, assertionLevel) /\ Decisions(trail, trail_lim, qhead)
  BY TrailShape
<1>2. Core.trail = trail /\ Core.trail_lim = trail_lim /\ Core.qhead = qhead
  BY CoreShape
<1> HIDE DEF SoundInv
<1>3. Graph(Core.trail, ca, intro, assertionLevel) /\ Decisions(Core.trail, Core.trail_lim, qhead)
  BY <1>1, <1>2
<1>4. /\ m \in Seq(Lit) /\ ToSet(m) = c /\ Len(m) = Cardinality(c)
      /\ \A i, j \in 1..Len(m) : i < j =>
           /\ IsUndef(Core, m[j]) => IsUndef(Core, m[i])
           /\ IsTrue(Core, m[j]) => ~IsFalse(Core, m[i])
           /\ IsFalse(Core, m[j]) /\ IsFalse(Core, m[i])
                => trail_index(Core, m[j]) < trail_index(Core, m[i])
  BY <1>3, SortedLits
<1>5. Len(m) \in Nat /\ DOMAIN m = 1..Len(m) /\ \A k \in 1..Len(m) : m[k] \in Lit
  BY <1>4, LenProperties, ElementOfSeq
<1>6. trail_lim \in Seq(Nat) /\ \A j, k \in DOMAIN trail_lim : j < k => trail_lim[j] < trail_lim[k]
  BY <1>1 DEF Decisions
\* The index and the level of a literal that is assigned.
<1>7. ASSUME NEW l \in Lit, NEW i \in DOMAIN trail, l = trail[i].lit \/ l = -trail[i].lit
      PROVE  trail_index(Core, l) = i /\ level(Core, l) = levelAt(Core, i)
  BY <1>2, <1>3, <1>7, AssignedAt
<1>8. Len(m) = 1 => lev = 0 \/ \E i \in DOMAIN trail : trail[i].lit = m[1] /\ AtZero(trail_lim, i)
  <2> SUFFICES ASSUME Len(m) = 1, lev # 0
               PROVE  \E i \in DOMAIN trail : trail[i].lit = m[1] /\ AtZero(trail_lim, i)
    OBVIOUS
  <2>1. OwnLevel(m) = 0
    BY DEF OwnLevel
  <2>2. ~Propagates(m)
    BY <2>1
  <2>3. IsTrue(Core, m[1]) /\ ~ (level(Core, m[1]) > 0)
    BY <2>1, <2>2 DEF Propagates
  <2>4. PICK i \in DOMAIN trail : trail[i].lit = m[1]
    BY <1>2, <2>3 DEF IsTrue, Lits
  <2>5. level(Core, m[1]) = levelAt(Core, i)
    BY <1>5, <1>7, <2>4
  <2>6. /\ i \in Int
        /\ levelAt(Core, i) \in 0..Len(trail_lim)
        /\ levelAt(Core, i) = 0 <=> AtZero(trail_lim, i)
    <3>1. i \in Int
      BY <1>1
    <3> QED  BY <1>2, <1>3, <3>1, LevelIs
  <2>7. levelAt(Core, i) = 0
    BY <2>3, <2>5, <2>6
  <2> QED  BY <2>4, <2>6, <2>7
<1>9. ASSUME NEW i \in DOMAIN trail, Len(m) > 1, trail[i].lit = -m[2]
      PROVE  /\ \A k \in 3..Len(m) : FalseBefore(trail, m[k], i)
             /\ \/ \A k \in DOMAIN trail_lim : k <= lev => trail_lim[k] < i
                \/ \E j \in DOMAIN trail :
                     /\ trail[j].lit = m[1]
                     /\ \A k \in DOMAIN trail_lim : i <= trail_lim[k] => j <= trail_lim[k]
  <2>1. 1 \in 1..Len(m) /\ 2 \in 1..Len(m) /\ m[1] \in Lit /\ m[2] \in Lit
    BY <1>5, <1>9
  <2>2. m[2] = -trail[i].lit
    BY <1>1, <1>9, <2>1, LitFacts
  <2>3. trail_index(Core, m[2]) = i /\ level(Core, m[2]) = levelAt(Core, i)
    BY <1>7, <2>1, <2>2
  <2>4. IsFalse(Core, m[2]) /\ ~IsUndef(Core, m[2])
    BY <1>2, <1>9 DEF IsFalse, IsUndef, Lits
  <2>5. ASSUME NEW k \in 3..Len(m)
        PROVE  FalseBefore(trail, m[k], i)
    <3>1. k \in 1..Len(m) /\ 2 < k
      BY <1>5
    <3>2. IsFalse(Core, m[k]) /\ trail_index(Core, m[k]) < trail_index(Core, m[2])
      <4>1. ~IsUndef(Core, m[k]) /\ ~IsTrue(Core, m[k])
        BY <1>4, <2>1, <2>4, <3>1
      <4>2. IsFalse(Core, m[k])
        BY <4>1 DEF IsUndef
      <4> QED  BY <1>4, <2>1, <2>4, <3>1, <4>2
    <3>3. PICK j \in DOMAIN trail : trail[j].lit = -m[k]
      BY <1>2, <3>2 DEF IsFalse, Lits
    <3>4. m[k] \in Lit /\ m[k] = -trail[j].lit
      BY <1>1, <1>5, <3>1, <3>3, LitFacts
    <3>5. trail_index(Core, m[k]) = j
      BY <1>7, <3>4
    <3>6. j < i
      BY <2>3, <3>2, <3>5
    <3> QED  BY <3>3, <3>6 DEF FalseBefore
  <2>6. OwnLevel(m) = levelAt(Core, i)
    BY <1>9, <2>3 DEF OwnLevel
  <2>7. levelAt(Core, i) \in 0..Len(trail_lim) /\ i \in Int
        /\ \A k \in DOMAIN trail_lim : trail_lim[k] < i <=> k <= levelAt(Core, i)
    BY <1>1, <1>2, <1>6, LevelAt
  <2>8. CASE Propagates(m)
    <3>1. lev <= levelAt(Core, i)
      BY <2>6, <2>8
    <3>2. ASSUME NEW k \in DOMAIN trail_lim, k <= lev
          PROVE  trail_lim[k] < i
      <4>1. k \in Nat
        BY <1>6, LenProperties
      <4>2. k <= levelAt(Core, i)
        BY <2>7, <3>1, <3>2, <4>1
      <4> QED  BY <2>7, <4>2
    <3> QED  BY <2>5, <3>2
  <2>9. CASE ~Propagates(m)
    <3>1. IsTrue(Core, m[1]) /\ ~ (level(Core, m[1]) > levelAt(Core, i))
      BY <1>9, <2>4, <2>6, <2>9 DEF Propagates
    <3>2. PICK j \in DOMAIN trail : trail[j].lit = m[1]
      BY <1>2, <3>1 DEF IsTrue, Lits
    <3>3. level(Core, m[1]) = levelAt(Core, j)
      BY <1>7, <2>1, <3>2
    <3>4. /\ j \in Int
          /\ levelAt(Core, j) \in 0..Len(trail_lim)
          /\ levelAt(Core, j) <= levelAt(Core, i)
               <=> \A k \in DOMAIN trail_lim : i <= trail_lim[k] => j <= trail_lim[k]
      <4>1. j \in Int
        BY <1>1
      <4> QED  BY <1>2, <1>3, <2>7, <4>1, LevelIs
    <3>5. levelAt(Core, j) <= levelAt(Core, i)
      BY <2>7, <3>1, <3>3, <3>4
    <3> QED  BY <2>5, <3>2, <3>4, <3>5
  <2> QED  BY <2>8, <2>9
<1> QED  BY <1>4, <1>8, <1>9 DEF Sortable

\* The lemmas are sorted, those of a theory that sends more among them, and levels
\* are cancelled so that they can be attached.
LEMMA SoundSortLemmas ==
  ASSUME Inv, SoundInv, SortLemmas
  PROVE  StaysSound
<1> DEFINE n == Len(lemmas) - Len(order)
           new == [k \in 1..n |-> Sorted(Core, lemmas[Len(order) + k].c)]
           empty == \E k \in DOMAIN new : new[k] = <<>>
           levels == {update.btlevel}
                       \cup {OwnLevel(new[k]) : k \in {k \in DOMAIN new : Propagates(new[k])}}
                       \cup (IF empty THEN {0} ELSE {})
           lev == Min(levels)
           s == cancelUntil(Core, lev)
           cf == IF empty THEN Lazy ELSE update.conflict
<1>1. /\ pc = "lemmas" /\ Becomes(s) /\ order' = order \o new
      /\ lemmas' \in LemmasOnCancel(lemmas, lev)
      /\ update' = [update EXCEPT !.btlevel = lev, !.index = Len(s.trail), !.conflict = cf]
      /\ pc' = IF lemmas' = lemmas THEN "attach" ELSE "lemmas"
      /\ UNCHANGED <<intro, ca, assertionLevel, ok, trail_ok, answer, inputs, checks, type,
                     confl, watching, recheck>>
  BY DEF SortLemmas, userVars
<1>2. /\ Introduced(intro, assertionLevel) /\ Database(ca, intro, assertionLevel, inputs)
      /\ Sound(Core, ca, intro, assertionLevel, inputs)
      /\ Levels(assertionLevel, ok, inputs, trail_ok, checks, answer)
      /\ assertionLevel \in 0..MaxLevel /\ assertionLevel \in Nat
  BY SoundParts
<1>3. /\ problem \in Problems /\ HasFields(Core) /\ UpdateRight(update) /\ Shaped(Core)
      /\ Sync(Core, intro, assertionLevel)
  BY InvCore
<1>4. /\ Core.trail = trail /\ Core.trail_lim = trail_lim
      /\ trail \in Seq(Entry) /\ Len(trail) \in Nat /\ DOMAIN trail = 1..Len(trail)
      /\ Graph(trail, ca, intro, assertionLevel) /\ Decisions(trail, trail_lim, qhead)
  BY TrailShape, CoreShape
<1>5. /\ Pending(lemmas, intro, inputs) /\ Len(lemmas) \in Nat /\ DOMAIN lemmas = 1..Len(lemmas)
      /\ order \in Seq(Seq(Lit)) /\ Len(order) \in Nat /\ DOMAIN order = 1..Len(order)
      /\ Len(order) <= Len(lemmas)
      /\ update.btlevel = Len(trail_lim)
      /\ order # <<>> => update.index = Len(trail)
      /\ \A k \in 1..Len(order) :
           InOrder(order[k], lemmas[k].c, trail, trail_lim, update.index, update.conflict)
      /\ update.conflict # Undef =>
           ConflictIn(update.conflict, trail, trail_lim, ca, assertionLevel, inputs)
      /\ update.conflict \in {Undef, Lazy}
      /\ watching = {} /\ confl = Undef
      /\ type \in {"with", "final"} /\ recheck \in BOOLEAN
  BY <1>1, UpdateState, Zenon
<1>6. /\ trail_lim \in Seq(Nat) /\ Len(trail_lim) \in Nat /\ DOMAIN trail_lim = 1..Len(trail_lim)
      /\ trail_lim = <<>> <=> Len(trail_lim) = 0
  BY <1>4, DecisionsShape
<1> DEFINE c(k) == lemmas[Len(order) + k].c
<1> HIDE DEF SoundInv, Inv
\* The lemmas that are sorted now.
<1>7. n \in Nat /\ DOMAIN new = 1..n
  BY <1>5
<1>8. ASSUME NEW k \in 1..n
      PROVE  /\ Len(order) + k \in DOMAIN lemmas /\ Lemma(lemmas[Len(order) + k], intro, inputs)
             /\ c(k) \in SUBSET Lit /\ \A l \in c(k) : -l \notin c(k)
             /\ Entails(AssertedIn(inputs, 0), c(k))
             /\ new[k] = Sorted(Core, c(k)) /\ new[k] \in Seq(Lit) /\ ToSet(new[k]) = c(k)
  <2>1. Len(order) + k \in DOMAIN lemmas
    BY <1>5, <1>8
  <2>2. Lemma(lemmas[Len(order) + k], intro, inputs)
    BY <1>5, <2>1 DEF Pending
  <2>3. c(k) \in SUBSET Lit /\ (\A l \in c(k) : -l \notin c(k)) /\ Entails(AssertedIn(inputs, 0), c(k))
    BY <2>2 DEF Lemma
  <2>4. new[k] = Sorted(Core, c(k))
    OBVIOUS
  <2>5. Graph(Core.trail, ca, intro, assertionLevel)
    BY <1>4
  <2> HIDE DEF new, c
  <2>6. new[k] \in Seq(Lit) /\ ToSet(new[k]) = c(k)
    BY <2>3, <2>4, <2>5, SortedLits
  <2> QED  BY <2>1, <2>2, <2>3, <2>4, <2>6 DEF c
<1> HIDE DEF new, c
<1>9. ASSUME NEW k \in 1..n
      PROVE  OwnLevel(new[k]) \in Nat
  <2>1. level(Core, new[k][2]) \in Nat
    BY <1>3, LevelType
  <2> QED  BY <2>1 DEF OwnLevel
<1>10. /\ lev \in Nat /\ lev <= Len(trail_lim) /\ (empty => lev = 0)
       /\ \A k \in 1..n : Propagates(new[k]) => lev <= OwnLevel(new[k])
  <2>1. levels \subseteq Nat /\ update.btlevel \in levels
    BY <1>5, <1>6, <1>7, <1>9
  <2>2. empty => 0 \in levels
    OBVIOUS
  <2>3. \A k \in 1..n : Propagates(new[k]) => OwnLevel(new[k]) \in levels
    BY <1>7
  <2> HIDE DEF levels, empty
  <2>4. lev \in levels /\ \A y \in levels : lev <= y
    BY <2>1, NatMin
  <2> DEFINE d == Len(trail_lim)
  <2> HIDE DEF lev, d, n
  <2>5. update.btlevel = d
    BY <1>5 DEF d
  <2>6. lev \in Nat /\ lev <= d
    BY <2>1, <2>4, <2>5
  <2>7. empty => lev = 0
    BY <2>2, <2>4, <2>6
  <2>8. \A k \in 1..n : Propagates(new[k]) => lev <= OwnLevel(new[k])
    BY <2>3, <2>4
  <2> QED  BY <2>6, <2>7, <2>8 DEF d
<1> HIDE DEF lev
\* The core, cut.
<1> HIDE DEF s
<1>11. /\ Sound(s, ca, intro, assertionLevel, inputs) /\ HasFields(s) /\ Cut(Core, s, lev)
  BY <1>2, <1>3, <1>10, SoundCancel DEF s
<1>12. Core' = s
  BY <1>1, <1>11, BecomesIs
<1>13. Len(s.trail) \in Nat /\ s.trail_lim \in Seq(Nat) /\ Len(s.trail_lim) = lev
       /\ (s.trail_lim = <<>> <=> Len(s.trail_lim) = 0)
  <2>1. /\ Len(s.trail) \in Nat /\ s.trail_lim \in Seq(Nat)
        /\ (s.trail_lim = <<>> <=> Len(s.trail_lim) = 0)
    BY <1>11, SoundShape
  <2>2. lev < Len(trail_lim) => Len(s.trail_lim) = lev
    BY <1>4, <1>11 DEF Cut
  <2>3. lev >= Len(trail_lim) => s = Core
    BY <1>4, <1>11 DEF Cut
  <2>4. lev < Len(trail_lim) \/ (lev >= Len(trail_lim) /\ lev = Len(trail_lim))
    <3> DEFINE d == Len(trail_lim)
    <3>1. d \in Nat /\ lev \in Nat /\ lev <= d
      BY <1>6, <1>10
    <3> HIDE DEF d
    <3>2. lev < d \/ (lev >= d /\ lev = d)
      BY <3>1
    <3> QED  BY <3>2 DEF d
  <2> QED  BY <1>4, <2>1, <2>2, <2>3, <2>4
\* The lemmas of the loop.
<1>14. /\ order' \in Seq(Seq(Lit)) /\ Len(order') = Len(lemmas)
       /\ \A k \in 1..Len(order) : order'[k] = order[k]
       /\ \A k \in 1..n : order'[Len(order) + k] = new[k]
  <2> DEFINE S == Seq(Lit)
  <2>1. new \in Seq(S)
    <3>1. new = [k \in 1..n |-> new[k]]
      BY <1>7 DEF new
    <3>2. \A k \in 1..n : new[k] \in S
      BY <1>8
    <3> HIDE DEF S
    <3>3. IsSequence(new) /\ Len(new) = n
      BY <1>7, <3>1, SequenceFunction
    <3> QED  BY <3>2, <3>3, SequenceWithin
  <2>2. order \in Seq(S)
    BY <1>5
  <2>3. Len(new) = n
    BY <1>7, <2>1, LenProperties
  <2> HIDE DEF S
  <2>4. order \o new \in Seq(S)
    BY <2>1, <2>2, ConcatProperties
  <2>5. IsSequence(order) /\ IsSequence(new)
    BY <2>1, <2>2, SequenceOver
  <2>6. /\ Len(order \o new) = Len(order) + n
        /\ \A k \in 1..Len(order) : (order \o new)[k] = order[k]
        /\ \A k \in 1..n : (order \o new)[Len(order) + k] = new[k]
    BY <2>3, <2>5, SequenceConcat
  <2>7. Len(order) + n = Len(lemmas)
    BY <1>5
  <2> QED  BY <1>1, <2>4, <2>6, <2>7 DEF S
<1>15. /\ Pending(lemmas', intro, inputs)
       /\ lemmas' = lemmas \/ Len(lemmas') = Len(lemmas) + 1
       /\ \A i \in DOMAIN lemmas : i \in DOMAIN lemmas' /\ lemmas'[i] = lemmas[i]
  BY <1>1, <1>5, <1>10, PendingCancel
\* A conflict.
<1>16. cf \in {Undef, Lazy} /\ (update.conflict # Undef => cf # Undef) /\ (empty => cf # Undef)
  BY <1>5 DEF Undef, Lazy
<1>17. cf # Undef => ConflictIn(cf, s.trail, s.trail_lim, ca, assertionLevel, inputs)
  <2> SUFFICES ASSUME cf # Undef
               PROVE  s.trail_lim = <<>> /\ Inconsistent(inputs, assertionLevel)
    BY <1>16 DEF ConflictIn
  <2>1. CASE empty
    <3>1. s.trail_lim = <<>>
      BY <1>10, <1>13, <2>1
    <3>2. PICK k \in 1..n : new[k] = <<>>
      BY <1>7, <2>1
    <3>3. c(k) = {}
      BY <1>8, <3>2 DEF ToSet
    <3>4. Inconsistent(inputs, 0)
      BY <1>8, <3>3, EntailsNone
    <3>5. 0 \in Nat /\ 0 <= assertionLevel /\ \A j \in 0..0 : inputs[j] \subseteq inputs[j]
      BY <1>2
    <3>6. PICK C \in SUBSET Lit : C = {}
      OBVIOUS
    <3>7. Inconsistent(inputs, assertionLevel)
      BY <1>2, <3>4, <3>5, <3>6, EntailsMore
    <3> QED  BY <3>1, <3>7
  <2>2. CASE ~empty
    <3>1. update.conflict = Lazy /\ update.conflict # Undef
      BY <1>16, <1>5, <2>2
    <3>2. Lazy \notin DOMAIN ca
      BY <1>2 DEF Database, Lazy
    <3>3. trail_lim = <<>> /\ Inconsistent(inputs, assertionLevel)
      BY <1>5, <3>1, <3>2 DEF ConflictIn
    <3>4. lev = 0
      BY <1>6, <1>10, <3>3
    <3> QED  BY <1>13, <3>3, <3>4
  <2> QED  BY <2>1, <2>2
<1> HIDE DEF cf, empty
\* The order.
<1>18. ASSUME NEW k \in 1..Len(order')
       PROVE  InOrder(order'[k], lemmas'[k].c, s.trail, s.trail_lim, Len(s.trail), cf)
  <2>1. k \in 1..Len(lemmas) /\ lemmas'[k] = lemmas[k]
    BY <1>5, <1>14, <1>15, <1>18
  <2>2. Sortable(order'[k], lemmas'[k].c, trail, trail_lim, lev, cf)
    <3>1. CASE k \in 1..Len(order)
      <4>1. order'[k] = order[k] /\ order # <<>>
        BY <1>5, <1>14, <3>1
      <4>2. /\ InOrder(order[k], lemmas[k].c, trail, trail_lim, update.index, update.conflict)
            /\ update.index = Len(trail)
        BY <1>5, <3>1, <4>1
      <4> QED  BY <1>4, <1>6, <1>10, <1>16, <2>1, <4>1, <4>2, SortedBefore
    <3>2. CASE k \notin 1..Len(order)
      <4>1. PICK j \in 1..n : k = Len(order) + j
        <5>1. k - Len(order) \in 1..n /\ k = Len(order) + (k - Len(order))
          BY <1>5, <2>1, <3>2
        <5> QED  BY <5>1
      <4>2. order'[k] = new[j] /\ lemmas'[k].c = c(j)
        BY <1>14, <2>1, <4>1 DEF c
      <4>3. Len(new[j]) = 0 => cf # Undef
        <5>1. Len(new[j]) = 0 => new[j] = <<>>
          BY <1>8, EmptySeq
        <5>2. new[j] = <<>> => empty
          BY <1>7 DEF empty
        <5> QED  BY <1>16, <5>1, <5>2 DEF cf, empty
      <4>4. Sortable(new[j], c(j), trail, trail_lim, lev, cf)
        BY <1>8, <1>10, <4>3, SortedNow
      <4> QED  BY <4>2, <4>4
    <3> QED  BY <3>1, <3>2
  <2> QED  BY <1>4, <1>6, <1>10, <1>11, <2>2, CutInOrder
<1>19. /\ update'.btlevel = Len(s.trail_lim) /\ update'.index = Len(s.trail)
       /\ update'.conflict = cf
  BY <1>1, <1>3, <1>13 DEF UpdateRight
<1>20. pc' \in {"lemmas", "attach"} /\ (pc' = "attach" => lemmas' = lemmas)
  BY <1>1
<1>21. Updating(lemmas', order', update', pc', s, ca, intro, assertionLevel, inputs)
  <2>1. Len(order') <= Len(lemmas') /\ (pc' = "attach" => Len(order') = Len(lemmas'))
    BY <1>5, <1>14, <1>15, <1>20
  <2>2. \A k \in DOMAIN order' :
          InOrder(order'[k], lemmas'[k].c, s.trail, s.trail_lim, update'.index, update'.conflict)
    <3>1. DOMAIN order' = 1..Len(order')
      BY <1>14, LenProperties
    <3> QED  BY <1>18, <1>19, <3>1
  <2>3. update'.index \in 0..Len(s.trail)
    BY <1>13, <1>19
  <2> QED  BY <1>14, <1>15, <1>16, <1>17, <1>19, <1>20, <2>1, <2>2, <2>3 DEF Updating
<1>22. Searching(pc', type', recheck', answer', watching', confl', s, ca, assertionLevel, inputs)
  <2>1. watching' = {} /\ confl' = Undef /\ type' \in {"with", "final"} /\ recheck' \in BOOLEAN
    BY <1>1, <1>5
  <2> QED  BY <1>20, <2>1 DEF Searching
<1> QED  BY <1>1, <1>2, <1>11, <1>12, <1>21, <1>22 DEF StaysSound

-----------------------------------------------------------------------------
(* The search, when there is no conflict to analyse. *)

\* Where propagate has returned nothing is left to do.
LEMMA DecideState ==
  ASSUME SoundInv, pc \in {"decide", "conflict"}
  PROVE  /\ lemmas = <<>> /\ order = <<>> /\ update.conflict \in {Undef, Lazy} /\ watching = {}
         /\ type \in {"with", "final"} /\ recheck \in BOOLEAN
         /\ pc = "decide" => confl = Undef /\ (type = "with" => qhead = Len(trail))
         /\ pc = "conflict" => confl # Undef
                               /\ ConflictIn(confl, trail, trail_lim, ca, assertionLevel, inputs)
<1>1. /\ lemmas = <<>> /\ order = <<>> /\ update.conflict \in {Undef, Lazy}
      /\ type \in {"without", "with", "final"} /\ recheck \in BOOLEAN
  BY QuietState
<1>2. Searching(pc, type, recheck, answer, watching, confl, Core, ca, assertionLevel, inputs)
  BY SoundParts
<1>3. Core.trail = trail /\ Core.trail_lim = trail_lim /\ Core.qhead = qhead
  BY CoreShape
<1> HIDE DEF SoundInv
<1> QED  BY <1>1, <1>2, <1>3 DEF Searching

\* The check ends.
LEMMA SoundAnswers ==
  ASSUME Inv, SoundInv, pc \in {"decide", "conflict"}, NEW a \in {"sat", "unsat"}, Answers(a),
         a = "unsat" => Inconsistent(inputs, assertionLevel)
  PROVE  StaysSound
<1>1. /\ answer' \in {a, "unknown"} /\ ok' = (ok /\ answer' # "unsat")
      /\ pc' = "user" /\ type' = "with" /\ confl' = Undef /\ recheck' = FALSE
      /\ UNCHANGED <<coreVars, intro, ca, lemmas, order, update, assertionLevel, trail_ok, checks,
                     inputs, watching>>
  BY DEF Answers
<1>2. /\ Introduced(intro, assertionLevel) /\ Database(ca, intro, assertionLevel, inputs)
      /\ Sound(Core, ca, intro, assertionLevel, inputs)
      /\ Levels(assertionLevel, ok, inputs, trail_ok, checks, answer)
  BY SoundParts
<1>3. /\ lemmas = <<>> /\ order = <<>> /\ update.conflict \in {Undef, Lazy} /\ watching = {}
  BY DecideState
<1>4. Core' = Core
  BY <1>1, CoreUnchanged
<1> HIDE DEF SoundInv, Inv
<1>5. answer' = "unsat" => Inconsistent(inputs, assertionLevel)
  BY <1>1
<1>6. /\ ok' \in BOOLEAN /\ answer' \in {"sat", "unsat", "unknown"}
      /\ ~ok' => ~ok \/ answer' = "unsat"
  <2>1. ok \in BOOLEAN
    BY <1>2 DEF Levels
  <2> QED  BY <1>1, <2>1
<1>7. Levels(assertionLevel', ok', inputs', trail_ok', checks', answer')
  <2>1. Levels(assertionLevel, ok', inputs, trail_ok, checks, answer')
    BY <1>2, <1>5, <1>6 DEF Levels
  <2> QED  BY <1>1, <2>1
<1>8. /\ Introduced(intro', assertionLevel') /\ Database(ca', intro', assertionLevel', inputs')
      /\ Sound(Core, ca', intro', assertionLevel', inputs')
      /\ lemmas' = <<>> /\ order' = <<>> /\ update'.conflict \in {Undef, Lazy} /\ watching' = {}
  BY <1>1, <1>2, <1>3
<1>9. /\ confl' = Undef /\ pc' \in {"user", "bool", "theory", "output", "decide"}
      /\ type' \in {"without", "with", "final"} /\ recheck' \in BOOLEAN
      /\ pc' = "user" /\ answer' = "none" => Core.trail_lim = <<>>
      /\ type' = "without" => Core.trail_lim = <<>> /\ pc' \in {"user", "bool"}
      /\ pc' = "decide" /\ type' = "with" => Core.qhead = Len(Core.trail)
  BY <1>1, <1>6
<1> QED  BY <1>4, <1>7, <1>8, <1>9, StaysIdle

\* A conflict at decision level 0 ends the check.
LEMMA SoundConflictAtZero ==
  ASSUME Inv, SoundInv, ConflictAtZero
  PROVE  StaysSound
<1>1. pc = "conflict" /\ decisionLevel(Core) = 0 /\ Answers("unsat")
  BY DEF ConflictAtZero
<1>2. /\ Database(ca, intro, assertionLevel, inputs)
      /\ Sound(Core, ca, intro, assertionLevel, inputs) /\ assertionLevel \in Nat
  BY SoundParts
<1>3. ConflictIn(confl, trail, trail_lim, ca, assertionLevel, inputs)
  BY <1>1, DecideState
<1>4. Core.trail = trail /\ Core.trail_lim = trail_lim
  BY CoreShape
<1>5. Core.trail_lim = <<>>
  BY <1>1, <1>2, SoundShape DEF decisionLevel
<1>6. Inconsistent(inputs, assertionLevel)
  BY <1>2, <1>3, <1>4, <1>5, ConflictAtZeroIs
<1>7. PICK a \in {"sat", "unsat"} : a = "unsat"
  OBVIOUS
<1> HIDE DEF Inv, SoundInv
<1> QED  BY <1>1, <1>6, <1>7, SoundAnswers

\* propagate is called, the core being the same.
LEMMA SoundAgain ==
  ASSUME Inv, SoundInv, NEW s, HasFields(s), Becomes(s),
         Sound(s, ca, intro, assertionLevel, inputs),
         UNCHANGED <<intro, ca, userVars>>,
         NEW ls, Pending(ls, intro, inputs), NEW ty \in {"with", "final"}, Propagate(s, ls, ty)
  PROVE  StaysSound
<1>1. /\ Introduced(intro, assertionLevel) /\ Database(ca, intro, assertionLevel, inputs)
      /\ Levels(assertionLevel, ok, inputs, trail_ok, checks, answer)
  BY SoundParts
<1>2. UNCHANGED <<intro, ca, assertionLevel, ok, trail_ok, answer, inputs, checks>>
  BY DEF userVars
<1> HIDE DEF SoundInv, Inv
<1>3. /\ Sound(s, ca', intro', assertionLevel', inputs') /\ Introduced(intro', assertionLevel')
      /\ Database(ca', intro', assertionLevel', inputs')
      /\ Levels(assertionLevel', ok', inputs', trail_ok', checks', answer')
      /\ Pending(ls, intro', inputs')
  BY <1>1, <1>2
<1> QED  BY <1>3, StaysPropagate

\* The final check found nothing.
LEMMA SoundFinal ==
  ASSUME Inv, SoundInv, Final
  PROVE  StaysSound
<1>1. pc = "decide" /\ type = "final"
  BY DEF Final
<1>2. Sound(Core, ca, intro, assertionLevel, inputs) /\ HasFields(Core)
  BY SoundParts, InvCore
<1>3. PICK none : none = <<>>
  OBVIOUS
<1>4. Pending(none, intro, inputs)
  BY <1>3, PendingNone
<1>5. CASE \E ty \in {"with", "final"} :
             Propagate(Core, none, ty) /\ UNCHANGED <<coreVars, intro, ca, userVars>>
  <2>1. PICK ty \in {"with", "final"} : Propagate(Core, none, ty)
    BY <1>5
  <2>2. UNCHANGED <<intro, ca, userVars>> /\ UNCHANGED coreVars
    BY <1>5
  <2>3. Becomes(Core)
    BY <2>2, CoreShape DEF Becomes, coreVars
  <2> HIDE DEF Inv, SoundInv
  <2> QED  BY <1>2, <1>4, <2>1, <2>2, <2>3, SoundAgain
<1>6. CASE Answers("sat")
  <2>1. PICK a \in {"sat", "unsat"} : a = "sat"
    OBVIOUS
  <2>2. pc \in {"decide", "conflict"} /\ a # "unsat"
    BY <1>1, <2>1
  <2> HIDE DEF Inv, SoundInv
  <2> QED  BY <1>6, <2>1, <2>2, SoundAnswers
<1>7. \/ \E ty \in {"with", "final"} :
           Propagate(Core, none, ty) /\ UNCHANGED <<coreVars, intro, ca, userVars>>
      \/ Answers("sat")
  BY <1>3 DEF Final
<1> QED  BY <1>5, <1>6, <1>7

\* The decision levels are given up, in the search.
LEMMA CancelSound ==
  ASSUME Inv, SoundInv, NEW lev \in Nat
  PROVE  LET t == cancelUntil(Core, lev) IN
         /\ Sound(t, ca, intro, assertionLevel, inputs) /\ HasFields(t)
         /\ lev = 0 => t.trail_lim = <<>>
<1>1. Sound(Core, ca, intro, assertionLevel, inputs) /\ assertionLevel \in Nat
  BY SoundParts
<1>2. Sync(Core, intro, assertionLevel) /\ problem \in Problems
  BY InvCore
<1> DEFINE t == cancelUntil(Core, lev)
<1> HIDE DEF t, SoundInv, Inv
<1>3. Sound(t, ca, intro, assertionLevel, inputs) /\ HasFields(t) /\ Cut(Core, t, lev)
  BY <1>1, <1>2, SoundCancel DEF t
<1>4. t.trail_lim # <<>> => lev > 0
  BY <1>3 DEF Cut
<1>5. lev = 0 => t.trail_lim = <<>>
  BY <1>4
<1> QED  BY <1>3, <1>5 DEF t

\* The search restarts.
LEMMA SoundRestart ==
  ASSUME Inv, SoundInv, Restart
  PROVE  StaysSound
<1>0. PICK z \in Nat : z = 0
  OBVIOUS
<1>1. PICK none : none = <<>>
  OBVIOUS
<1>2. PICK ty \in {"with", "final"} : ty = "with"
  OBVIOUS
<1> DEFINE s == cancelUntil(Core, z)
<1>3. /\ Becomes(s) /\ UNCHANGED <<intro, ca, userVars>>
      /\ \E ls \in LemmasOnCancel(none, z) : Propagate(s, ls, ty)
  BY <1>0, <1>1, <1>2 DEF Restart
<1>4. PICK ls \in LemmasOnCancel(none, z) : Propagate(s, ls, ty)
  BY <1>3
<1>5. Pending(none, intro, inputs)
  BY <1>1, PendingNone
<1> HIDE DEF Inv, SoundInv
<1>6. Pending(ls, intro, inputs)
  BY <1>5, PendingCancel
<1>7. Sound(s, ca, intro, assertionLevel, inputs) /\ HasFields(s)
  BY CancelSound
<1> HIDE DEF s
<1> QED  BY <1>3, <1>4, <1>6, <1>7, SoundAgain

\* An interrupt leaves no lemma waiting.
LEMMA SoundInterrupt ==
  ASSUME Inv, SoundInv, Calm, Interrupt
  PROVE  StaysSound
<1>0. PICK z \in Nat : z = 0
  OBVIOUS
<1>1. PICK none : none = <<>>
  OBVIOUS
<1> DEFINE s == cancelUntil(Core, z)
<1>2. /\ pc = "decide" /\ type = "with" /\ problem.interrupts /\ Becomes(s)
      /\ lemmas' \in LemmasOnCancel(none, z)
      /\ answer' = "unknown" /\ pc' = "user" /\ confl' = Undef
      /\ UNCHANGED <<intro, ca, order, update, assertionLevel, ok, trail_ok, checks, inputs, type,
                     watching, recheck>>
  BY <1>0, <1>1 DEF Interrupt
<1>3. /\ Introduced(intro, assertionLevel) /\ Database(ca, intro, assertionLevel, inputs)
      /\ Levels(assertionLevel, ok, inputs, trail_ok, checks, answer)
  BY SoundParts
<1>4. /\ order = <<>> /\ update.conflict \in {Undef, Lazy} /\ watching = {} /\ recheck \in BOOLEAN
  BY <1>2, DecideState
<1>5. ~problem.registering
  BY <1>2, InvCore DEF Calm
<1>6. Pending(none, intro, inputs)
  BY <1>1, PendingNone
<1> HIDE DEF Inv, SoundInv
<1>7. lemmas' = <<>>
  BY <1>1, <1>2, <1>5, <1>6, PendingCancel
<1>8. Sound(s, ca, intro, assertionLevel, inputs) /\ HasFields(s) /\ s.trail_lim = <<>>
  BY <1>0, CancelSound
<1> HIDE DEF s
<1>9. Core' = s
  BY <1>2, <1>8, BecomesIs
<1>10. Levels(assertionLevel, ok, inputs, trail_ok, checks, "unknown")
  BY <1>3 DEF Levels
<1>11. /\ Introduced(intro', assertionLevel') /\ Database(ca', intro', assertionLevel', inputs')
       /\ Sound(s, ca', intro', assertionLevel', inputs')
       /\ Levels(assertionLevel', ok', inputs', trail_ok', checks', answer')
       /\ order' = <<>> /\ update'.conflict \in {Undef, Lazy} /\ watching' = {}
  BY <1>2, <1>3, <1>4, <1>8, <1>10
<1>12. /\ confl' = Undef /\ pc' \in {"user", "bool", "theory", "output", "decide"}
       /\ type' \in {"without", "with", "final"} /\ recheck' \in BOOLEAN
       /\ pc' = "user" /\ answer' = "none" => s.trail_lim = <<>>
       /\ type' = "without" => s.trail_lim = <<>> /\ pc' \in {"user", "bool"}
       /\ pc' = "decide" /\ type' = "with" => s.qhead = Len(s.trail)
  BY <1>2, <1>4, <1>8
<1> QED  BY <1>7, <1>9, <1>11, <1>12, StaysIdle

\* What the entries are whose reasons are removed.
LEMMA UnlockedEntries ==
  ASSUME NEW t \in Seq(Entry), NEW gone
  PROVE  LET u == Unlocked(t, gone) IN
         /\ u \in Seq(Entry) /\ Len(u) = Len(t)
         /\ \A i \in DOMAIN t : /\ u[i].lit = t[i].lit /\ u[i].user = t[i].user
                                /\ t[i].reason \in gone => u[i].reason = Undef
                                /\ t[i].reason \notin gone => u[i] = t[i]
<1> DEFINE u == Unlocked(t, gone)
<1>1. Len(t) \in Nat /\ DOMAIN t = 1..Len(t) /\ \A i \in DOMAIN t : t[i] \in Entry
  BY LenProperties, ElementOfSeq
<1>2. /\ u = [i \in 1..Len(t) |-> u[i]] /\ DOMAIN u = 1..Len(t)
      /\ \A i \in 1..Len(t) : u[i] = IF t[i].reason \in gone THEN [t[i] EXCEPT !.reason = Undef]
                                                            ELSE t[i]
  BY <1>1 DEF Unlocked
<1> HIDE DEF u
<1>3. ASSUME NEW e \in Entry
      PROVE  LET f == [e EXCEPT !.reason = Undef] IN
             f \in Entry /\ f.lit = e.lit /\ f.user = e.user /\ f.reason = Undef
  BY DEF Entry, Undef
<1>4. ASSUME NEW i \in 1..Len(t)
      PROVE  /\ u[i] \in Entry /\ u[i].lit = t[i].lit /\ u[i].user = t[i].user
             /\ t[i].reason \in gone => u[i].reason = Undef
             /\ t[i].reason \notin gone => u[i] = t[i]
  <2>1. t[i] \in Entry
    BY <1>1
  <2>2. CASE t[i].reason \in gone
    BY <1>2, <1>3, <2>1, <2>2
  <2>3. CASE t[i].reason \notin gone
    BY <1>2, <2>1, <2>3
  <2> QED  BY <2>2, <2>3
<1>5. IsSequence(u) /\ Len(u) = Len(t)
  BY <1>1, <1>2, SequenceFunction
<1>6. u \in Seq(Entry)
  BY <1>4, <1>5, SequenceWithin
<1> QED  BY <1>1, <1>4, <1>5, <1>6 DEF u

\* Clauses are removed that are no reasons, or, at decision level 0, any.
LEMMA SoundRemoved ==
  ASSUME Inv, SoundInv, pc = "decide", type = "with", NEW gone, Removed(gone),
         trail_lim = <<>> \/ \A c \in gone : ~locked(trail, c),
         NEW heap, order_heap' = heap, heap \subseteq Atom,
         \A v \in Atom : intro[v] # -1 => v \in heap \/ v \in Vars(Lits(trail))
  PROVE  StaysSound
<1> DEFINE tr == Unlocked(trail, gone)
           to == [c \in DOMAIN ca \ gone |-> ca[c]]
           t == [Core EXCEPT !.trail = tr, !.order_heap = heap]
<1>1. /\ ca' = to /\ trail' = tr
      /\ UNCHANGED <<trail_lim, qhead, queue, facts, known, saved, variables_to_register, intro,
                     lemmas, order, update, assertionLevel, ok, trail_ok, answer, inputs, checks,
                     pc, type, confl, watching, recheck>>
  BY DEF Removed, Without, userVars
<1>2. /\ Introduced(intro, assertionLevel) /\ Database(ca, intro, assertionLevel, inputs)
      /\ Sound(Core, ca, intro, assertionLevel, inputs)
      /\ Levels(assertionLevel, ok, inputs, trail_ok, checks, answer)
  BY SoundParts
<1>3. /\ lemmas = <<>> /\ order = <<>> /\ update.conflict \in {Undef, Lazy} /\ watching = {}
      /\ recheck \in BOOLEAN /\ confl = Undef /\ qhead = Len(trail)
  BY DecideState
<1>4. /\ HasFields(Core) /\ Core.trail = trail /\ Core.trail_lim = trail_lim
      /\ Core.queue = queue
      /\ Core.facts = facts /\ Core.known = known /\ Core.saved = saved
      /\ Core.regs = variables_to_register /\ Core.qhead = qhead
  BY CoreShape
<1>5. /\ trail \in Seq(Entry) /\ Len(trail) \in Nat /\ DOMAIN trail = 1..Len(trail)
      /\ Graph(trail, ca, intro, assertionLevel)
  BY TrailShape
<1> HIDE DEF Inv, SoundInv, tr
<1>6. /\ HasFields(t) /\ t.trail = tr /\ t.order_heap = heap
      /\ t.trail_lim = trail_lim /\ t.queue = queue
      /\ t.facts = facts /\ t.known = known /\ t.saved = saved
      /\ t.regs = variables_to_register /\ t.qhead = qhead
  BY <1>4 DEF HasFields, CoreFields
<1> HIDE DEF t, to
<1>7. Becomes(t)
  BY <1>1, <1>6 DEF Becomes
<1>8. Core' = t
  BY <1>6, <1>7, BecomesIs
<1>9. /\ tr \in Seq(Entry) /\ Len(tr) = Len(trail)
      /\ \A i \in DOMAIN trail : /\ tr[i].lit = trail[i].lit /\ tr[i].user = trail[i].user
                                 /\ trail[i].reason \in gone => tr[i].reason = Undef
                                 /\ trail[i].reason \notin gone => tr[i] = trail[i]
  BY <1>5, UnlockedEntries DEF tr
<1>10. DOMAIN tr = 1..Len(trail)
  BY <1>9, LenProperties
<1>11. Database(to, intro, assertionLevel, inputs)
  <2>1. \A c \in DOMAIN ca \ gone :
          ca[c].level <= assertionLevel /\ Follow(ToSet(ca[c].lits), ca[c].level, intro, inputs)
    BY <1>2 DEF Database
  <2> QED  BY <1>2, <2>1, DatabaseFewer DEF to
<1>12. \A c \in DOMAIN ca \ gone : c \in DOMAIN to /\ to[c] = ca[c]
  BY DEF to
<1>13. \A l, i : FalseBefore(trail, l, i) <=> FalseBefore(tr, l, i)
  BY <1>5, <1>9, <1>10 DEF FalseBefore
<1>14. ASSUME NEW i \in DOMAIN trail
       PROVE  /\ Rests(tr, to, i)
              /\ tr[i].reason = Undef => trail[i].reason = Undef \/ AtZero(trail_lim, i)
  <2>1. trail[i].reason \in Nat \cup {Lazy} /\ tr[i].reason \in Nat \cup {Lazy}
    BY <1>5, <1>9, <1>10, EntryLits
  <2>2. CASE trail[i].reason \in gone
    <3>1. tr[i].reason = Undef
      BY <1>9, <2>2
    <3>2. ~ (tr[i].reason > 0) /\ tr[i].reason # Lazy /\ PremisesIn(to, tr[i]) = {}
      BY <2>1, <3>1, PremisesAre
    <3>3. Rests(tr, to, i)
      BY <3>2 DEF Rests
    <3>4. trail_lim = <<>>
      BY <2>2 DEF locked
    <3>5. AtZero(trail_lim, i)
      BY <3>4 DEF AtZero
    <3> QED  BY <3>3, <3>5
  <2>3. CASE trail[i].reason \notin gone
    <3>1. tr[i] = trail[i]
      BY <1>9, <2>3
    <3>2. Rests(trail, ca, i)
      BY <1>5 DEF Graph
    <3>3. trail[i].reason > 0 => /\ trail[i].reason \in DOMAIN ca
                                 /\ trail[i].reason \in DOMAIN to
                                 /\ to[trail[i].reason] = ca[trail[i].reason]
      BY <1>12, <2>3, <3>2 DEF Rests
    <3>4. PremisesIn(to, trail[i]) = PremisesIn(ca, trail[i])
      BY <2>1, <3>3, PremisesAre, Zenon
    <3>5. Rests(tr, to, i)
      BY <1>13, <3>1, <3>2, <3>3, <3>4 DEF Rests
    <3> QED  BY <3>1, <3>5
  <2> QED  BY <2>2, <2>3
<1>15. Sound(t, to, intro, assertionLevel, inputs)
  <2>1. Lits(tr) = Lits(trail)
    BY <1>5, <1>9, <1>10 DEF Lits
  <2>2. Decidable(t, intro)
    BY <1>6, <2>1 DEF Decidable
  <2>3. CoreTyped(t)
    BY <1>2, <1>4, <1>6 DEF Sound, CoreTyped
  <2>4. \A i \in DOMAIN Core.trail :
          /\ t.trail[i].lit = Core.trail[i].lit /\ t.trail[i].user = Core.trail[i].user
          /\ Rests(t.trail, to, i)
          /\ t.trail[i].reason = Undef
               => Core.trail[i].reason = Undef \/ AtZero(Core.trail_lim, i)
    BY <1>4, <1>6, <1>9, <1>14
  <2>5. /\ t.trail \in Seq(Entry) /\ Len(t.trail) = Len(Core.trail)
        /\ t.trail_lim = Core.trail_lim /\ t.qhead = Core.qhead
    BY <1>4, <1>6, <1>9
  <2> QED  BY <1>2, <2>2, <2>3, <2>4, <2>5, SoundReasons
<1>16. /\ Introduced(intro', assertionLevel') /\ Database(ca', intro', assertionLevel', inputs')
       /\ Sound(t, ca', intro', assertionLevel', inputs')
       /\ Levels(assertionLevel', ok', inputs', trail_ok', checks', answer')
       /\ lemmas' = <<>> /\ order' = <<>> /\ update'.conflict \in {Undef, Lazy} /\ watching' = {}
  BY <1>1, <1>2, <1>3, <1>11, <1>15
<1>17. /\ confl' = Undef /\ pc' \in {"user", "bool", "theory", "output", "decide"}
       /\ type' \in {"without", "with", "final"} /\ recheck' \in BOOLEAN
       /\ pc' = "user" /\ answer' = "none" => t.trail_lim = <<>>
       /\ type' = "without" => t.trail_lim = <<>> /\ pc' \in {"user", "bool"}
       /\ pc' = "decide" /\ type' = "with" => t.qhead = Len(t.trail)
  BY <1>1, <1>3, <1>6, <1>9
<1> QED  BY <1>8, <1>16, <1>17, StaysIdle

\* Variables of literals.
LEMMA VarOf ==
  ASSUME SoundInv, NEW v \in Atom
  PROVE  v \in Vars(Lits(trail)) <=> ~IsUndef(Core, v)
<1>1. \A i \in DOMAIN trail : trail[i].lit \in Lit
  BY TrailShape
<1>2. Core.trail = trail
  BY CoreShape
<1>3. \A l \in Lits(trail) : l \in Lit
  BY <1>1 DEF Lits
<1>4. v \in Lit /\ Abs(v) = v /\ Abs(-v) = v /\ -v \in Lit
  BY LitFacts
<1>5. \A l \in Lits(trail) : Abs(l) = v <=> l = v \/ l = -v
  BY <1>3, <1>4, LitFacts
<1> QED  BY <1>2, <1>5 DEF IsUndef, IsTrue, IsFalse, Vars

\* simplify() removes satisfied clauses at decision level 0.
LEMMA SoundSimplify ==
  ASSUME Inv, SoundInv, simplify
  PROVE  StaysSound
<1> DEFINE gone == {c \in DOMAIN ca : ca[c].removable /\ Satisfied(c)}
           heap == unassigned
<1>1. /\ pc = "decide" /\ type = "with" /\ decisionLevel(Core) = 0 /\ Removed(gone)
      /\ order_heap' = heap
  BY DEF simplify
<1>2. trail_lim = <<>>
  <2>1. Sound(Core, ca, intro, assertionLevel, inputs)
    BY SoundParts
  <2> QED  BY <1>1, <2>1, SoundShape, CoreShape DEF decisionLevel
<1>3. /\ heap \subseteq Atom
      /\ \A v \in Atom : intro[v] # -1 => v \in heap \/ v \in Vars(Lits(trail))
  BY VarOf DEF unassigned
<1> HIDE DEF gone, heap, Inv, SoundInv
<1> QED  BY <1>1, <1>2, <1>3, SoundRemoved

\* reduceDB() removes clauses that are no reasons.
LEMMA SoundReduceDB ==
  ASSUME Inv, SoundInv, NEW gone, reduceDB(gone)
  PROVE  StaysSound
<1>1. /\ pc = "decide" /\ type = "with" /\ Removed(gone) /\ \A c \in gone : ~locked(trail, c)
      /\ order_heap' = order_heap
  BY DEF reduceDB
<1>2. Sound(Core, ca, intro, assertionLevel, inputs)
  BY SoundParts
<1>3. /\ order_heap \subseteq Atom
      /\ \A v \in Atom : intro[v] # -1 => v \in order_heap \/ v \in Vars(Lits(trail))
  BY <1>2, CoreShape DEF Sound, CoreTyped, Decidable
<1> HIDE DEF Inv, SoundInv
<1> QED  BY <1>1, <1>3, SoundRemoved

\* A decision.
LEMMA SoundDecides ==
  ASSUME Inv, SoundInv, NEW l \in Lit, Decide(l)
  PROVE  StaysSound
<1>1. PICK none : none = <<>>
  OBVIOUS
<1>2. PICK ty \in {"with", "final"} : ty = "with"
  OBVIOUS
<1> DEFINE heap == (order_heap \cap unassigned) \ {Abs(l)}
           b == [Core EXCEPT !.order_heap = heap]
           s == uncheckedEnqueue(newDecisionLevel(b), l, Undef, {})
<1>3. /\ pc = "decide" /\ type = "with" /\ Abs(l) \in order_heap \cap unassigned
      /\ Becomes(s) /\ Propagate(s, none, ty) /\ UNCHANGED <<intro, ca, userVars>>
  BY <1>1, <1>2, CoreShape DEF Decide
<1>4. /\ Introduced(intro, assertionLevel) /\ Sound(Core, ca, intro, assertionLevel, inputs)
      /\ assertionLevel \in 0..MaxLevel
  BY SoundParts
<1>5. qhead = Len(trail)
  BY <1>3, DecideState
<1>6. /\ HasFields(Core) /\ Core.trail = trail /\ Core.trail_lim = trail_lim /\ Core.queue = queue
      /\ Core.facts = facts /\ Core.known = known /\ Core.saved = saved
      /\ Core.regs = variables_to_register /\ Core.qhead = qhead /\ Core.order_heap = order_heap
  BY CoreShape
<1>7. Abs(l) \in Atom /\ intro[Abs(l)] # -1 /\ IsUndef(Core, Abs(l)) /\ Abs(l) \notin Vars(Lits(trail))
  BY <1>3, VarOf DEF unassigned
<1>8. \A v \in Atom : intro[v] # -1 => v \in heap \/ v \in Vars(Lits(trail)) \/ v = Abs(l)
  <2> SUFFICES ASSUME NEW v \in Atom, intro[v] # -1, v \notin Vars(Lits(trail)), v # Abs(l)
               PROVE  v \in heap
    OBVIOUS
  <2>1. v \in order_heap
    BY <1>4, <1>6 DEF Sound, Decidable
  <2>2. v \in unassigned
    BY VarOf DEF unassigned
  <2> QED  BY <2>1, <2>2
<1> HIDE DEF SoundInv, Inv
<1>9. heap \subseteq Atom
  BY DEF unassigned
<1> HIDE DEF heap
<1>10. /\ HasFields(b) /\ b.trail = trail /\ b.trail_lim = trail_lim /\ b.queue = queue
       /\ b.facts = facts /\ b.known = known /\ b.saved = saved
       /\ b.regs = variables_to_register /\ b.qhead = qhead /\ b.order_heap = heap
  BY <1>6 DEF HasFields, CoreFields
<1> HIDE DEF b
<1>11. IsUndef(b, l)
  <2>1. l \notin Lits(trail) /\ -l \notin Lits(trail)
    <3>1. Abs(-l) = Abs(l)
      BY LitFacts
    <3> QED  BY <1>7, <3>1 DEF Vars
  <2> QED  BY <1>10, <2>1 DEF IsUndef, IsTrue, IsFalse
<1>12. /\ Graph(b.trail, ca, intro, assertionLevel) /\ Decisions(b.trail, b.trail_lim, b.qhead)
       /\ Fixed(b.trail, b.trail_lim, inputs) /\ CoreTyped(b)
  BY <1>4, <1>6, <1>9, <1>10 DEF Sound, CoreTyped
<1>13. b.qhead = Len(b.trail)
       /\ \A v \in Atom : intro[v] # -1 =>
            v \in b.order_heap \/ v \in Vars(Lits(b.trail)) \/ v = Abs(l)
  BY <1>5, <1>8, <1>10
<1>14. Sound(s, ca, intro, assertionLevel, inputs) /\ HasFields(s)
  BY <1>4, <1>7, <1>10, <1>11, <1>12, <1>13, SoundDecide
<1>15. Pending(none, intro, inputs)
  BY <1>1, PendingNone
<1> HIDE DEF s
<1> QED  BY <1>3, <1>14, <1>15, SoundAgain

\* There is no variable left to decide on.
LEMMA SoundAllDecided ==
  ASSUME Inv, SoundInv, AllDecided
  PROVE  StaysSound
<1>1. PICK none : none = <<>>
  OBVIOUS
<1>2. PICK ty \in {"with", "final"} : ty = "final"
  OBVIOUS
<1> DEFINE s == [Core EXCEPT !.order_heap = {}]
<1>3. /\ pc = "decide" /\ order_heap \cap unassigned = {}
      /\ Becomes(s) /\ Propagate(s, none, ty) /\ UNCHANGED <<intro, ca, userVars>>
  BY <1>1, <1>2 DEF AllDecided
<1>4. Sound(Core, ca, intro, assertionLevel, inputs)
  BY SoundParts
<1>5. /\ HasFields(Core) /\ Core.trail = trail /\ Core.qhead = qhead /\ Core.order_heap = order_heap
  BY CoreShape
<1>6. qhead \in 0..Len(trail) /\ qhead <= qhead
  BY TrailShape
<1>7. \A v \in Atom : intro[v] # -1 => v \in Vars(Lits(trail))
  BY <1>3, <1>4, <1>5, VarOf DEF Sound, Decidable, unassigned
<1> HIDE DEF SoundInv, Inv
<1>8. /\ HasFields(s) /\ s.trail = Core.trail /\ s.trail_lim = Core.trail_lim /\ s.queue = Core.queue
      /\ s.facts = Core.facts /\ s.known = Core.known /\ s.saved = Core.saved
      /\ s.regs = Core.regs /\ s.qhead = Core.qhead /\ s.order_heap = {}
  BY <1>5 DEF HasFields, CoreFields
<1> HIDE DEF s
<1>9. Decidable(s, intro) /\ CoreTyped(s)
  BY <1>4, <1>5, <1>7, <1>8 DEF Sound, Decidable, CoreTyped
<1>10. s.qhead \in 0..Len(Core.trail) /\ Core.qhead <= s.qhead
  BY <1>5, <1>6, <1>8
<1>11. Sound(s, ca, intro, assertionLevel, inputs)
  BY <1>4, <1>8, <1>9, <1>10, SoundOther
<1>12. Pending(none, intro, inputs)
  BY <1>1, PendingNone
<1> QED  BY <1>3, <1>8, <1>11, <1>12, SoundAgain

-----------------------------------------------------------------------------
(* The analysis of a conflict. *)

\* Where a false literal became so.
LEMMA FalseIndex ==
  ASSUME SoundInv, NEW l \in Lit, IsFalse(Core, l), NEW i, i = trail_index(Core, l)
  PROVE  /\ i \in DOMAIN trail /\ i \in 1..Len(trail) /\ i \in Nat /\ trail[i].lit = -l
         /\ l = -trail[i].lit
         /\ level(Core, l) = levelAt(Core, i) /\ level(Core, l) \in 0..Len(trail_lim)
         /\ user_level(Core, l) = trail[i].user /\ user_level(Core, l) \in 0..assertionLevel
         /\ level(Core, l) = 0 <=> AtZero(trail_lim, i)
         /\ level(Core, l) = Len(trail_lim) <=> AtTop(trail_lim, i)
         /\ intro[Abs(l)] \in 0..trail[i].user
<1>1. /\ trail \in Seq(Entry) /\ Len(trail) \in Nat /\ DOMAIN trail = 1..Len(trail)
      /\ \A j \in DOMAIN trail : trail[j].lit \in Lit
      /\ Graph(trail, ca, intro, assertionLevel) /\ Decisions(trail, trail_lim, qhead)
  BY TrailShape
<1>2. Core.trail = trail /\ Core.trail_lim = trail_lim /\ Core.qhead = qhead
  BY CoreShape
<1> HIDE DEF SoundInv
<1>3. PICK j \in DOMAIN trail : trail[j].lit = -l
  BY <1>2 DEF IsFalse, Lits
<1>4. l = -trail[j].lit /\ Abs(trail[j].lit) = Abs(l)
  BY <1>1, <1>3, LitFacts
<1>5. /\ trail_index(Core, l) = j /\ level(Core, l) = levelAt(Core, j)
      /\ user_level(Core, l) = trail[j].user
  BY <1>1, <1>2, <1>4, AssignedAt
<1>6. j \in Int /\ j \in Nat
  BY <1>1
<1>7. /\ levelAt(Core, j) \in 0..Len(trail_lim)
      /\ levelAt(Core, j) = 0 <=> AtZero(trail_lim, j)
      /\ levelAt(Core, j) = Len(trail_lim) <=> AtTop(trail_lim, j)
  BY <1>1, <1>2, <1>6, LevelIs
<1>8. /\ trail[j].user \in 0..MaxLevel /\ trail[j].user <= assertionLevel
      /\ intro[Abs(trail[j].lit)] \in 0..trail[j].user
  BY <1>1, EntryLits DEF Graph
<1>9. trail[j].user \in 0..assertionLevel
  <2>1. assertionLevel \in Nat
    BY SoundParts
  <2> QED  BY <1>8, <2>1
<1> QED  BY <1>1, <1>3, <1>4, <1>5, <1>6, <1>7, <1>8, <1>9

\* The clause C is false, none of its literals at level 0, and follows up to level w.
Resolvent(C, w) ==
  /\ C \in SUBSET Lit /\ \A l \in C : IsFalse(Core, l) /\ level(Core, l) # 0
  /\ w \in 0..assertionLevel
  /\ Follow(C, w, intro, inputs)

\* A literal and its negation are resolved upon.
LEMMA Resolved ==
  ASSUME NEW ins, NEW u \in Nat, NEW v \in Nat, NEW w \in Nat, u <= w, v <= w,
         NEW C \in SUBSET Lit, NEW D \in SUBSET Lit, NEW l \in Lit,
         Entails(AssertedIn(ins, u), C), Entails(AssertedIn(ins, v), D \cup {l})
  PROVE  Entails(AssertedIn(ins, w), (C \ {-l}) \cup D)
<1> DEFINE U == AssertedIn(ins, u)
           V == AssertedIn(ins, v)
           W == AssertedIn(ins, w)
<1>1. U \subseteq W /\ V \subseteq W
  BY AssertedMore
<1>2. \A A : Models(A, W) => Models(A, U) /\ Models(A, V)
  BY <1>1 DEF Models
<1>3. D \cup {l} \in SUBSET Lit /\ (C \ {-l}) \cup D \in SUBSET Lit
  OBVIOUS
<1> HIDE DEF U, V, W
<1>4. ASSUME NEW A, Models(A, W)
      PROVE  ((C \ {-l}) \cup D) \cap A # {}
  <2>1. C \cap A # {}
    BY <1>2, <1>4, EntailsModels DEF U
  <2>2. (D \cup {l}) \cap A # {}
    BY <1>2, <1>3, <1>4, EntailsModels DEF V
  <2>3. A \in Assignments
    BY <1>4 DEF Models
  <2>4. l \in A => -l \notin A
    BY <2>3, AssignmentLits
  <2> QED  BY <2>1, <2>2, <2>4
<1>5. Entails(W, (C \ {-l}) \cup D)
  BY <1>3, <1>4, EntailsModels
<1> QED  BY <1>5 DEF W

\* The literals of level 0 are left out of the clause C, and of C with the literals X.
LEMMA PartIs ==
  ASSUME SoundInv, NEW C \in SUBSET Lit, \A l \in C : IsFalse(Core, l),
         NEW lev \in 0..assertionLevel, NEW X \in SUBSET Lit,
         Entails(AssertedIn(inputs, lev), C \cup X)
  PROVE  LET p == Part(C, lev) IN
         /\ p.lits = {l \in C : level(Core, l) # 0}
         /\ p.level \in 0..assertionLevel /\ lev <= p.level
         /\ Entails(AssertedIn(inputs, p.level), p.lits \cup X)
<1> DEFINE zero == {l \in C : level(Core, l) = 0}
           U == {lev} \cup {user_level(Core, l) : l \in zero}
           w == Max(U)
           D == (C \ zero) \cup X
<1>1. Part(C, lev).lits = C \ zero /\ Part(C, lev).level = w
  BY DEF Part
<1>2. Sound(Core, ca, intro, assertionLevel, inputs) /\ assertionLevel \in Nat
  BY SoundParts
<1>3. \A l \in C : LET i == trail_index(Core, l) IN
        /\ i \in DOMAIN trail /\ trail[i].lit = -l
        /\ user_level(Core, l) = trail[i].user /\ user_level(Core, l) \in 0..assertionLevel
        /\ level(Core, l) = 0 <=> AtZero(trail_lim, i)
  BY FalseIndex
<1>4. Core.trail = trail /\ Core.trail_lim = trail_lim
  BY CoreShape
<1>5. trail \in Seq(Entry) /\ Fixed(trail, trail_lim, inputs)
  BY <1>2, <1>4 DEF Sound, Graph
<1> HIDE DEF SoundInv
<1>6. U \subseteq 0..assertionLevel /\ lev \in U
  BY <1>3
<1>7. w \in U /\ \A y \in U : y <= w
  <2> HIDE DEF U
  <2>1. U # {}
    BY <1>6
  <2> QED  BY <1>2, <1>6, <2>1, BoundedMax
<1>8. w \in 0..assertionLevel /\ lev <= w
  BY <1>6, <1>7
<1>9. \A l \in zero : user_level(Core, l) <= w
  BY <1>7
<1> HIDE DEF w, U
<1>10. \A l \in (C \cup X) \ D : \E i \in DOMAIN trail :
         trail[i].lit = -l /\ AtZero(trail_lim, i) /\ trail[i].user <= w
  BY <1>3, <1>9
<1>11. D \subseteq C \cup X /\ C \cup X \in SUBSET Lit /\ lev \in Nat /\ w \in Nat
  BY <1>2, <1>8
<1> HIDE DEF D
<1>12. Entails(AssertedIn(inputs, w), D)
  BY <1>5, <1>8, <1>10, <1>11, Dropped
<1>13. C \ zero = {l \in C : level(Core, l) # 0}
  OBVIOUS
<1> QED  BY <1>1, <1>8, <1>12, <1>13 DEF D

\* What the reason of an entry gives.
LEMMA ReasonFollows ==
  ASSUME Inv, SoundInv, NEW i \in DOMAIN trail, trail[i].reason # Undef
  PROVE  /\ Premises(trail[i]) \in SUBSET Lit
         /\ \A l \in Premises(trail[i]) : IsFalse(Core, l) /\ trail_index(Core, l) < i
         /\ ReasonLevel(trail[i]) \in 0..trail[i].user
         /\ Follow(Premises(trail[i]) \cup {trail[i].lit}, ReasonLevel(trail[i]), intro, inputs)
         /\ trail[i].reason = Lazy =>
              /\ trail[i].why \in Theory /\ trail[i].lit \in trail[i].why
              /\ trail[i].why # {trail[i].lit} /\ trail[i].why \in SUBSET Lit
              /\ Premises(trail[i]) = trail[i].why \ {trail[i].lit}
              /\ ReasonLevel(trail[i]) = MaxIntro(intro, trail[i].why)
<1> DEFINE e == trail[i]
<1>1. /\ trail \in Seq(Entry) /\ Len(trail) \in Nat /\ DOMAIN trail = 1..Len(trail)
      /\ \A j \in DOMAIN trail : trail[j].lit \in Lit
      /\ Graph(trail, ca, intro, assertionLevel) /\ Decisions(trail, trail_lim, qhead)
  BY TrailShape
<1>2. Core.trail = trail /\ Core.trail_lim = trail_lim /\ Core.qhead = qhead
  BY CoreShape
<1>3. Database(ca, intro, assertionLevel, inputs) /\ assertionLevel \in Nat
  BY SoundParts
<1>4. problem \in Problems
  BY InvCore
<1> HIDE DEF SoundInv, Inv
<1>5. /\ e.lit \in Lit /\ e.reason \in Nat \cup {Lazy} /\ e.user \in 0..MaxLevel /\ e.user \in Nat
  <2>1. e.lit \in Lit /\ e.reason \in Nat \cup {Lazy} /\ e.user \in 0..MaxLevel
    BY <1>1, EntryLits
  <2> QED  BY <2>1
<1>6. Rests(trail, ca, i)
  BY <1>1 DEF Graph
<1>7. /\ \A j, k \in DOMAIN trail : Abs(trail[j].lit) = Abs(trail[k].lit) => j = k
      /\ \A j \in DOMAIN trail : intro[Abs(trail[j].lit)] \in 0..trail[j].user
      /\ \A j, k \in DOMAIN trail : j <= k => trail[j].user <= trail[k].user
  BY <1>1 DEF Graph
<1>8. Premises(e) = PremisesIn(ca, e)
  BY DEF Premises, PremisesIn, Clause
<1>9. /\ e.reason > 0 \/ e.reason = Lazy
      /\ e.reason = Lazy => e.reason # Undef /\ PremisesIn(ca, e) = e.why \ {e.lit}
      /\ e.reason > 0 => e.reason # Lazy
                         /\ PremisesIn(ca, e) = ToSet(ca[e.reason].lits) \ {e.lit}
  BY <1>5, PremisesAre, Zenon
<1>10. CASE e.reason = Lazy
  <2>1. e.why \in Theory /\ e.lit \in e.why /\ e.why # {e.lit} /\ e.why \in SUBSET Lit
    BY <1>4, <1>6, <1>10, ProblemTyped DEF Rests
  <2>2. Premises(e) = e.why \ {e.lit} /\ ReasonLevel(e) = MaxIntro(intro, e.why)
    BY <1>8, <1>9, <1>10 DEF ReasonLevel
  <2>3. Premises(e) \in SUBSET Lit
    BY <2>1, <2>2
  <2>4. ASSUME NEW l \in Premises(e)
        PROVE  IsFalse(Core, l) /\ trail_index(Core, l) < i /\ intro[Abs(l)] \in 0..e.user
    <3>1. PICK j \in DOMAIN trail : j < i /\ trail[j].lit = -l
      BY <1>6, <1>8 DEF Rests, FalseBefore
    <3>2. l \in Lit /\ l = -trail[j].lit /\ Abs(l) = Abs(trail[j].lit)
      BY <1>1, <2>3, <3>1, LitFacts
    <3>3. trail_index(Core, l) = j
      BY <1>1, <1>2, <3>2, AssignedAt
    <3>4. intro[Abs(l)] \in 0..trail[j].user /\ trail[j].user <= e.user /\ trail[j].user \in 0..MaxLevel
      BY <1>1, <1>7, <3>1, <3>2, EntryLits
    <3>5. intro[Abs(l)] \in 0..e.user
      BY <1>5, <3>4
    <3> QED  BY <1>2, <3>1, <3>3, <3>5 DEF IsFalse, Lits
  <2>5. \A v \in Vars(e.why) : intro[v] \in 0..e.user
    <3> SUFFICES ASSUME NEW l \in e.why
                 PROVE  intro[Abs(l)] \in 0..e.user
      BY DEF Vars
    <3>1. l = e.lit \/ l \in Premises(e)
      BY <2>2
    <3> QED  BY <1>7, <2>4, <3>1
  <2> HIDE DEF e
  <2>6. /\ MaxIntro(intro, e.why) \in 0..e.user
        /\ \A v \in Vars(e.why) : intro[v] \in 0..MaxIntro(intro, e.why)
    BY <1>5, <2>5, MaxIntroIs
  <2>7. Premises(e) \cup {e.lit} = e.why
    BY <2>1, <2>2
  <2>8. MaxIntro(intro, e.why) \in Nat
    BY <2>6
  <2>9. Entails(AssertedIn(inputs, MaxIntro(intro, e.why)), e.why)
    BY <2>1, <2>8, MemberEntailed
  <2>10. Follow(e.why, MaxIntro(intro, e.why), intro, inputs)
    BY <2>6, <2>9 DEF Follow
  <2> QED  BY <2>1, <2>2, <2>3, <2>4, <2>6, <2>7, <2>10 DEF e
<1>11. CASE e.reason > 0
  <2>1. /\ e.reason \in DOMAIN ca /\ ca[e.reason].lits[1] = e.lit
        /\ ca[e.reason].level <= e.user
    BY <1>6, <1>11 DEF Rests
  <2>2. /\ ToSet(ca[e.reason].lits) \in SUBSET Lit /\ ca[e.reason].level \in Nat
        /\ Follow(ToSet(ca[e.reason].lits), ca[e.reason].level, intro, inputs)
        /\ Len(ca[e.reason].lits) \in Nat /\ Len(ca[e.reason].lits) > 1
        /\ \A k \in 1..Len(ca[e.reason].lits) : ca[e.reason].lits[k] \in ToSet(ca[e.reason].lits)
    BY <1>3, <2>1, ClauseAt
  <2>3. ReasonLevel(e) = ca[e.reason].level /\ e.reason # Lazy
        /\ Premises(e) = ToSet(ca[e.reason].lits) \ {e.lit}
    BY <1>8, <1>9, <1>11 DEF ReasonLevel
  <2>4. e.lit \in ToSet(ca[e.reason].lits)
    <3>1. 1 \in 1..Len(ca[e.reason].lits)
      BY <2>2
    <3> QED  BY <2>1, <2>2, <3>1
  <2>5. Premises(e) \cup {e.lit} = ToSet(ca[e.reason].lits)
    BY <2>3, <2>4
  <2>6. ASSUME NEW l \in Premises(e)
        PROVE  IsFalse(Core, l) /\ trail_index(Core, l) < i
    <3>1. PICK j \in DOMAIN trail : j < i /\ trail[j].lit = -l
      BY <1>6, <1>8 DEF Rests, FalseBefore
    <3>2. l \in Lit /\ l = -trail[j].lit
      BY <1>1, <2>2, <2>3, <3>1, LitFacts
    <3>3. trail_index(Core, l) = j
      BY <1>1, <1>2, <3>2, AssignedAt
    <3> QED  BY <1>2, <3>1, <3>3 DEF IsFalse, Lits
  <2>7. ReasonLevel(e) \in 0..e.user
    BY <1>5, <2>1, <2>2, <2>3
  <2> HIDE DEF e
  <2> QED  BY <2>2, <2>3, <2>5, <2>6, <2>7 DEF e
<1> QED  BY <1>9, <1>10, <1>11

\* The steps of Resolution: what it begins with, and what the entry i makes of r.
FirstResolvent ==
  LET p == Part(Clause(confl), ca[confl].level) IN
  [lits |-> p.lits, level |-> p.level, on |-> {}]

ResolveAt(r, i) ==
  IF -trail[i].lit \notin r.lits \/ Cardinality(AtCurrent(r.lits)) = 1
    THEN r
    ELSE LET p == Part(Premises(trail[i]), ReasonLevel(trail[i])) IN
         [lits  |-> (r.lits \ {-trail[i].lit}) \cup p.lits,
          level |-> Max({r.level, p.level}),
          on    |-> r.on \cup {i}]

ResolvesFrom(f, n) ==
  f = [i \in n..Len(trail) |-> IF i = Len(trail) THEN FirstResolvent ELSE ResolveAt(f[i + 1], i + 1)]

\* There is such a function.
LEMMA ResolvesExists ==
  ASSUME Len(trail) \in Nat
  PROVE  \E f : ResolvesFrom(f, 0)
<1> DEFINE L == Len(trail)
           T == {j \in 0..L : ~ \E f : ResolvesFrom(f, L - j)}
           m == Min(T)
<1> HIDE DEF L
<1>0. L \in Nat
  BY DEF L
<1>1. CASE T = {}
  <2>1. \A j \in 0..L : \E f : ResolvesFrom(f, L - j)
    BY <1>1
  <2>2. L \in 0..L /\ L - L = 0
    BY <1>0
  <2> QED  BY <2>1, <2>2
<1>2. CASE T # {}
  <2>1. m \in T /\ \A j \in T : m <= j
    <3>1. T \subseteq Nat
      BY <1>0
    <3> HIDE DEF T
    <3> QED  BY <1>2, <3>1, NatMin
  <2>2. m \in 0..L
    BY <2>1
  <2> HIDE DEF m
  <2>3. CASE m = 0
    <3> DEFINE f == [i \in L..L |-> FirstResolvent]
    <3>1. \A i \in L..L : i = L
      BY <1>0
    <3>2. f = [i \in L..L |-> IF i = L THEN FirstResolvent ELSE ResolveAt(f[i + 1], i + 1)]
      BY <3>1
    <3> HIDE DEF f
    <3>3. ResolvesFrom(f, L - 0) /\ L - 0 = L
      BY <1>0, <3>2 DEF ResolvesFrom, L
    <3> QED  BY <2>1, <2>3, <3>3
  <2>4. CASE m # 0
    <3> DEFINE n == L - m
    <3>1. n \in Nat /\ n < L /\ n + 1 \in Nat /\ L - (m - 1) = n + 1 /\ m - 1 \in 0..L /\ ~ (m <= m - 1)
          /\ n # L
      BY <1>0, <2>2, <2>4
    <3>2. m - 1 \notin T
      BY <2>1, <3>1
    <3>3. PICK f : ResolvesFrom(f, n + 1)
      BY <3>1, <3>2
    <3> DEFINE step(i, r) == IF i = L THEN FirstResolvent ELSE ResolveAt(r, i + 1)
               g == [i \in n..L |-> IF i = n THEN ResolveAt(f[n + 1], n + 1) ELSE f[i]]
    <3> HIDE DEF n
    <3>4. f = [i \in (n + 1)..L |-> step(i, f[i + 1])]
      BY <3>3, Zenon DEF ResolvesFrom, L
    <3>5. ASSUME NEW i \in n..L
          PROVE  g[i] = step(i, g[i + 1])
      <4>1. CASE i = n
        <5>1. n + 1 \in n..L /\ n + 1 # n
          BY <1>0, <3>1
        <5>2. g[n + 1] = f[n + 1]
          BY <5>1
        <5>3. g[n] = ResolveAt(f[n + 1], n + 1)
          BY <4>1
        <5> QED  BY <3>1, <4>1, <5>2, <5>3
      <4>2. CASE i # n /\ i = L
        <5>1. g[i] = f[i] /\ i \in (n + 1)..L
          BY <1>0, <3>1, <4>2
        <5>2. f[i] = step(i, f[i + 1])
          <6> HIDE DEF step
          <6> QED  BY <3>4, <5>1
        <5> QED  BY <4>2, <5>1, <5>2
      <4>3. CASE i # n /\ i # L
        <5>1. i \in (n + 1)..L /\ i + 1 \in n..L /\ i + 1 # n
          BY <1>0, <3>1, <4>3
        <5>2. g[i] = f[i] /\ g[i + 1] = f[i + 1]
          BY <4>3, <5>1
        <5>3. f[i] = step(i, f[i + 1])
          <6> HIDE DEF step
          <6> QED  BY <3>4, <5>1
        <5> HIDE DEF step, g
        <5> QED  BY <5>2, <5>3
      <4> QED  BY <4>1, <4>2, <4>3
    <3>6. g = [i \in n..L |-> g[i]]
      OBVIOUS
    <3> HIDE DEF g
    <3>7. g = [i \in n..L |-> step(i, g[i + 1])]
      <4> HIDE DEF step
      <4> QED  BY <3>5, <3>6
    <3>8. ResolvesFrom(g, n)
      BY <3>7, Zenon DEF ResolvesFrom, L
    <3> QED  BY <2>1, <3>8 DEF n
  <2> QED  BY <2>3, <2>4
<1> QED  BY <1>1, <1>2

\* Resolution goes through the trail with such a function.
LEMMA ResolutionSteps ==
  ASSUME Len(trail) \in Nat
  PROVE  \E f : /\ Resolution = f[0] /\ f[Len(trail)] = FirstResolvent
                /\ \A i \in 1..Len(trail) : f[i - 1] = ResolveAt(f[i], i)
<1> DEFINE f == CHOOSE g : ResolvesFrom(g, 0)
<1>1. ResolvesFrom(f, 0)
  BY ResolvesExists
<1>2. Resolution = f[0]
  BY DEF Resolution, ResolvesFrom, FirstResolvent, ResolveAt
<1> HIDE DEF f
<1> DEFINE L == Len(trail)
           step(i) == IF i = L THEN FirstResolvent ELSE ResolveAt(f[i + 1], i + 1)
<1>3. f = [i \in 0..L |-> step(i)]
  BY <1>1, Zenon DEF ResolvesFrom
<1>4. \A i \in 0..L : f[i] = step(i)
  <2> HIDE DEF step
  <2> QED  BY <1>3
<1>5. f[L] = FirstResolvent
  BY <1>4
<1>6. \A i \in 1..L : f[i - 1] = ResolveAt(f[i], i)
  <2> SUFFICES ASSUME NEW i \in 1..L
               PROVE  f[i - 1] = ResolveAt(f[i], i)
    OBVIOUS
  <2> HIDE DEF L
  <2>1. L \in Nat
    BY DEF L
  <2>2. i - 1 \in 0..L /\ i - 1 # L /\ (i - 1) + 1 = i
    BY <2>1
  <2>3. f[i - 1] = step(i - 1)
    BY <1>4, <2>2
  <2>4. step(i - 1) = ResolveAt(f[(i - 1) + 1], (i - 1) + 1)
    BY <2>2
  <2> HIDE DEF step
  <2> QED  BY <2>2, <2>3, <2>4
<1> QED  BY <1>2, <1>5, <1>6

\* What holds of the result of the resolution with the entries after i.
Resolving(r, i) ==
  /\ Resolvent(r.lits, r.level)
  /\ AtCurrent(r.lits) # {}
  /\ Cardinality(AtCurrent(r.lits)) = 1 \/ \A l \in AtCurrent(r.lits) : trail_index(Core, l) <= i

\* A false literal of the current decision level.
LEMMA CurrentIs ==
  ASSUME SoundInv, NEW C, NEW w, Resolvent(C, w)
  PROVE  /\ C \in SUBSET Lit /\ IsFiniteSet(AtCurrent(C))
         /\ \A l \in C : LET j == trail_index(Core, l) IN
              /\ l \in Lit /\ IsFalse(Core, l) /\ level(Core, l) # 0
              /\ j \in DOMAIN trail /\ j \in 1..Len(trail) /\ j \in Nat /\ l = -trail[j].lit
              /\ trail[j].lit = -l
              /\ l \in AtCurrent(C) <=> AtTop(trail_lim, j)
              /\ ~AtZero(trail_lim, j)
<1>1. C \in SUBSET Lit /\ \A l \in C : IsFalse(Core, l) /\ level(Core, l) # 0
  BY DEF Resolvent
<1>2. IsFiniteSet(AtCurrent(C))
  <2>1. AtCurrent(C) \subseteq Lit
    BY <1>1 DEF AtCurrent
  <2> QED  BY <2>1, LitFinite, FS_Subset
<1>3. decisionLevel(Core) = Len(trail_lim)
  BY CoreShape DEF decisionLevel
<1> HIDE DEF SoundInv
<1>4. ASSUME NEW l \in C, NEW j, j = trail_index(Core, l)
      PROVE  /\ l \in Lit /\ IsFalse(Core, l) /\ level(Core, l) # 0
             /\ j \in DOMAIN trail /\ j \in 1..Len(trail) /\ j \in Nat /\ l = -trail[j].lit
             /\ trail[j].lit = -l
             /\ l \in AtCurrent(C) <=> AtTop(trail_lim, j)
             /\ ~AtZero(trail_lim, j)
  <2>1. l \in Lit /\ IsFalse(Core, l) /\ level(Core, l) # 0
    BY <1>1
  <2>2. /\ j \in DOMAIN trail /\ j \in 1..Len(trail) /\ j \in Nat /\ l = -trail[j].lit
        /\ trail[j].lit = -l
        /\ level(Core, l) = 0 <=> AtZero(trail_lim, j)
        /\ level(Core, l) = Len(trail_lim) <=> AtTop(trail_lim, j)
    BY <1>4, <2>1, FalseIndex
  <2>3. l \in AtCurrent(C) <=> level(Core, l) = Len(trail_lim)
    BY <1>3 DEF AtCurrent
  <2> QED  BY <2>1, <2>2, <2>3
<1> QED  BY <1>1, <1>2, <1>4

\* An entry of the current decision level after another one is not a decision.
LEMMA CurrentReason ==
  ASSUME SoundInv, trail_lim # <<>>, NEW i \in DOMAIN trail, NEW j \in DOMAIN trail, j < i,
         AtTop(trail_lim, j)
  PROVE  AtTop(trail_lim, i) /\ trail[i].reason # Undef
<1>1. Decisions(trail, trail_lim, qhead) /\ DOMAIN trail = 1..Len(trail)
      /\ \A k \in DOMAIN trail_lim : trail_lim[k] \in Nat
  BY TrailShape
<1>2. i \in Int /\ j \in Int
  BY <1>1
<1> HIDE DEF SoundInv
<1>3. AtTop(trail_lim, i)
  BY <1>1, <1>2 DEF AtTop
<1>4. ~AtZero(trail_lim, i)
  BY <1>1, <1>2, <1>3, AtZeroLevels
<1>5. \A k \in DOMAIN trail_lim : i # trail_lim[k] + 1
  BY <1>1, <1>2 DEF AtTop
<1> QED  BY <1>1, <1>3, <1>4, <1>5 DEF Decisions

\* One set has an element besides a given one.
LEMMA NotAlone ==
  ASSUME NEW S, IsFiniteSet(S), S # {}, Cardinality(S) # 1, NEW x
  PROVE  \E y \in S : y # x
<1> SUFFICES ASSUME \A y \in S : y = x
             PROVE  FALSE
  OBVIOUS
<1>1. S = {x}
  OBVIOUS
<1> QED  BY <1>1, FS_Singleton

\* The other one of two.
LEMMA LargerOf ==
  ASSUME NEW a \in Nat, NEW b \in Nat
  PROVE  LET w == Max({a, b}) IN w \in {a, b} /\ a <= w /\ b <= w
<1>1. PICK n \in Nat : {a, b} \subseteq 0..n
  <2>1. a + b \in Nat /\ {a, b} \subseteq 0..(a + b)
    OBVIOUS
  <2> QED  BY <2>1
<1> DEFINE T == {a, b}
<1>2. T # {} /\ a \in T /\ b \in T /\ T \subseteq 0..n
  BY <1>1
<1> HIDE DEF T
<1>3. Max(T) \in T /\ \A y \in T : y <= Max(T)
  BY <1>2, BoundedMax
<1> QED  BY <1>2, <1>3 DEF T

\* The premises of the entry i replace it.
LEMMA ResolveStep ==
  ASSUME Inv, SoundInv, trail_lim # <<>>, NEW i \in 1..Len(trail), NEW r, Resolving(r, i),
         NEW q, q = ResolveAt(r, i)
  PROVE  Resolving(q, i - 1)
<1> DEFINE e == trail[i]
           C == r.lits
           p == Part(Premises(e), ReasonLevel(e))
           D == (C \ {-e.lit}) \cup p.lits
           w == Max({r.level, p.level})
<1>1. /\ trail \in Seq(Entry) /\ Len(trail) \in Nat /\ DOMAIN trail = 1..Len(trail)
      /\ \A j \in DOMAIN trail : trail[j].lit \in Lit
  BY TrailShape
<1>2. i \in DOMAIN trail /\ e.lit \in Lit /\ i \in Nat /\ -e.lit \in Lit /\ e.lit = -(-e.lit)
  BY <1>1, LitFacts
<1>3. Resolvent(C, r.level) /\ AtCurrent(C) # {}
      /\ (Cardinality(AtCurrent(C)) = 1 \/ \A l \in AtCurrent(C) : trail_index(Core, l) <= i)
  BY DEF Resolving
<1>4. /\ C \in SUBSET Lit /\ IsFiniteSet(AtCurrent(C))
      /\ \A l \in C : LET j == trail_index(Core, l) IN
              /\ l \in Lit /\ IsFalse(Core, l) /\ level(Core, l) # 0
              /\ j \in DOMAIN trail /\ j \in 1..Len(trail) /\ j \in Nat /\ l = -trail[j].lit
              /\ trail[j].lit = -l
              /\ l \in AtCurrent(C) <=> AtTop(trail_lim, j)
              /\ ~AtZero(trail_lim, j)
  BY <1>3, CurrentIs
<1>5. assertionLevel \in Nat
  BY SoundParts
<1> HIDE DEF SoundInv, Inv
<1>6. CASE Cardinality(AtCurrent(C)) = 1
  <2>1. q = r
    BY <1>6 DEF ResolveAt
  <2> QED  BY <1>3, <1>6, <2>1 DEF Resolving
<1>7. CASE Cardinality(AtCurrent(C)) # 1 /\ -e.lit \notin C
  <2>1. q = r
    BY <1>7 DEF ResolveAt
  <2>2. ASSUME NEW l \in AtCurrent(C)
        PROVE  trail_index(Core, l) <= i - 1
    <3>1. l \in C
      BY DEF AtCurrent
    <3>2. trail_index(Core, l) <= i /\ trail_index(Core, l) # i
      BY <1>3, <1>4, <1>7, <3>1
    <3> QED  BY <1>2, <1>4, <3>1, <3>2
  <2> QED  BY <1>3, <2>1, <2>2 DEF Resolving
<1>8. CASE Cardinality(AtCurrent(C)) # 1 /\ -e.lit \in C
  <2>1. q.lits = D /\ q.level = w
    BY <1>8 DEF ResolveAt
  <2>2. PICK m \in AtCurrent(C) : m # -e.lit
    <3> DEFINE S == AtCurrent(C)
    <3>1. IsFiniteSet(S) /\ S # {} /\ Cardinality(S) # 1
      BY <1>3, <1>4, <1>8
    <3> HIDE DEF S
    <3>2. \E y \in S : y # -e.lit
      BY <3>1, NotAlone
    <3> QED  BY <3>2 DEF S
  <2>3. m \in C /\ level(Core, m) = decisionLevel(Core)
    BY DEF AtCurrent
  <2> DEFINE j == trail_index(Core, m)
  <2>4. j \in DOMAIN trail /\ AtTop(trail_lim, j) /\ j <= i /\ j # i /\ j \in Nat
    BY <1>3, <1>4, <1>8, <2>2, <2>3
  <2>5. j < i
    BY <1>2, <2>4
  <2>6. trail[i].reason # Undef
    BY <1>2, <2>4, <2>5, CurrentReason
  <2>7. /\ Premises(e) \in SUBSET Lit
        /\ \A l \in Premises(e) : IsFalse(Core, l) /\ trail_index(Core, l) < i
        /\ ReasonLevel(e) \in 0..e.user
        /\ Follow(Premises(e) \cup {e.lit}, ReasonLevel(e), intro, inputs)
    BY <1>2, <2>6, ReasonFollows
  <2>8. ReasonLevel(e) \in 0..assertionLevel
    <3>1. e.user \in Nat /\ e.user <= assertionLevel
      BY <1>2, CoreShape, SoundParts, SoundShape
    <3> QED  BY <1>5, <2>7, <3>1
  <2> DEFINE X == {e.lit}
  <2>9. X \in SUBSET Lit /\ Entails(AssertedIn(inputs, ReasonLevel(e)), Premises(e) \cup X)
    BY <1>2, <2>7 DEF Follow
  <2>10. /\ p.lits = {l \in Premises(e) : level(Core, l) # 0}
         /\ p.level \in 0..assertionLevel /\ ReasonLevel(e) <= p.level
         /\ Entails(AssertedIn(inputs, p.level), p.lits \cup X)
    <3> HIDE DEF X, e
    <3> QED  BY <2>7, <2>8, <2>9, PartIs
  <2> HIDE DEF p
  <2>11. r.level \in 0..assertionLevel /\ Follow(C, r.level, intro, inputs)
    BY <1>3 DEF Resolvent
  <2>12. r.level \in Nat /\ p.level \in Nat /\ ReasonLevel(e) \in Nat
    BY <1>5, <2>8, <2>10, <2>11
  <2>13. w \in {r.level, p.level} /\ r.level <= w /\ p.level <= w
    BY <2>12, LargerOf
  <2> HIDE DEF w
  <2>14. w \in Nat /\ w \in 0..assertionLevel
    BY <2>10, <2>11, <2>12, <2>13
  <2>15. p.lits \in SUBSET Lit
    BY <2>7, <2>10
  <2>16. Entails(AssertedIn(inputs, w), D)
    <3>1. Entails(AssertedIn(inputs, r.level), C)
      BY <2>11 DEF Follow
    <3>2. Entails(AssertedIn(inputs, p.level), p.lits \cup {e.lit})
      BY <2>10
    <3> HIDE DEF e, C
    <3> QED  BY <1>2, <1>4, <2>12, <2>13, <2>14, <2>15, <3>1, <3>2, Resolved
  <2>17. D \in SUBSET Lit
    BY <1>4, <2>15
  <2>18. ASSUME NEW l \in D
         PROVE  /\ IsFalse(Core, l) /\ level(Core, l) # 0
                /\ intro[Abs(l)] \in 0..w
                /\ l \in AtCurrent(D) => trail_index(Core, l) <= i - 1
    <3>1. CASE l \in p.lits
      <4>1. l \in Premises(e) /\ level(Core, l) # 0 /\ IsFalse(Core, l) /\ l \in Lit
            /\ trail_index(Core, l) < i
        BY <2>7, <2>10, <3>1
      <4>2. intro[Abs(l)] \in 0..ReasonLevel(e)
        BY <2>7, <4>1 DEF Follow, Vars
      <4>3. intro[Abs(l)] \in 0..w
        BY <2>10, <2>12, <2>13, <2>14, <4>2
      <4>4. trail_index(Core, l) \in Nat
        BY <4>1, FalseIndex
      <4> QED  BY <1>2, <4>1, <4>3, <4>4
    <3>2. CASE l \in C /\ l # -e.lit
      <4>1. IsFalse(Core, l) /\ level(Core, l) # 0 /\ trail_index(Core, l) \in Nat
            /\ l = -trail[trail_index(Core, l)].lit
        BY <1>4, <3>2
      <4>2. intro[Abs(l)] \in 0..r.level
        BY <2>11, <3>2 DEF Follow, Vars
      <4>3. intro[Abs(l)] \in 0..w
        BY <2>12, <2>13, <2>14, <4>2
      <4>4. trail_index(Core, l) # i
        BY <3>2, <4>1
      <4>5. l \in AtCurrent(D) => trail_index(Core, l) <= i
        BY <1>3, <1>8, <3>2 DEF AtCurrent
      <4> QED  BY <1>2, <4>1, <4>3, <4>4, <4>5
    <3> QED  BY <3>1, <3>2
  <2>19. \A v \in Vars(D) : intro[v] \in 0..w
    BY <2>18 DEF Vars
  <2>20. m \in AtCurrent(D)
    BY <2>2, <2>3 DEF AtCurrent
  <2> HIDE DEF D
  <2>21. Resolvent(D, w)
    BY <2>14, <2>16, <2>17, <2>18, <2>19 DEF Resolvent, Follow
  <2>22. \A l \in AtCurrent(D) : l \in D
    BY DEF AtCurrent
  <2> QED  BY <2>1, <2>18, <2>20, <2>21, <2>22 DEF Resolving
<1> QED  BY <1>6, <1>7, <1>8

\* It begins with the conflict.
LEMMA ResolutionBegins ==
  ASSUME Inv, SoundInv, trail_lim # <<>>,
         ConflictIn(confl, trail, trail_lim, ca, assertionLevel, inputs)
  PROVE  Resolving(FirstResolvent, Len(trail))
<1> DEFINE C == Clause(confl)
           lev == ca[confl].level
           p == Part(C, lev)
<1>1. /\ confl \in DOMAIN ca /\ \A l \in C : -l \in Lits(trail)
      /\ \E i \in DOMAIN trail : -trail[i].lit \in C /\ AtTop(trail_lim, i)
  BY DEF ConflictIn, Clause
<1>2. /\ Database(ca, intro, assertionLevel, inputs) /\ assertionLevel \in Nat
  BY SoundParts
<1>3. /\ trail \in Seq(Entry) /\ Len(trail) \in Nat /\ DOMAIN trail = 1..Len(trail)
      /\ \A j \in DOMAIN trail : trail[j].lit \in Lit
      /\ Decisions(trail, trail_lim, qhead)
  BY TrailShape
<1>4. C \in SUBSET Lit /\ lev \in Nat /\ lev <= assertionLevel /\ Follow(C, lev, intro, inputs)
  BY <1>1, <1>2, ClauseAt DEF Clause
<1>5. \A l \in C : IsFalse(Core, l)
  BY <1>1, CoreShape DEF IsFalse
<1> HIDE DEF C, lev, Inv
<1>6. lev \in 0..assertionLevel
  BY <1>2, <1>4
<1>7. PICK X : X = {}
  OBVIOUS
<1>8. X \in SUBSET Lit /\ C \cup X = C /\ Entails(AssertedIn(inputs, lev), C \cup X)
  BY <1>4, <1>7 DEF Follow
<1>9. /\ p.lits = {l \in C : level(Core, l) # 0}
      /\ p.level \in 0..assertionLevel /\ lev <= p.level
      /\ Entails(AssertedIn(inputs, p.level), p.lits \cup X)
  BY <1>4, <1>5, <1>6, <1>8, PartIs
<1>10. FirstResolvent.lits = p.lits /\ FirstResolvent.level = p.level
  BY DEF FirstResolvent, C, lev
<1> HIDE DEF p
<1>11. p.lits \in SUBSET Lit /\ p.lits \cup X = p.lits
  BY <1>4, <1>7, <1>9
<1>12. \A v \in Vars(p.lits) : intro[v] \in 0..p.level
  <2> SUFFICES ASSUME NEW l \in p.lits
               PROVE  intro[Abs(l)] \in 0..p.level
    BY DEF Vars
  <2>1. intro[Abs(l)] \in 0..lev
    BY <1>4, <1>9 DEF Follow, Vars
  <2>2. p.level \in Nat
    BY <1>2, <1>9
  <2> QED  BY <1>4, <1>9, <2>1, <2>2
<1>13. Resolvent(p.lits, p.level)
  BY <1>5, <1>9, <1>11, <1>12 DEF Resolvent, Follow
<1>14. PICK i \in DOMAIN trail : -trail[i].lit \in C /\ AtTop(trail_lim, i)
  BY <1>1
<1>15. -trail[i].lit \in AtCurrent(p.lits)
  <2> DEFINE l == -trail[i].lit
  <2>1. l \in Lit /\ trail[i].lit = -l /\ l \in C /\ i \in Int
    BY <1>3, <1>4, <1>14, LitFacts
  <2>2. Graph(Core.trail, ca, intro, assertionLevel) /\ i \in DOMAIN Core.trail
        /\ Core.trail[i].lit = trail[i].lit
    BY <1>14, CoreShape, TrailShape
  <2>3. level(Core, l) = levelAt(Core, i)
    BY <2>1, <2>2, AssignedAt
  <2>4. levelAt(Core, i) = Len(trail_lim)
    BY <1>3, <1>14, <2>1, CoreShape, LevelIs
  <2>5. Len(trail_lim) # 0
    BY <1>3, DecisionsShape
  <2>6. decisionLevel(Core) = Len(trail_lim)
    BY CoreShape DEF decisionLevel
  <2> QED  BY <1>9, <2>1, <2>3, <2>4, <2>5, <2>6 DEF AtCurrent
<1>16. ASSUME NEW l \in AtCurrent(p.lits)
       PROVE  trail_index(Core, l) <= Len(trail)
  <2>1. l \in p.lits
    BY DEF AtCurrent
  <2>2. trail_index(Core, l) \in 1..Len(trail)
    BY <1>13, <2>1, CurrentIs
  <2> QED  BY <1>3, <2>2
<1> QED  BY <1>10, <1>13, <1>15, <1>16 DEF Resolving

\* So it ends with a false clause that has one literal of the current decision level.
LEMMA ResolutionIs ==
  ASSUME Inv, SoundInv, trail_lim # <<>>,
         ConflictIn(confl, trail, trail_lim, ca, assertionLevel, inputs),
         NEW r, r = Resolution
  PROVE  /\ Resolvent(r.lits, r.level)
         /\ \E l \in r.lits : AtCurrent(r.lits) = {l}
<1> DEFINE L == Len(trail)
<1>1. L \in Nat
  BY TrailShape
<1>2. PICK f : /\ r = f[0] /\ f[L] = FirstResolvent
               /\ \A i \in 1..L : f[i - 1] = ResolveAt(f[i], i)
  BY <1>1, ResolutionSteps
<1>3. Resolving(f[L], L)
  BY <1>2, ResolutionBegins
<1> HIDE DEF Inv, SoundInv
<1>4. \A i \in 1..L : Resolving(f[i], i) => Resolving(f[i - 1], i - 1)
  BY <1>2, ResolveStep
<1> HIDE DEF L
<1>5. Resolving(f[0], 0)
  <2> DEFINE T == {i \in 0..L : Resolving(f[i], i)}
             m == Min(T)
  <2>1. T \subseteq Nat /\ T # {}
    BY <1>1, <1>3
  <2>2. m \in T /\ \A i \in T : m <= i
    <3> HIDE DEF T
    <3> QED  BY <2>1, NatMin
  <2>3. m \in 0..L /\ Resolving(f[m], m)
    BY <2>2
  <2>4. m # 0 => m \in 1..L /\ m - 1 \in 0..L /\ ~ (m <= m - 1)
    BY <1>1, <2>3
  <2>5. m = 0
    <3> HIDE DEF m
    <3> QED  BY <1>4, <2>2, <2>3, <2>4
  <2> QED  BY <2>3, <2>5
<1>6. Resolvent(r.lits, r.level) /\ AtCurrent(r.lits) # {}
      /\ (Cardinality(AtCurrent(r.lits)) = 1 \/ \A l \in AtCurrent(r.lits) : trail_index(Core, l) <= 0)
  BY <1>2, <1>5 DEF Resolving
<1>7. \A l \in AtCurrent(r.lits) : l \in r.lits /\ trail_index(Core, l) \in 1..Len(trail)
  <2>1. \A l \in AtCurrent(r.lits) : l \in r.lits
    BY DEF AtCurrent
  <2>2. \A l \in r.lits : trail_index(Core, l) \in 1..Len(trail)
    BY <1>6, CurrentIs
  <2> QED  BY <2>1, <2>2
<1>8. Cardinality(AtCurrent(r.lits)) = 1
  BY <1>1, <1>6, <1>7 DEF L
<1>9. IsFiniteSet(AtCurrent(r.lits))
  BY <1>6, CurrentIs
<1>10. PICK l \in AtCurrent(r.lits) : TRUE
  BY <1>6
<1>11. AtCurrent(r.lits) = {l}
  <2> DEFINE S == AtCurrent(r.lits)
  <2>1. IsFiniteSet(S) /\ Cardinality(S) = 1
    BY <1>8, <1>9
  <2>2. l \in S
    BY <1>10
  <2> HIDE DEF S
  <2>3. S = {l}
    BY <2>1, <2>2, FS_Singleton
  <2> QED  BY <2>3 DEF S
<1> QED  BY <1>6, <1>7, <1>10, <1>11

\* A redundant entry has premises of level 0, in C, or redundant themselves.
LEMMA RedundantIs ==
  ASSUME NEW C, NEW i \in Redundant(C)
  PROVE  /\ i \in DOMAIN trail /\ trail[i].reason # Undef
         /\ \A l \in Premises(trail[i]) :
              level(Core, l) = 0 \/ l \in C \/ trail_index(Core, l) \in Redundant(C)
<1> DEFINE levels == {level(Core, l) : l \in C}
           covered(l, R) == level(Core, l) = 0 \/ l \in C \/ trail_index(Core, l) \in R
           Set == {R \in SUBSET DOMAIN trail :
                     \A j \in R : /\ trail[j].reason # Undef
                                  /\ levelAt(Core, j) \in levels
                                  /\ \A l \in Premises(trail[j]) : covered(l, R)}
<1>1. Redundant(C) = UNION Set
  BY DEF Redundant
<1>2. PICK R \in Set : i \in R
  BY <1>1
<1>3. R \subseteq Redundant(C)
  BY <1>1
<1>4. i \in DOMAIN trail /\ trail[i].reason # Undef
  BY <1>2
<1>5. ASSUME NEW l \in Premises(trail[i])
      PROVE  level(Core, l) = 0 \/ l \in C \/ trail_index(Core, l) \in Redundant(C)
  <2>1. covered(l, R)
    BY <1>2
  <2> QED  BY <1>3, <2>1
<1> QED  BY <1>4, <1>5

\* A false literal of level 0 is false in the models of what its level asserts.
LEMMA ZeroModels ==
  ASSUME SoundInv, NEW j \in DOMAIN trail, AtZero(trail_lim, j),
         NEW w \in Nat, trail[j].user <= w, NEW A, Models(A, AssertedIn(inputs, w))
  PROVE  trail[j].lit \in A
<1>1. trail[j].lit \in Lit /\ trail[j].user \in Nat
      /\ Entails(AssertedIn(inputs, trail[j].user), {trail[j].lit})
  <2>1. Sound(Core, ca, intro, assertionLevel, inputs)
    BY SoundParts
  <2>2. Fixed(trail, trail_lim, inputs)
    BY <2>1, CoreShape DEF Sound
  <2>3. trail[j].lit \in Lit /\ trail[j].user \in Nat
    BY <2>1, CoreShape, SoundShape
  <2> QED  BY <2>2, <2>3 DEF Fixed
<1> HIDE DEF SoundInv
<1>2. {trail[j].lit} \in SUBSET Lit
  BY <1>1
<1>3. Entails(AssertedIn(inputs, w), {trail[j].lit})
  BY <1>1, <1>2, EntailsMore
<1>4. {trail[j].lit} \cap A # {}
  BY <1>2, <1>3, EntailsModels
<1> QED  BY <1>4

\* The clause C with the literals gone whose entries are redundant, and the rest of it.
Minimizes(C, gone, kept) ==
  /\ gone = {l \in C : trail_index(Core, l) \in Redundant(C)}
  /\ kept = C \ gone

\* Redundant entries of user levels up to w are true where no literal in kept is.
LEMMA RedundantImplied ==
  ASSUME Inv, SoundInv, NEW C \in SUBSET Lit, \A l \in C : IsFalse(Core, l),
         NEW gone, NEW kept, Minimizes(C, gone, kept),
         NEW w \in Nat, NEW A, Models(A, AssertedIn(inputs, w)), kept \cap A = {},
         NEW i \in Redundant(C), trail[i].user <= w
  PROVE  trail[i].lit \in A
<1> DEFINE T == {j \in Redundant(C) : trail[j].user <= w /\ trail[j].lit \notin A}
           m == Min(T)
<1> SUFFICES ASSUME T # {}
             PROVE  FALSE
  OBVIOUS
<1>1. /\ trail \in Seq(Entry) /\ Len(trail) \in Nat /\ DOMAIN trail = 1..Len(trail)
      /\ \A j \in DOMAIN trail : trail[j].lit \in Lit
      /\ Graph(trail, ca, intro, assertionLevel)
  BY TrailShape
<1>2. \A j \in DOMAIN trail : trail[j].user \in Nat
  BY CoreShape, SoundParts, SoundShape
<1>3. m \in T /\ \A j \in T : m <= j
  <2>1. T \subseteq Nat
    BY <1>1, RedundantIs
  <2> HIDE DEF T
  <2> QED  BY <2>1, NatMin
<1> HIDE DEF m
<1> DEFINE e == trail[m]
<1>4. m \in Redundant(C) /\ e.user <= w /\ e.lit \notin A
  BY <1>3
<1>5. /\ m \in DOMAIN trail /\ e.reason # Undef /\ m \in Nat /\ e.lit \in Lit
      /\ \A l \in Premises(e) :
              level(Core, l) = 0 \/ l \in C \/ trail_index(Core, l) \in Redundant(C)
  BY <1>1, <1>4, RedundantIs
<1>6. /\ Premises(e) \in SUBSET Lit
      /\ \A l \in Premises(e) : IsFalse(Core, l) /\ trail_index(Core, l) < m
      /\ ReasonLevel(e) \in 0..e.user
      /\ Follow(Premises(e) \cup {e.lit}, ReasonLevel(e), intro, inputs)
  BY <1>5, ReasonFollows
<1> HIDE DEF Inv, SoundInv
<1>7. A \in Assignments
  BY DEF Models
<1>8. ASSUME NEW l \in Premises(e)
      PROVE  l \notin A
  <2> DEFINE j == trail_index(Core, l)
  <2>1. l \in Lit /\ IsFalse(Core, l)
    BY <1>6
  <2>2. /\ j \in DOMAIN trail /\ j \in Nat /\ trail[j].lit = -l
        /\ level(Core, l) = 0 <=> AtZero(trail_lim, j)
    BY <2>1, FalseIndex
  <2>3. j < m
    BY <1>6
  <2> HIDE DEF j
  <2>4. j <= m
    BY <1>5, <2>2, <2>3
  <2>5. trail[j].user <= e.user
    BY <1>1, <1>5, <2>2, <2>4 DEF Graph
  <2>6. trail[j].user <= w
    <3> HIDE DEF e
    <3>1. trail[j].user \in Nat /\ e.user \in Nat
      BY <1>2, <1>5, <2>2 DEF e
    <3> QED  BY <1>4, <2>5, <3>1
  <2>7. CASE level(Core, l) = 0
    <3>1. trail[j].lit \in A
      BY <2>2, <2>6, <2>7, ZeroModels
    <3> QED  BY <1>7, <2>1, <2>2, <3>1, AssignmentLits
  <2>8. CASE j \in Redundant(C)
    <3>1. j \notin T
      BY <1>3, <1>5, <2>2, <2>3
    <3>2. trail[j].lit \in A
      BY <2>6, <2>8, <3>1
    <3> QED  BY <1>7, <2>1, <2>2, <3>2, AssignmentLits
  <2>9. CASE l \in C /\ j \notin Redundant(C)
    <3>1. l \in kept
      BY <2>9 DEF Minimizes, j
    <3> QED  BY <3>1
  <2> QED  BY <1>5, <2>7, <2>8, <2>9 DEF j
<1>9. ReasonLevel(e) \in Nat /\ ReasonLevel(e) <= w
  <2>1. e.user \in Nat
    BY <1>2, <1>5
  <2> HIDE DEF e
  <2> QED  BY <1>4, <1>6, <2>1
<1> DEFINE X == Premises(e) \cup {e.lit}
<1>10. X \in SUBSET Lit /\ Entails(AssertedIn(inputs, ReasonLevel(e)), X)
  BY <1>5, <1>6 DEF Follow
<1>11. Entails(AssertedIn(inputs, w), X)
  <2> HIDE DEF X, e
  <2> QED  BY <1>9, <1>10, EntailsMore
<1>12. X \cap A # {}
  <2> HIDE DEF X
  <2> QED  BY <1>10, <1>11, EntailsModels
<1> QED  BY <1>4, <1>8, <1>12

\* The learnt clause follows, up to its level.
LEMMA LearntFollows ==
  ASSUME Inv, SoundInv, NEW C, NEW lev, Resolvent(C, lev), NEW u \in C,
         NEW rest, rest = C \ {u}, NEW gone, NEW kept, Minimizes(rest, gone, kept),
         NEW w, w = LearntLevel(lev, gone)
  PROVE  w \in 0..assertionLevel /\ Follow(kept \cup {u}, w, intro, inputs)
<1> DEFINE U == {lev} \cup {user_level(Core, l) : l \in gone}
           D == kept \cup {u}
<1>1. /\ C \in SUBSET Lit /\ \A l \in C : IsFalse(Core, l)
      /\ lev \in 0..assertionLevel /\ Follow(C, lev, intro, inputs)
  BY DEF Resolvent
<1>2. assertionLevel \in Nat
  BY SoundParts
<1>3. \A l \in C : LET j == trail_index(Core, l) IN
        /\ j \in DOMAIN trail /\ trail[j].lit = -l
        /\ user_level(Core, l) = trail[j].user /\ user_level(Core, l) \in 0..assertionLevel
  BY <1>1, FalseIndex
<1> HIDE DEF Inv, SoundInv
<1>4. rest \subseteq C /\ gone \subseteq rest /\ kept = rest \ gone /\ D \subseteq C /\ C \ D \subseteq gone
      /\ rest \in SUBSET Lit /\ \A l \in rest : IsFalse(Core, l)
  BY <1>1 DEF Minimizes
<1>5. U \subseteq 0..assertionLevel /\ lev \in U
  BY <1>1, <1>3, <1>4
<1>6. w = Max(U)
  BY DEF LearntLevel
<1>7. w \in U /\ \A y \in U : y <= w
  <2> HIDE DEF U
  <2>1. U # {}
    BY <1>5
  <2> QED  BY <1>2, <1>5, <1>6, <2>1, BoundedMax
<1>8. w \in 0..assertionLevel /\ lev <= w
  BY <1>5, <1>7
<1>9. \A l \in gone : user_level(Core, l) <= w
  BY <1>7
<1> HIDE DEF U
<1>10. w \in Nat /\ lev \in Nat
  BY <1>1, <1>2, <1>8
<1>11. D \in SUBSET Lit
  BY <1>1, <1>4
<1>12. Entails(AssertedIn(inputs, w), C)
  BY <1>1, <1>8, <1>10, EntailsMore DEF Follow
<1>13. ASSUME NEW A, Models(A, AssertedIn(inputs, w))
       PROVE  D \cap A # {}
  <2> SUFFICES ASSUME D \cap A = {}
               PROVE  FALSE
    OBVIOUS
  <2>1. PICK l \in C : l \in A
    <3> HIDE DEF D
    <3> QED  BY <1>1, <1>12, <1>13, EntailsModels
  <2>2. l \in gone /\ l \in Lit
    BY <1>1, <1>4, <2>1
  <2> DEFINE j == trail_index(Core, l)
  <2>3. j \in Redundant(rest)
    BY <2>2 DEF Minimizes
  <2>4. trail[j].lit = -l /\ trail[j].user <= w
    BY <1>3, <1>9, <2>1, <2>2
  <2> HIDE DEF j
  <2>5. kept \cap A = {}
    OBVIOUS
  <2>6. trail[j].lit \in A
    BY <1>4, <1>10, <1>13, <2>3, <2>4, <2>5, RedundantImplied
  <2>7. A \in Assignments
    BY <1>13 DEF Models
  <2> QED  BY <2>1, <2>2, <2>4, <2>6, <2>7, AssignmentLits
<1>14. Entails(AssertedIn(inputs, w), D)
  <2> HIDE DEF D
  <2> QED  BY <1>11, <1>13, EntailsModels
<1>15. \A v \in Vars(D) : intro[v] \in 0..w
  <2> SUFFICES ASSUME NEW l \in D
               PROVE  intro[Abs(l)] \in 0..w
    BY DEF Vars
  <2>1. intro[Abs(l)] \in 0..lev
    BY <1>1, <1>4 DEF Follow, Vars
  <2> QED  BY <1>8, <1>10, <2>1
<1> QED  BY <1>8, <1>14, <1>15 DEF Follow

\* There are references for new clauses.
LEMMA RefsExist ==
  ASSUME IsFiniteSet(DOMAIN ca), NEW E, IsFiniteSet(E)
  PROVE  \E f : f \in Injection(E, NewRefs(Cardinality(E)))
<1> DEFINE D == DOMAIN ca
           n == Cardinality(E)
           k == Cardinality(D)
           S == 1..(k + n)
           T == S \ D
           m == Cardinality(T)
<1>1. n \in Nat /\ k \in Nat /\ ExistsBijection(1..n, E)
  BY FS_CardinalityType
<1>2. IsFiniteSet(S) /\ Cardinality(S) = k + n
  <2> HIDE DEF k, n
  <2>1. 1 \in Int /\ k + n \in Int /\ (k + n) - 1 + 1 = k + n /\ (1 > k + n => k + n = 0)
    BY <1>1
  <2> QED  BY <2>1, FS_Interval
<1> HIDE DEF S
<1>3. IsFiniteSet(S \cap D) /\ Cardinality(S \cap D) \in Nat /\ Cardinality(S \cap D) <= k
  <2>1. S \cap D \subseteq D
    OBVIOUS
  <2> HIDE DEF D
  <2> DEFINE I == S \cap D
  <2> HIDE DEF I
  <2>2. I \subseteq D /\ IsFiniteSet(D)
    BY <2>1 DEF I, D
  <2>3. IsFiniteSet(I) /\ Cardinality(I) <= Cardinality(D)
    BY <2>2, FS_Subset
  <2>4. Cardinality(I) \in Nat
    BY <2>3, FS_CardinalityType
  <2> QED  BY <2>3, <2>4 DEF I
<1>4. IsFiniteSet(T) /\ m = Cardinality(S) - Cardinality(S \cap D)
  BY <1>2, FS_Difference
<1> HIDE DEF k, n, D
<1>5. n <= m /\ m \in Nat
  BY <1>1, <1>2, <1>3, <1>4
<1> HIDE DEF T
<1>6. ExistsBijection(1..m, T)
  BY <1>4, FS_CardinalityType
<1> HIDE DEF m
<1>7. ExistsInjection(1..n, 1..m)
  BY <1>1, <1>5, Fun_NatInjLeq
<1>8. ExistsInjection(1..m, T)
  BY <1>6, Fun_ExistsBijEquiv
<1>9. ExistsInjection(E, 1..n)
  BY <1>1, Fun_ExistsBijEquiv
<1>10. ExistsInjection(E, 1..m)
  BY <1>7, <1>9, Fun_ExistsInjTransitive
<1>11. ExistsInjection(E, T)
  BY <1>8, <1>10, Fun_ExistsInjTransitive
<1>12. T = NewRefs(Cardinality(E))
  BY DEF T, S, D, NewRefs, n, k
<1> QED  BY <1>11, <1>12 DEF ExistsInjection

\* The explanation of the entry e.
Explanation(e) ==
  [lits |-> <<e.lit>> \o Sorted(Core, e.why \ {e.lit}), level |-> MaxIntro(intro, e.why),
   removable |-> TRUE]

\* The clauses cs and the trail t have the explanations of the entries E, at ref.
Explains(cs, t, ref, E) ==
  /\ ref \in [E -> Nat \ {0}] /\ \A i \in E : ref[i] \notin DOMAIN ca
  /\ DOMAIN cs = DOMAIN ca \cup {ref[i] : i \in E}
  /\ cs = [c \in DOMAIN cs |-> cs[c]]
  /\ \A c \in DOMAIN ca : cs[c] = ca[c]
  /\ \A i \in E : cs[ref[i]] = Explanation(trail[i])
  /\ t = [i \in DOMAIN trail |-> IF i \in E THEN [trail[i] EXCEPT !.reason = ref[i]]
                                          ELSE trail[i]]

\* The database and the trail after the explanations of E were asked for.
LEMMA ExplainIs ==
  ASSUME IsFiniteSet(DOMAIN ca), NEW E, IsFiniteSet(E)
  PROVE  \E ref : Explains(Explain(E).ca, Explain(E).trail, ref, E)
<1> DEFINE refs == NewRefs(Cardinality(E))
           ref == CHOOSE f \in Injection(E, refs) : TRUE
           cs == [c \in DOMAIN ca \cup Range(ref) |->
                    IF c \in DOMAIN ca THEN ca[c]
                    ELSE Explanation(trail[CHOOSE i \in E : ref[i] = c])]
           t == [i \in DOMAIN trail |-> IF i \in E THEN [trail[i] EXCEPT !.reason = ref[i]]
                                                    ELSE trail[i]]
<1>1. Explain(E).ca = cs /\ Explain(E).trail = t
  BY DEF Explain, Explanation
<1>2. ref \in Injection(E, refs)
  <2> HIDE DEF refs
  <2>1. \E f \in Injection(E, refs) : TRUE
    BY RefsExist DEF refs
  <2> QED  BY <2>1
<1>3. refs \subseteq Nat \ {0} /\ \A c \in refs : c \notin DOMAIN ca
  <2>1. Cardinality(DOMAIN ca) \in Nat /\ Cardinality(E) \in Nat
    BY FS_CardinalityType
  <2> QED  BY <2>1 DEF NewRefs
<1> HIDE DEF ref, refs
<1>4. /\ ref \in [E -> refs] /\ DOMAIN ref = E
      /\ \A i, j \in E : ref[i] = ref[j] => i = j
  BY <1>2 DEF Injection, IsInjective
<1>5. \A i \in E : ref[i] \in refs
  BY <1>4
<1>6. ref \in [E -> Nat \ {0}] /\ \A i \in E : ref[i] \notin DOMAIN ca
  BY <1>3, <1>4, <1>5
<1>7. Range(ref) = {ref[i] : i \in E}
  BY <1>4 DEF Range
<1>8. DOMAIN cs = DOMAIN ca \cup {ref[i] : i \in E}
  BY <1>7
<1>9. \A c \in DOMAIN ca : cs[c] = ca[c]
  OBVIOUS
<1>10. ASSUME NEW i \in E
       PROVE  cs[ref[i]] = Explanation(trail[i])
  <2>1. (CHOOSE j \in E : ref[j] = ref[i]) = i
    BY <1>4
  <2>2. ref[i] \in DOMAIN ca \cup Range(ref) /\ ref[i] \notin DOMAIN ca
    BY <1>6, <1>7
  <2> QED  BY <2>1, <2>2
<1>11. cs = [c \in DOMAIN cs |-> cs[c]]
  OBVIOUS
<1> HIDE DEF cs
<1>12. Explains(cs, t, ref, E)
  BY <1>6, <1>8, <1>9, <1>10, <1>11 DEF Explains
<1> QED  BY <1>1, <1>12

\* A sequence with a literal before it.
LEMMA LitBefore ==
  ASSUME NEW l \in Lit, NEW q \in Seq(Lit)
  PROVE  LET m == <<l>> \o q IN
         m \in Seq(Lit) /\ Len(m) = Len(q) + 1 /\ ToSet(m) = {l} \cup ToSet(q) /\ m[1] = l
         /\ \A k \in 1..Len(q) : m[k + 1] = q[k]
<1> DEFINE m == <<l>> \o q
           S == Lit
<1> HIDE DEF S
<1>1. <<l>> \in Seq(S) /\ Len(<<l>>) = 1 /\ <<l>>[1] = l /\ q \in Seq(S) /\ Len(q) \in Nat
  BY LenProperties DEF S
<1>2. /\ m \in Seq(S) /\ Len(m) = Len(q) + 1
      /\ \A k \in 1..(Len(q) + 1) : m[k] = IF k <= 1 THEN <<l>>[k] ELSE q[k - 1]
  <2>1. /\ <<l>> \o q \in Seq(S) /\ Len(<<l>> \o q) = Len(<<l>>) + Len(q)
        /\ \A i \in 1..(Len(<<l>>) + Len(q)) :
             (<<l>> \o q)[i] = IF i <= Len(<<l>>) THEN <<l>>[i] ELSE q[i - Len(<<l>>)]
    BY <1>1, ConcatProperties
  <2> QED  BY <1>1, <2>1
<1> HIDE DEF m
<1>3. m[1] = l
  BY <1>1, <1>2
<1>4. \A k \in 1..Len(q) : k + 1 \in 1..(Len(q) + 1) /\ ~ (k + 1 <= 1) /\ (k + 1) - 1 = k
  BY <1>1
<1>5. \A k \in 1..Len(q) : m[k + 1] = q[k]
  BY <1>2, <1>4
<1>6. DOMAIN m = 1..(Len(q) + 1) /\ DOMAIN q = 1..Len(q)
  BY <1>1, <1>2, LenProperties
<1>7. \A k \in 1..(Len(q) + 1) : k = 1 \/ k - 1 \in 1..Len(q)
  BY <1>1
<1>8. ASSUME NEW x \in ToSet(m)
      PROVE  x \in {l} \cup ToSet(q)
  <2>1. PICK k \in 1..(Len(q) + 1) : m[k] = x
    BY <1>6 DEF ToSet
  <2>2. CASE k = 1
    BY <1>3, <2>1, <2>2
  <2>3. CASE k # 1
    <3>1. k - 1 \in 1..Len(q) /\ ~ (k <= 1)
      BY <1>1, <2>3
    <3>2. m[k] = q[k - 1]
      BY <1>2, <3>1
    <3> QED  BY <1>6, <2>1, <3>1, <3>2 DEF ToSet
  <2> QED  BY <2>2, <2>3
<1>9. ASSUME NEW x \in {l} \cup ToSet(q)
      PROVE  x \in ToSet(m)
  <2>1. CASE x = l
    <3>1. 1 \in DOMAIN m
      BY <1>1, <1>6
    <3> QED  BY <1>3, <2>1, <3>1 DEF ToSet
  <2>2. CASE x \in ToSet(q)
    <3>1. PICK k \in 1..Len(q) : q[k] = x
      BY <1>6, <2>2 DEF ToSet
    <3> QED  BY <1>4, <1>5, <1>6, <3>1 DEF ToSet
  <2> QED  BY <2>1, <2>2
<1>10. ToSet(m) = {l} \cup ToSet(q)
  BY <1>8, <1>9
<1> QED  BY <1>2, <1>3, <1>5, <1>10 DEF m, S

\* An explanation is a clause that follows, with the literal first.
LEMMA ExplanationIs ==
  ASSUME Inv, SoundInv, NEW i \in DOMAIN trail, trail[i].reason = Lazy,
         NEW x, x = Explanation(trail[i])
  PROVE  /\ x \in [lits : Seq(Lit), level : 0..MaxLevel, removable : BOOLEAN]
         /\ Len(x.lits) > 1 /\ ToSet(x.lits) = trail[i].why /\ x.lits[1] = trail[i].lit
         /\ x.level \in 0..trail[i].user /\ x.level <= assertionLevel
         /\ Follow(ToSet(x.lits), x.level, intro, inputs)
         /\ Premises(trail[i]) = ToSet(x.lits) \ {trail[i].lit}
<1> DEFINE e == trail[i]
           P == Premises(e)
           q == Sorted(Core, P)
           m == <<e.lit>> \o q
<1>1. e.reason # Undef
  <2>1. Lazy # Undef
    BY DEF Lazy, Undef
  <2> QED  BY <2>1
<1>2. /\ P \in SUBSET Lit /\ \A l \in P : IsFalse(Core, l)
      /\ ReasonLevel(e) \in 0..e.user
      /\ Follow(P \cup {e.lit}, ReasonLevel(e), intro, inputs)
      /\ e.why \in Theory /\ e.lit \in e.why /\ e.why # {e.lit} /\ e.why \in SUBSET Lit
      /\ P = e.why \ {e.lit} /\ ReasonLevel(e) = MaxIntro(intro, e.why)
  BY <1>1, ReasonFollows
<1>3. e.lit \in Lit /\ e.user \in Nat /\ e.user \in 0..MaxLevel /\ e.user <= assertionLevel
  BY CoreShape, SoundParts, SoundShape
<1>4. Graph(Core.trail, ca, intro, assertionLevel)
  BY CoreShape, TrailShape
<1>5. assertionLevel \in Nat /\ MaxLevel \in Nat
  BY SoundParts
<1> HIDE DEF Inv, SoundInv, P, e
<1>6. \A l \in P : -l \notin P
  <2>1. ASSUME NEW l \in P, -l \in P
        PROVE  FALSE
    <3>1. l \in Lit /\ -(-l) = l /\ IsFalse(Core, l) /\ IsFalse(Core, -l)
      BY <1>2, <2>1, LitFacts
    <3>2. IsTrue(Core, l)
      BY <3>1 DEF IsFalse, IsTrue
    <3> QED  BY <1>4, <3>1, <3>2, AssignedIs
  <2> QED  BY <2>1
<1>7. q \in Seq(Lit) /\ ToSet(q) = P /\ Len(q) = Cardinality(P)
  BY <1>2, <1>4, <1>6, SortedLits
<1> HIDE DEF q
<1>8. Len(q) \in Nat /\ Len(q) > 0
  <2>1. P # {} /\ IsFiniteSet(P)
    BY <1>2, LitFinite, FS_Subset
  <2>2. Cardinality(P) \in Nat /\ Cardinality(P) # 0
    BY <2>1, FS_CardinalityType, FS_EmptySet
  <2> QED  BY <1>7, <2>2
<1>9. m \in Seq(Lit) /\ Len(m) = Len(q) + 1 /\ ToSet(m) = {e.lit} \cup ToSet(q) /\ m[1] = e.lit
  BY <1>3, <1>7, LitBefore
<1>10. ToSet(m) = e.why /\ P \cup {e.lit} = e.why /\ P = ToSet(m) \ {e.lit}
  BY <1>2, <1>7, <1>9
<1>11. x = [lits |-> m, level |-> ReasonLevel(e), removable |-> TRUE]
  BY <1>2 DEF Explanation, m, q, e
<1> HIDE DEF m
<1>12. ReasonLevel(e) \in 0..MaxLevel /\ ReasonLevel(e) <= assertionLevel
  BY <1>2, <1>3, <1>5
<1>13. Len(m) > 1 /\ Follow(ToSet(m), ReasonLevel(e), intro, inputs)
  <2>1. ToSet(m) = P \cup {e.lit}
    BY <1>10
  <2>2. Len(m) > 1
    BY <1>8, <1>9
  <2> QED  BY <1>2, <2>1, <2>2
<1>14. /\ x.lits = m /\ x.level = ReasonLevel(e)
       /\ x \in [lits : Seq(Lit), level : 0..MaxLevel, removable : BOOLEAN]
  <2> DEFINE S == Seq(Lit)
             N == 0..MaxLevel
  <2>1. m \in S /\ ReasonLevel(e) \in N /\ TRUE \in BOOLEAN
    BY <1>9, <1>12
  <2> HIDE DEF S, N
  <2>2. /\ x.lits = m /\ x.level = ReasonLevel(e)
        /\ x \in [lits : S, level : N, removable : BOOLEAN]
    BY <1>11, <2>1
  <2> QED  BY <2>2 DEF S, N
<1>15. /\ x.lits[1] = e.lit /\ ToSet(x.lits) = e.why /\ Len(x.lits) > 1
       /\ x.level \in 0..e.user /\ x.level <= assertionLevel
       /\ Follow(ToSet(x.lits), x.level, intro, inputs) /\ P = ToSet(x.lits) \ {e.lit}
  BY <1>2, <1>9, <1>10, <1>12, <1>13, <1>14
<1> QED  BY <1>14, <1>15 DEF P, e

\* With its explanation, an entry rests on the same premises.
LEMMA ExplainedRests ==
  ASSUME Inv, SoundInv, NEW E, \A i \in E : i \in DOMAIN trail /\ trail[i].reason = Lazy,
         NEW cs, NEW t, NEW ref, Explains(cs, t, ref, E), NEW i \in DOMAIN trail
  PROVE  /\ t[i] \in Entry
         /\ t[i].lit = trail[i].lit /\ t[i].user = trail[i].user
         /\ t[i].reason = Undef => trail[i].reason = Undef
         /\ Rests(t, cs, i)
<1>1. /\ trail \in Seq(Entry) /\ DOMAIN trail = 1..Len(trail)
      /\ Graph(trail, ca, intro, assertionLevel)
  BY TrailShape
<1>2. /\ Rests(trail, ca, i) /\ trail[i] \in Entry /\ trail[i].reason \in Nat \cup {Lazy}
      /\ trail[i].user \in 0..MaxLevel
  BY <1>1, EntryLits DEF Graph
<1>3. /\ ref \in [E -> Nat \ {0}] /\ \A j \in E : ref[j] \notin DOMAIN ca
      /\ DOMAIN cs = DOMAIN ca \cup {ref[j] : j \in E}
      /\ \A c \in DOMAIN ca : cs[c] = ca[c]
      /\ \A j \in E : cs[ref[j]] = Explanation(trail[j])
      /\ DOMAIN t = DOMAIN trail
      /\ \A j \in DOMAIN trail : t[j] = IF j \in E THEN [trail[j] EXCEPT !.reason = ref[j]]
                                                   ELSE trail[j]
  BY DEF Explains
<1>4. \A j \in DOMAIN trail : trail[j] \in Entry
  BY <1>1, EntryLits
<1>5. \A j \in DOMAIN trail : t[j].lit = trail[j].lit
  BY <1>3, <1>4 DEF Entry
<1>6. \A l : FalseBefore(trail, l, i) => FalseBefore(t, l, i)
  BY <1>3, <1>5 DEF FalseBefore
<1>7. CASE i \notin E
  <2>1. t[i] = trail[i]
    BY <1>3, <1>7
  <2>2. /\ trail[i].reason > 0 => /\ trail[i].reason \in DOMAIN ca
                                  /\ ca[trail[i].reason].lits[1] = trail[i].lit
                                  /\ ca[trail[i].reason].level <= trail[i].user
        /\ trail[i].reason = Lazy => trail[i].why \in Theory /\ trail[i].lit \in trail[i].why
                                     /\ trail[i].why # {trail[i].lit}
        /\ \A l \in PremisesIn(ca, trail[i]) : FalseBefore(trail, l, i)
    BY <1>2 DEF Rests
  <2>3. PremisesIn(cs, trail[i]) = PremisesIn(ca, trail[i])
    <3>1. /\ trail[i].reason = Undef \/ trail[i].reason = Lazy \/ trail[i].reason > 0
          /\ trail[i].reason = Undef => PremisesIn(ca, trail[i]) = {} /\ PremisesIn(cs, trail[i]) = {}
          /\ trail[i].reason = Lazy =>
               /\ PremisesIn(ca, trail[i]) = trail[i].why \ {trail[i].lit}
               /\ PremisesIn(cs, trail[i]) = trail[i].why \ {trail[i].lit}
          /\ trail[i].reason > 0 =>
               /\ PremisesIn(ca, trail[i]) = ToSet(ca[trail[i].reason].lits) \ {trail[i].lit}
               /\ PremisesIn(cs, trail[i]) = ToSet(cs[trail[i].reason].lits) \ {trail[i].lit}
      BY <1>2, PremisesAre, Zenon
    <3>2. trail[i].reason > 0 => cs[trail[i].reason] = ca[trail[i].reason]
      BY <1>3, <2>2
    <3> QED  BY <3>1, <3>2
  <2>4. trail[i].reason > 0 => /\ trail[i].reason \in DOMAIN cs
                               /\ cs[trail[i].reason] = ca[trail[i].reason]
    BY <1>3, <2>2
  <2>5. Rests(t, cs, i)
    BY <1>6, <2>1, <2>2, <2>3, <2>4 DEF Rests
  <2> QED  BY <1>2, <2>1, <2>5
<1>8. CASE i \in E
  <2> DEFINE e == trail[i]
             c == ref[i]
             x == Explanation(e)
  <2>1. e.reason = Lazy /\ c \in Nat \ {0} /\ c \in DOMAIN cs /\ cs[c] = x
    BY <1>3, <1>8
  <2>2. t[i] = [e EXCEPT !.reason = c]
    BY <1>3, <1>8
  <2>3. /\ x.lits[1] = e.lit /\ x.level \in 0..e.user
        /\ Premises(e) = ToSet(x.lits) \ {e.lit}
    BY <2>1, ExplanationIs
  <2> HIDE DEF x, c
  <2>4. /\ t[i].lit = e.lit /\ t[i].user = e.user /\ t[i].reason = c /\ t[i] \in Entry
    BY <1>2, <2>1, <2>2 DEF Entry
  <2> HIDE DEF e, Inv, SoundInv
  <2>5. c > 0 /\ c # Lazy /\ c # Undef /\ c \in Nat \cup {Lazy}
    BY <2>1 DEF Lazy, Undef
  <2>6. PremisesIn(cs, t[i]) = ToSet(x.lits) \ {e.lit}
    BY <2>1, <2>4, <2>5 DEF PremisesIn
  <2>7. Premises(e) = PremisesIn(ca, e)
    BY DEF Premises, PremisesIn, Clause
  <2>8. \A l \in PremisesIn(cs, t[i]) : FalseBefore(t, l, i)
    BY <1>2, <1>6, <2>3, <2>6, <2>7 DEF Rests, e
  <2>9. x.level <= e.user
    <3>1. e.user \in Nat
      BY <1>2 DEF e
    <3> QED  BY <2>3, <3>1
  <2>10. Rests(t, cs, i)
    BY <2>1, <2>3, <2>4, <2>5, <2>8, <2>9 DEF Rests
  <2> QED  BY <2>4, <2>5, <2>10 DEF e
<1> QED  BY <1>7, <1>8

\* The explanations are clauses of the database.
LEMMA ExplainedDatabase ==
  ASSUME Inv, SoundInv, NEW E, \A i \in E : i \in DOMAIN trail /\ trail[i].reason = Lazy,
         NEW cs, NEW t, NEW ref, Explains(cs, t, ref, E), IsFiniteSet(E)
  PROVE  Database(cs, intro, assertionLevel, inputs)
<1>1. Database(ca, intro, assertionLevel, inputs)
  BY SoundParts
<1>2. /\ ref \in [E -> Nat \ {0}]
      /\ DOMAIN cs = DOMAIN ca \cup {ref[j] : j \in E}
      /\ cs = [c \in DOMAIN cs |-> cs[c]]
      /\ \A c \in DOMAIN ca : cs[c] = ca[c]
      /\ \A j \in E : cs[ref[j]] = Explanation(trail[j])
  BY DEF Explains
<1> DEFINE R == {ref[j] : j \in E}
<1>3. IsFiniteSet(R)
  <2>1. ref \in Surjection(E, R)
    BY <1>2 DEF Surjection
  <2> QED  BY <2>1, FS_Surjection
<1>4. IsFiniteSet(DOMAIN ca) /\ DOMAIN ca \subseteq Nat \ {0}
  BY <1>1 DEF Database
<1>5. R \subseteq Nat \ {0}
  BY <1>2
<1> HIDE DEF R
<1>6. IsFiniteSet(DOMAIN cs) /\ DOMAIN cs \subseteq Nat \ {0}
  <2>1. IsFiniteSet(DOMAIN ca \cup R)
    BY <1>3, <1>4, FS_Union
  <2> QED  BY <1>2, <1>4, <1>5, <2>1 DEF R
<1>7. ASSUME NEW c \in DOMAIN cs
      PROVE  /\ cs[c] \in [lits : Seq(Lit), level : 0..MaxLevel, removable : BOOLEAN]
             /\ Len(cs[c].lits) > 1 /\ cs[c].level <= assertionLevel
             /\ Follow(ToSet(cs[c].lits), cs[c].level, intro, inputs)
  <2>1. CASE c \in DOMAIN ca
    <3>1. cs[c] = ca[c]
      BY <1>2, <2>1
    <3> QED  BY <1>1, <2>1, <3>1 DEF Database
  <2>2. CASE c \in R
    <3>1. PICK j \in E : c = ref[j]
      BY <2>2 DEF R
    <3>2. cs[c] = Explanation(trail[j]) /\ j \in DOMAIN trail /\ trail[j].reason = Lazy
      BY <1>2, <3>1
    <3> QED  BY <3>2, ExplanationIs
  <2> QED  BY <1>2, <2>1, <2>2 DEF R
<1>8. cs \in [DOMAIN cs -> [lits : Seq(Lit), level : 0..MaxLevel, removable : BOOLEAN]]
  <2> DEFINE S == [lits : Seq(Lit), level : 0..MaxLevel, removable : BOOLEAN]
  <2>1. \A c \in DOMAIN cs : cs[c] \in S
    BY <1>7
  <2> HIDE DEF S
  <2>2. cs \in [DOMAIN cs -> S]
    BY <1>2, <2>1
  <2> QED  BY <2>2 DEF S
<1> QED  BY <1>6, <1>7, <1>8 DEF Database

\* The core with explanations.
LEMMA SoundExplained ==
  ASSUME Inv, SoundInv, NEW E, \A i \in E : i \in DOMAIN trail /\ trail[i].reason = Lazy,
         NEW x, x = [Core EXCEPT !.trail = Explain(E).trail],
         NEW cs, cs = Explain(E).ca
  PROVE  /\ Database(cs, intro, assertionLevel, inputs)
         /\ Sound(x, cs, intro, assertionLevel, inputs) /\ Sync(x, intro, assertionLevel)
         /\ x.trail_lim = trail_lim /\ Len(x.trail) = Len(trail) /\ DOMAIN x.trail = DOMAIN trail
         /\ \A i \in DOMAIN trail : x.trail[i].lit = trail[i].lit
<1> DEFINE t == Explain(E).trail
<1>1. IsFiniteSet(E) /\ IsFiniteSet(DOMAIN ca)
  <2>1. DOMAIN trail = 1..Len(trail) /\ Len(trail) \in Nat
    BY TrailShape
  <2>2. IsFiniteSet(1..Len(trail))
    <3>1. 1 \in Int /\ Len(trail) \in Int
      BY <2>1
    <3> QED  BY <3>1, FS_Interval
  <2>3. E \subseteq 1..Len(trail)
    BY <2>1
  <2> QED  BY <2>2, <2>3, FS_Subset, SoundParts DEF Database
<1>2. PICK ref : Explains(cs, t, ref, E)
  BY <1>1, ExplainIs
<1>3. SameButReasons(Core.trail, t)
  <2>1. IsSequence(trail) /\ \A i \in DOMAIN trail : DOMAIN trail[i] = {"lit", "reason", "user", "why"}
    BY InvCore, CoreShape DEF Shaped
  <2> QED  BY <2>1, CoreShape, ExplainSame
<1>4. /\ HasFields(Core) /\ Core.trail = trail /\ Core.trail_lim = trail_lim
  BY CoreShape
<1>5. /\ trail \in Seq(Entry) /\ Len(trail) \in Nat /\ DOMAIN trail = 1..Len(trail)
  BY TrailShape
<1>6. Sound(Core, ca, intro, assertionLevel, inputs) /\ Sync(Core, intro, assertionLevel)
      /\ assertionLevel \in Nat
  BY SoundParts, InvCore
<1>7. Database(cs, intro, assertionLevel, inputs)
  BY <1>1, <1>2, ExplainedDatabase
<1>8. \A i \in DOMAIN trail :
         /\ t[i] \in Entry
         /\ t[i].lit = trail[i].lit /\ t[i].user = trail[i].user
         /\ t[i].reason = Undef => trail[i].reason = Undef
         /\ Rests(t, cs, i)
  BY <1>2, ExplainedRests
<1> HIDE DEF Inv, SoundInv
<1>9. DOMAIN t = DOMAIN trail /\ t = [i \in DOMAIN trail |-> t[i]]
  BY <1>2 DEF Explains
<1> HIDE DEF t
<1>10. t \in Seq(Entry) /\ Len(t) = Len(trail)
  <2> DEFINE S == Entry
             n == Len(trail)
  <2>1. \A i \in 1..n : t[i] \in S
    BY <1>5, <1>8
  <2>2. t = [i \in 1..n |-> t[i]] /\ n \in Nat
    BY <1>5, <1>9
  <2> HIDE DEF S, n
  <2>3. IsSequence(t) /\ Len(t) = n
    BY <2>2, SequenceFunction
  <2>4. t \in Seq(S)
    BY <2>1, <2>3, SequenceWithin
  <2> QED  BY <2>3, <2>4 DEF S, n
<1>11. /\ HasFields(x) /\ x.trail = t
       /\ x.trail_lim = Core.trail_lim /\ x.queue = Core.queue /\ x.facts = Core.facts
       /\ x.known = Core.known /\ x.saved = Core.saved /\ x.regs = Core.regs
       /\ x.qhead = Core.qhead /\ x.order_heap = Core.order_heap
  BY DEF t, Core, HasFields, CoreFields
<1>12. Sync(x, intro, assertionLevel)
  BY <1>3, <1>6, <1>11, SyncReasons
<1>13. CoreTyped(x) /\ Decidable(x, intro)
  <2>1. Lits(t) = Lits(trail)
    BY <1>8, <1>9 DEF Lits
  <2>2. CoreTyped(Core) /\ Decidable(Core, intro)
    BY <1>6 DEF Sound
  <2> QED  BY <1>4, <1>11, <2>1, <2>2 DEF CoreTyped, Decidable
<1>14. Sound(x, cs, intro, assertionLevel, inputs)
  <2>1. x.trail \in Seq(Entry) /\ Len(x.trail) = Len(Core.trail)
    BY <1>4, <1>10, <1>11
  <2>2. \A i \in DOMAIN Core.trail :
           /\ x.trail[i].lit = Core.trail[i].lit /\ x.trail[i].user = Core.trail[i].user
           /\ Rests(x.trail, cs, i)
           /\ x.trail[i].reason = Undef
                => Core.trail[i].reason = Undef \/ AtZero(Core.trail_lim, i)
    BY <1>4, <1>8, <1>11
  <2> QED  BY <1>6, <1>11, <1>13, <2>1, <2>2, SoundReasons
<1> QED  BY <1>4, <1>7, <1>8, <1>9, <1>10, <1>11, <1>12, <1>14

\* After a backjump, what was false at the last level is free, and what was false
\* up to the level of the jump still is.
LEMMA Backjump ==
  ASSUME Inv, SoundInv, NEW x, NEW cs, Sound(x, cs, intro, assertionLevel, inputs),
         Sync(x, intro, assertionLevel), x.trail_lim = trail_lim, DOMAIN x.trail = DOMAIN trail,
         \A i \in DOMAIN trail : x.trail[i].lit = trail[i].lit,
         NEW lev \in Nat, lev < Len(trail_lim), NEW s, s = cancelUntil(x, lev)
  PROVE  /\ Sound(s, cs, intro, assertionLevel, inputs) /\ HasFields(s)
         /\ Len(s.trail_lim) = lev
         /\ \A l \in Lit : IsFalse(Core, l) /\ AtTop(trail_lim, trail_index(Core, l)) => IsUndef(s, l)
         /\ \A l \in Lit : IsFalse(Core, l) /\ level(Core, l) <= lev => IsFalse(s, l)
<1>1. problem \in Problems /\ assertionLevel \in Nat
  BY InvCore
<1>2. Sound(s, cs, intro, assertionLevel, inputs) /\ HasFields(s) /\ Cut(x, s, lev)
  BY <1>1, SoundCancel
<1>3. /\ trail \in Seq(Entry) /\ Len(trail) \in Nat /\ DOMAIN trail = 1..Len(trail)
      /\ \A i \in DOMAIN trail : trail[i].lit \in Lit
      /\ Graph(trail, ca, intro, assertionLevel) /\ Decisions(trail, trail_lim, qhead)
  BY TrailShape
<1> DEFINE n == trail_lim[lev + 1]
           D == Len(trail_lim)
<1>4. D \in Nat /\ DOMAIN trail_lim = 1..D /\ \A k \in 1..D : trail_lim[k] \in Nat
  BY <1>3, DecisionsShape
<1>5. lev + 1 \in 1..D /\ n \in Nat
  BY <1>4
<1>6. /\ Len(s.trail_lim) = lev /\ Len(s.trail) = n /\ DOMAIN s.trail = 1..n
      /\ \A i \in 1..n : s.trail[i].lit = trail[i].lit /\ i \in DOMAIN trail
  BY <1>2 DEF Cut
<1> HIDE DEF n, D, Inv
<1>7. ASSUME NEW l \in Lit, IsFalse(Core, l), AtTop(trail_lim, trail_index(Core, l))
      PROVE  IsUndef(s, l)
  <2> DEFINE i == trail_index(Core, l)
  <2>1. i \in DOMAIN trail /\ i \in Nat /\ trail[i].lit = -l /\ l = -trail[i].lit
    BY <1>7, FalseIndex
  <2> HIDE DEF i, SoundInv
  <2>2. n < i
    BY <1>4, <1>5, <1>7 DEF AtTop, n, i
  <2>3. ASSUME NEW j \in 1..n
        PROVE  s.trail[j].lit # l /\ s.trail[j].lit # -l
    <3>1. j \in DOMAIN trail /\ s.trail[j].lit = trail[j].lit /\ j # i /\ trail[j].lit \in Lit
      BY <1>3, <1>5, <1>6, <2>1, <2>2
    <3>2. Abs(trail[j].lit) # Abs(trail[i].lit)
      BY <1>3, <2>1, <3>1 DEF Graph
    <3>3. Abs(trail[i].lit) = Abs(l) /\ Abs(-l) = Abs(l)
      BY <2>1, LitFacts
    <3> QED  BY <3>1, <3>2, <3>3
  <2> QED  BY <1>6, <2>3 DEF IsUndef, IsTrue, IsFalse, Lits
<1>8. ASSUME NEW l \in Lit, IsFalse(Core, l), level(Core, l) <= lev
      PROVE  IsFalse(s, l)
  <2> DEFINE i == trail_index(Core, l)
  <2>1. i \in DOMAIN trail /\ i \in Nat /\ trail[i].lit = -l /\ level(Core, l) = levelAt(Core, i)
    BY <1>8, FalseIndex
  <2> HIDE DEF i, SoundInv
  <2>2. /\ Core.trail_lim = trail_lim
    BY CoreShape
  <2>3. /\ levelAt(Core, i) \in 0..D
        /\ \A k \in 1..D : trail_lim[k] < i <=> k <= levelAt(Core, i)
    <3>1. i \in Int /\ Core.trail_lim \in Seq(Nat)
          /\ \A j, k \in DOMAIN Core.trail_lim : j < k => Core.trail_lim[j] < Core.trail_lim[k]
      BY <1>3, <2>1, <2>2 DEF Decisions
    <3> QED  BY <1>4, <2>2, <3>1, LevelAt DEF D
  <2>4. ~ (lev + 1 <= levelAt(Core, i))
    <3> DEFINE m == levelAt(Core, i)
    <3>1. m \in 0..D /\ m <= lev
      BY <1>8, <2>1, <2>3
    <3> HIDE DEF m
    <3>2. ~ (lev + 1 <= m)
      BY <1>4, <3>1
    <3> QED  BY <3>2 DEF m
  <2>5. ~ (n < i)
    BY <1>5, <2>3, <2>4 DEF n
  <2>6. i \in 1..n
    BY <1>3, <1>5, <2>1, <2>5
  <2> QED  BY <1>6, <2>1, <2>6 DEF IsFalse, Lits
<1> QED  BY <1>2, <1>6, <1>7, <1>8

\* The learnt clause has the UIP first, and next a literal of the level of the jump.
LEMMA LearntLits ==
  ASSUME SoundInv, NEW kept \in SUBSET Lit, kept # {}, \A l \in kept : IsFalse(Core, l),
         NEW u \in Lit
  PROVE  LET lits == <<u>> \o ByRank([l \in kept |-> trail_index(Core, l)]) IN
         /\ lits \in Seq(Lit) /\ Len(lits) > 1 /\ ToSet(lits) = kept \cup {u} /\ lits[1] = u
         /\ lits[2] \in kept
         /\ \A l \in kept : trail_index(Core, l) <= trail_index(Core, lits[2])
<1> DEFINE rank == [l \in kept |-> trail_index(Core, l)]
           q == ByRank(rank)
           lits == <<u>> \o q
<1>1. \A l \in kept : trail_index(Core, l) \in Nat /\ l = -trail[trail_index(Core, l)].lit
  BY FalseIndex
<1>2. Ranked(rank, kept)
  <2>1. IsFiniteSet(kept)
    BY LitFinite, FS_Subset
  <2> QED  BY <1>1, <2>1 DEF Ranked
<1>3. \A l \in kept : rank[l] = trail_index(Core, l)
  OBVIOUS
<1> HIDE DEF rank, SoundInv
<1> DEFINE n == Cardinality(kept)
<1>5. /\ q \in Seq(kept) /\ Len(q) = n /\ ToSet(q) = kept
      /\ \A i, j \in 1..n : i < j => rank[q[i]] > rank[q[j]]
  BY <1>2, ByRankLists
<1>6. n \in Nat /\ n > 0
  <2>1. IsFiniteSet(kept)
    BY <1>2 DEF Ranked
  <2>2. n \in Nat /\ n # 0
    BY <2>1, FS_CardinalityType, FS_EmptySet
  <2> QED  BY <2>2
<1> HIDE DEF q, n
<1>7. q \in Seq(Lit) /\ DOMAIN q = 1..n /\ \A i \in 1..n : q[i] \in kept
  <2>1. DOMAIN q = 1..n /\ \A i \in 1..n : q[i] \in kept
    BY <1>5, LenProperties, ElementOfSeq
  <2>2. IsSequence(q)
    BY <1>5, SequenceOver
  <2>3. \A i \in 1..Len(q) : q[i] \in Lit
    BY <1>5, <2>1
  <2> QED  BY <2>1, <2>2, <2>3, SequenceWithin
<1>8. /\ lits \in Seq(Lit) /\ Len(lits) = n + 1 /\ ToSet(lits) = {u} \cup kept /\ lits[1] = u
      /\ \A k \in 1..n : lits[k + 1] = q[k]
  BY <1>5, <1>7, LitBefore
<1> HIDE DEF lits
<1>9. 1 \in 1..n /\ 1 + 1 = 2
  BY <1>6
<1>10. lits[2] = q[1] /\ q[1] \in kept
  BY <1>7, <1>8, <1>9
<1>11. ASSUME NEW l \in kept
       PROVE  trail_index(Core, l) <= trail_index(Core, lits[2])
  <2>1. PICK k \in 1..n : q[k] = l
    BY <1>5, <1>7 DEF ToSet
  <2>2. k = 1 \/ 1 < k
    BY <1>6
  <2>3. rank[l] \in Nat /\ rank[q[1]] \in Nat
    BY <1>1, <1>3, <1>10
  <2>4. 1 < k => rank[q[1]] > rank[q[k]]
    BY <1>5, <1>9
  <2>5. rank[l] <= rank[q[1]]
    BY <2>1, <2>2, <2>3, <2>4
  <2> QED  BY <1>3, <1>10, <2>5
<1>12. Len(lits) > 1 /\ ToSet(lits) = kept \cup {u}
  BY <1>6, <1>8
<1> QED  BY <1>8, <1>10, <1>11, <1>12 DEF lits, q, rank

\* What the analysis of the conflict gives: the UIP u, the other literals of the learnt
\* clause, its level w, and the level of the jump.
Analyzed(u, kept, w, lits, lev) ==
  /\ u \in Lit /\ IsFalse(Core, u) /\ AtTop(trail_lim, trail_index(Core, u))
  /\ kept \in SUBSET Lit /\ \A l \in kept : IsFalse(Core, l) /\ level(Core, l) <= lev
  /\ w \in 0..assertionLevel /\ Follow(kept \cup {u}, w, intro, inputs)
  /\ lev \in Nat /\ lev < Len(trail_lim)
  /\ kept # {} => /\ lits \in Seq(Lit) /\ Len(lits) > 1 /\ ToSet(lits) = kept \cup {u}
                  /\ lits[1] = u
  /\ kept = {} => lev = 0

\* The learnt clause, and the level the solver jumps to.
LearntClause(u, kept) == <<u>> \o ByRank([l \in kept |-> trail_index(Core, l)])
JumpLevel(u, kept) == IF kept = {} THEN 0 ELSE level(Core, LearntClause(u, kept)[2])

\* What the analysis gives: one literal of the current decision level and, besides it,
\* literals of lower ones, in a clause that follows.
LEMMA AnalysisIs ==
  ASSUME Inv, SoundInv, trail_lim # <<>>,
         ConflictIn(confl, trail, trail_lim, ca, assertionLevel, inputs),
         NEW r, r = Resolution, NEW u, u = (CHOOSE l \in AtCurrent(r.lits) : TRUE),
         NEW rest, rest = r.lits \ {u}, NEW gone, NEW kept, Minimizes(rest, gone, kept),
         NEW w, w = LearntLevel(r.level, gone)
  PROVE  Analyzed(u, kept, w, LearntClause(u, kept), JumpLevel(u, kept))
<1> SUFFICES LET lits == <<u>> \o ByRank([l \in kept |-> trail_index(Core, l)]) IN
             Analyzed(u, kept, w, lits, IF kept = {} THEN 0 ELSE level(Core, lits[2]))
  BY Zenon DEF LearntClause, JumpLevel
<1> DEFINE C == r.lits
           lits == <<u>> \o ByRank([l \in kept |-> trail_index(Core, l)])
           lev == IF kept = {} THEN 0 ELSE level(Core, lits[2])
           D == Len(trail_lim)
<1>1. Resolvent(C, r.level) /\ \E l \in C : AtCurrent(C) = {l}
  BY ResolutionIs
<1>2. u \in C /\ AtCurrent(C) = {u}
  <2>1. PICK l \in C : AtCurrent(C) = {l}
    BY <1>1
  <2> HIDE DEF C
  <2>2. u = (CHOOSE m \in {l} : TRUE)
    BY <2>1 DEF C
  <2>3. u = l
    BY <2>2
  <2> QED  BY <2>1, <2>3
<1>3. w \in 0..assertionLevel /\ Follow(kept \cup {u}, w, intro, inputs)
  BY <1>1, <1>2, LearntFollows
<1>4. /\ C \in SUBSET Lit
      /\ \A l \in C : /\ IsFalse(Core, l)
                      /\ l \in AtCurrent(C) <=> AtTop(trail_lim, trail_index(Core, l))
  BY <1>1, CurrentIs
<1>5. u \in Lit /\ IsFalse(Core, u) /\ AtTop(trail_lim, trail_index(Core, u))
  BY <1>2, <1>4
<1>6. kept \subseteq C \ {u} /\ kept \in SUBSET Lit /\ \A l \in kept : l \in Lit /\ IsFalse(Core, l)
  BY <1>4 DEF Minimizes
<1>7. Decisions(Core.trail, Core.trail_lim, Core.qhead) /\ Core.trail_lim = trail_lim
      /\ D \in Nat /\ D # 0
  <2>1. Decisions(trail, trail_lim, qhead)
    BY TrailShape
  <2> QED  BY <2>1, CoreShape, DecisionsShape
<1> HIDE DEF Inv, C
<1>8. \A l \in kept : /\ level(Core, l) \in 0..D /\ level(Core, l) # D
                      /\ level(Core, l) = levelAt(Core, trail_index(Core, l))
                      /\ trail_index(Core, l) \in Nat
  BY <1>2, <1>4, <1>6, FalseIndex
<1>9. CASE kept = {}
  <2> HIDE DEF lits
  <2>1. lev = 0
    BY <1>9
  <2>2. 0 \in Nat /\ 0 < D
    BY <1>7
  <2> QED  BY <1>3, <1>5, <1>6, <1>9, <2>1, <2>2 DEF Analyzed, lits
<1>10. CASE kept # {}
  <2>1. /\ lits \in Seq(Lit) /\ Len(lits) > 1 /\ ToSet(lits) = kept \cup {u} /\ lits[1] = u
        /\ lits[2] \in kept
        /\ \A l \in kept : trail_index(Core, l) <= trail_index(Core, lits[2])
    BY <1>5, <1>6, <1>10, LearntLits
  <2> HIDE DEF lits
  <2>2. lev = level(Core, lits[2])
    BY <1>10
  <2>3. lev \in Nat /\ lev < D
    BY <1>7, <1>8, <2>1, <2>2
  <2> HIDE DEF lev
  <2>4. ASSUME NEW l \in kept
        PROVE  level(Core, l) <= lev
    <3> DEFINE i == trail_index(Core, l)
               j == trail_index(Core, lits[2])
    <3>1. i <= j /\ i \in Int /\ j \in Int
      BY <1>8, <2>1
    <3>2. level(Core, l) = levelAt(Core, i) /\ lev = levelAt(Core, j)
      BY <1>8, <2>1, <2>2
    <3> HIDE DEF i, j, SoundInv
    <3>3. levelAt(Core, i) <= levelAt(Core, j)
      BY <1>7, <3>1, LevelIs
    <3> QED  BY <3>2, <3>3
  <2>5. Analyzed(u, kept, w, lits, lev)
    BY <1>3, <1>5, <1>6, <1>10, <2>1, <2>3, <2>4 DEF Analyzed
  <2> QED  BY <2>5 DEF lits, lev
<1> QED  BY <1>9, <1>10

\* Backjump and learn, with the explanations of the entries E.
Learns(E, u, kept, w, lits, lev, cs, from, t) ==
  /\ cs = IF kept = {} THEN Explain(E).ca ELSE alloc(Explain(E).ca, lits, w, TRUE)
  /\ from = IF kept = {} THEN Undef ELSE NewRef(Explain(E).ca)
  /\ t = uncheckedEnqueue(cancelUntil([Core EXCEPT !.trail = Explain(E).trail], lev), u, from, {})

\* The learnt clause is added and, after the jump, implies its first literal.
LEMMA SoundLearns ==
  ASSUME Inv, SoundInv, NEW E, \A i \in E : i \in DOMAIN trail /\ trail[i].reason = Lazy,
         NEW u, NEW kept, NEW w, NEW lits, NEW lev, Analyzed(u, kept, w, lits, lev),
         NEW to, NEW from, NEW t, Learns(E, u, kept, w, lits, lev, to, from, t)
  PROVE  /\ Database(to, intro, assertionLevel, inputs)
         /\ Sound(t, to, intro, assertionLevel, inputs) /\ HasFields(t)
<1> DEFINE x == [Core EXCEPT !.trail = Explain(E).trail]
           cs == Explain(E).ca
           s == cancelUntil(x, lev)
           none == {}
<1>1. /\ Database(cs, intro, assertionLevel, inputs)
      /\ Sound(x, cs, intro, assertionLevel, inputs) /\ Sync(x, intro, assertionLevel)
      /\ x.trail_lim = trail_lim /\ Len(x.trail) = Len(trail) /\ DOMAIN x.trail = DOMAIN trail
      /\ \A i \in DOMAIN trail : x.trail[i].lit = trail[i].lit
  BY SoundExplained
<1>2. /\ u \in Lit /\ IsFalse(Core, u) /\ AtTop(trail_lim, trail_index(Core, u))
      /\ kept \in SUBSET Lit /\ \A l \in kept : IsFalse(Core, l) /\ level(Core, l) <= lev
      /\ w \in 0..assertionLevel /\ Follow(kept \cup {u}, w, intro, inputs)
      /\ lev \in Nat /\ lev < Len(trail_lim)
      /\ kept # {} => /\ lits \in Seq(Lit) /\ Len(lits) > 1 /\ ToSet(lits) = kept \cup {u}
                      /\ lits[1] = u
      /\ kept = {} => lev = 0
  BY DEF Analyzed
<1>3. /\ to = IF kept = {} THEN cs ELSE alloc(cs, lits, w, TRUE)
      /\ from = IF kept = {} THEN Undef ELSE NewRef(cs)
      /\ t = uncheckedEnqueue(s, u, from, none)
  BY DEF Learns
<1>4. /\ Introduced(intro, assertionLevel) /\ assertionLevel \in 0..MaxLevel
      /\ assertionLevel \in Nat /\ MaxLevel \in Nat /\ problem \in Problems
  BY SoundParts, InvCore
<1> HIDE DEF x, cs, SoundInv, Inv
<1>5. /\ Sound(s, cs, intro, assertionLevel, inputs) /\ HasFields(s)
      /\ Len(s.trail_lim) = lev
      /\ \A l \in Lit : IsFalse(Core, l) /\ AtTop(trail_lim, trail_index(Core, l)) => IsUndef(s, l)
      /\ \A l \in Lit : IsFalse(Core, l) /\ level(Core, l) <= lev => IsFalse(s, l)
  BY <1>1, <1>2, Backjump DEF Inv, SoundInv
<1> HIDE DEF s, none
<1>6. IsUndef(s, u) /\ \A l \in kept : IsFalse(s, l)
  BY <1>2, <1>5
<1>7. w \in Nat /\ w \in 0..MaxLevel /\ w <= assertionLevel
  BY <1>2, <1>4
<1>8. intro[Abs(u)] # -1
  <2>1. Abs(u) \in Vars(kept \cup {u})
    BY DEF Vars
  <2>2. intro[Abs(u)] \in 0..w
    BY <1>2, <2>1 DEF Follow
  <2> QED  BY <1>7, <2>2
<1>9. none \in {{}} \cup Theory
  BY DEF none
<1>10. CASE kept = {}
  <2>1. to = cs /\ from = Undef /\ lev = 0
    BY <1>2, <1>3, <1>10
  <2>2. s.trail_lim = <<>>
    BY <1>5, <2>1, SoundShape
  <2>3. Entails(AssertedIn(inputs, assertionLevel), {u})
    <3> DEFINE X == {u}
    <3>1. kept \cup {u} = X /\ X \in SUBSET Lit
      BY <1>2, <1>10
    <3> HIDE DEF X
    <3>2. Entails(AssertedIn(inputs, w), X)
      BY <1>2, <3>1 DEF Follow
    <3>3. Entails(AssertedIn(inputs, assertionLevel), X)
      BY <1>4, <1>7, <3>1, <3>2, EntailsMore
    <3> QED  BY <3>3 DEF X
  <2>4. from \in Nat \cup {Lazy} /\ from # Lazy /\ ~ (from > 0)
    BY <2>1 DEF Undef, Lazy
  <2>5. Enqueues(s, cs, intro, inputs, u, from, none)
    BY <1>2, <1>6, <1>8, <1>9, <2>2, <2>3, <2>4 DEF Enqueues
  <2>6. Sound(t, cs, intro, assertionLevel, inputs) /\ HasFields(t)
    BY <1>1, <1>3, <1>4, <1>5, <2>5, Enqueued
  <2> QED  BY <1>1, <2>1, <2>6
<1>11. CASE kept # {}
  <2>0. PICK yes \in BOOLEAN : yes = TRUE
    OBVIOUS
  <2>1. to = alloc(cs, lits, w, yes) /\ from = NewRef(cs)
    BY <1>3, <1>11, <2>0
  <2>2. /\ lits \in Seq(Lit) /\ Len(lits) > 1 /\ ToSet(lits) = kept \cup {u} /\ lits[1] = u
    BY <1>2, <1>11
  <2>3. Follow(ToSet(lits), w, intro, inputs)
    BY <1>2, <2>2
  <2>4. Database(to, intro, assertionLevel, inputs)
    BY <1>1, <1>4, <1>7, <2>1, <2>2, <2>3, DatabaseAlloc
  <2>5. IsFiniteSet(DOMAIN cs)
    BY <1>1 DEF Database
  <2>6. Sound(s, to, intro, assertionLevel, inputs)
    BY <1>5, <2>1, <2>5, SoundAlloc
  <2>7. from \in Nat /\ from > 0 /\ from # Undef /\ from # Lazy
    BY <2>1, <2>5, RefNew
  <2>8. from \in DOMAIN to /\ to[from].lits = lits
    BY <2>1 DEF alloc
  <2>9. Enqueues(s, to, intro, inputs, u, from, none)
    BY <1>2, <1>6, <1>8, <1>9, <2>2, <2>7, <2>8 DEF Enqueues
  <2>10. Sound(t, to, intro, assertionLevel, inputs) /\ HasFields(t)
    <3>1. /\ problem \in Problems /\ assertionLevel \in 0..MaxLevel
          /\ Introduced(intro, assertionLevel) /\ HasFields(s)
          /\ t = uncheckedEnqueue(s, u, from, none)
      BY <1>3, <1>4, <1>5
    <3> QED  BY <3>1, <2>4, <2>6, <2>9, Enqueued, Zenon
  <2> QED  BY <2>4, <2>10
<1> QED  BY <1>10, <1>11

\* The conflict is analysed.
LEMMA SoundConflict ==
  ASSUME Inv, SoundInv, Conflict
  PROVE  StaysSound
<1>1. PICK none : none = <<>>
  OBVIOUS
<1>2. PICK ty \in {"with", "final"} : ty = "with"
  OBVIOUS
<1> DEFINE r == Resolution
           u == CHOOSE l \in AtCurrent(r.lits) : TRUE
           rest == r.lits \ {u}
           gone == {l \in rest : trail_index(Core, l) \in Redundant(rest)}
           kept == rest \ gone
           w == LearntLevel(r.level, gone)
           lits == <<u>> \o ByRank([l \in kept |-> trail_index(Core, l)])
           lev == IF kept = {} THEN 0 ELSE level(Core, lits[2])
           lazy(I) == {i \in I \cap DOMAIN trail : trail[i].reason = Lazy}
           asked == lazy(r.on \cup Indices(r.lits))
           later == lazy(Visited(rest))
<1>3. pc = "conflict" /\ decisionLevel(Core) > 0 /\ UNCHANGED <<intro, userVars>>
  BY DEF Conflict
<1>4. PICK more \in SUBSET later :
        LET x == Explain(asked \cup more)
            s == cancelUntil([Core EXCEPT !.trail = x.trail], lev)
            t == uncheckedEnqueue(s, u, IF kept = {} THEN Undef ELSE NewRef(x.ca), {})
        IN  /\ ca' = IF kept = {} THEN x.ca ELSE alloc(x.ca, lits, w, TRUE)
            /\ Becomes(t) /\ \E ls \in LemmasOnCancel(<<>>, lev) : Propagate(t, ls, "with")
  BY Zenon DEF Conflict
<1> DEFINE E == asked \cup more
<1>5. \A i \in E : i \in DOMAIN trail /\ trail[i].reason = Lazy
  <2>1. \A i \in later : i \in DOMAIN trail /\ trail[i].reason = Lazy
    OBVIOUS
  <2>2. \A i \in asked : i \in DOMAIN trail /\ trail[i].reason = Lazy
    OBVIOUS
  <2> HIDE DEF asked, later
  <2> QED  BY <2>1, <2>2
<1>6. Minimizes(rest, gone, kept)
  BY DEF Minimizes
<1> HIDE DEF E, asked, later
<1>7. trail_lim # <<>>
  <2>1. Len(trail_lim) > 0
    BY <1>3, CoreShape DEF decisionLevel
  <2>2. Decisions(trail, trail_lim, qhead)
    BY TrailShape
  <2>3. trail_lim = <<>> <=> Len(trail_lim) = 0
    BY <2>2, DecisionsShape
  <2> QED  BY <2>1, <2>3
<1>8. ConflictIn(confl, trail, trail_lim, ca, assertionLevel, inputs)
  BY <1>3, DecideState
<1> HIDE DEF r, kept, gone, w
<1>9. Analyzed(u, kept, w, lits, lev)
  <2>1. u = (CHOOSE l \in AtCurrent(r.lits) : TRUE) /\ rest = r.lits \ {u} /\ r = Resolution
        /\ w = LearntLevel(r.level, gone)
    BY DEF r, w
  <2> HIDE DEF u, rest
  <2>2. Analyzed(u, kept, w, LearntClause(u, kept), JumpLevel(u, kept))
    BY <1>6, <1>7, <1>8, <2>1, AnalysisIs, Zenon
  <2>3. lits = LearntClause(u, kept)
    BY Zenon DEF LearntClause
  <2>4. lev = JumpLevel(u, kept)
    BY <2>3, Zenon DEF JumpLevel
  <2> QED  BY <2>2, <2>3, <2>4, Zenon
<1> HIDE DEF u, lits, lev, rest
<1>10. PICK cs, from, t :
        /\ Learns(E, u, kept, w, lits, lev, cs, from, t) /\ ca' = cs
        /\ Becomes(t)
        /\ \E ls \in LemmasOnCancel(none, lev) : Propagate(t, ls, ty)
  <2> DEFINE x == Explain(E)
             s == cancelUntil([Core EXCEPT !.trail = x.trail], lev)
             from == IF kept = {} THEN Undef ELSE NewRef(x.ca)
             t == uncheckedEnqueue(s, u, from, {})
  <2>1. /\ ca' = IF kept = {} THEN x.ca ELSE alloc(x.ca, lits, w, TRUE)
        /\ Becomes(t) /\ \E ls \in LemmasOnCancel(<<>>, lev) : Propagate(t, ls, "with")
    BY <1>4, Zenon DEF E
  <2>2. Learns(E, u, kept, w, lits, lev, ca', from, t)
    BY <2>1, Zenon DEF Learns
  <2> HIDE DEF t, from
  <2>3. \E ls \in LemmasOnCancel(none, lev) : Propagate(t, ls, ty)
    BY <2>1, <1>1, <1>2, Zenon
  <2> QED  BY <2>1, <2>2, <2>3, Zenon
<1>11. PICK ls \in LemmasOnCancel(none, lev) : Propagate(t, ls, ty)
  BY <1>10
<1>12. lev \in Nat
  BY <1>9 DEF Analyzed
<1> HIDE DEF Inv, SoundInv
<1>13. Database(cs, intro, assertionLevel, inputs) /\ Sound(t, cs, intro, assertionLevel, inputs)
       /\ HasFields(t)
  BY <1>5, <1>9, <1>10, SoundLearns
<1>14. Pending(none, intro, inputs)
  BY <1>1, PendingNone
<1>15. Pending(ls, intro, inputs)
  BY <1>12, <1>14, PendingCancel
<1>16. /\ Introduced(intro, assertionLevel)
       /\ Levels(assertionLevel, ok, inputs, trail_ok, checks, answer)
  BY SoundParts
<1>17. /\ intro' = intro /\ assertionLevel' = assertionLevel /\ ok' = ok /\ trail_ok' = trail_ok
       /\ answer' = answer /\ inputs' = inputs /\ checks' = checks
  BY <1>3 DEF userVars
<1>18. /\ Introduced(intro', assertionLevel') /\ Database(ca', intro', assertionLevel', inputs')
       /\ Sound(t, ca', intro', assertionLevel', inputs')
       /\ Levels(assertionLevel', ok', inputs', trail_ok', checks', answer')
       /\ Pending(ls, intro', inputs')
  BY <1>10, <1>13, <1>15, <1>16, <1>17
<1> QED  BY <1>10, <1>11, <1>13, <1>18, StaysPropagate

-----------------------------------------------------------------------------
(* The invariant. *)

\* What a step has to show is enough.
LEMMA SoundStays ==
  ASSUME StaysSound, UNCHANGED problem
  PROVE  SoundInv'
BY SoundNext DEF StaysSound

\* Nothing is asserted, assigned or answered.
LEMMA SoundInit ==
  ASSUME Init
  PROVE  SoundInv
<1> DEFINE ins == [u \in 0..MaxLevel |-> {}]
<1>1. /\ problem \in Problems /\ assertionLevel = 0 /\ update = NoUpdate /\ qhead = 0
      /\ trail = <<>> /\ trail_lim = <<>> /\ queue = <<>> /\ facts = <<>> /\ saved = <<>>
      /\ variables_to_register = <<>> /\ known = {} /\ order_heap = {}
      /\ intro = [v \in Atom |-> -1] /\ ca = <<>> /\ lemmas = <<>> /\ order = <<>>
      /\ ok = TRUE /\ trail_ok = <<>> /\ checks = 0 /\ pc = "user" /\ type = "with"
      /\ confl = Undef /\ watching = {} /\ recheck = FALSE /\ answer = "none" /\ inputs = ins
  BY DEF Init
<1>2. DOMAIN <<>> = {} /\ Len(<<>>) = 0
  OBVIOUS
<1>3. MaxLevel \in Nat /\ problem.checks \in Nat
  BY <1>1, SolverAssumption DEF Problem
<1>4. Introduced(intro, assertionLevel)
  <2>1. -1 \in -1..MaxLevel
    BY <1>3
  <2> QED  BY <1>1, <2>1 DEF Introduced
<1>5. Database(ca, intro, assertionLevel, inputs)
  <2>1. DOMAIN ca = {} /\ IsFiniteSet({})
    BY <1>1, <1>2, FS_EmptySet
  <2>2. ca = [c \in {} |-> ca[c]]
    BY <1>1
  <2>3. ca \in [{} -> [lits : Seq(Lit), level : 0..MaxLevel, removable : BOOLEAN]]
    BY <2>1, <2>2
  <2> QED  BY <2>1, <2>3 DEF Database
<1>6. Sound(Core, ca, intro, assertionLevel, inputs)
  <2>1. /\ Core.trail = <<>> /\ Core.trail_lim = <<>> /\ Core.qhead = 0 /\ Core.queue = <<>>
        /\ Core.facts = <<>> /\ Core.known = {} /\ Core.saved = <<>> /\ Core.regs = <<>>
        /\ Core.order_heap = {}
    BY <1>1, CoreShape
  <2>2. \A S : <<>> \in Seq(S)
    OBVIOUS
  <2>3. Graph(Core.trail, ca, intro, assertionLevel)
    BY <1>2, <2>1, <2>2 DEF Graph
  <2>4. Decisions(Core.trail, Core.trail_lim, Core.qhead)
    BY <1>2, <2>1, <2>2 DEF Decisions
  <2>5. Fixed(Core.trail, Core.trail_lim, inputs)
    BY <1>2, <2>1 DEF Fixed
  <2>6. Decidable(Core, intro)
    BY <1>1 DEF Decidable
  <2>7. CoreTyped(Core)
    BY <2>1, <2>2 DEF CoreTyped
  <2> QED  BY <2>3, <2>4, <2>5, <2>6, <2>7 DEF Sound
<1>7. Levels(assertionLevel, ok, inputs, trail_ok, checks, answer)
  <2>1. ins \in [0..MaxLevel -> SUBSET SUBSET Lit]
    OBVIOUS
  <2>2. <<>> \in Seq(BOOLEAN)
    OBVIOUS
  <2> HIDE DEF ins
  <2> QED  BY <1>1, <1>2, <1>3, <2>1, <2>2 DEF Levels
<1>8. Updating(lemmas, order, update, pc, Core, ca, intro, assertionLevel, inputs)
  <2>1. Pending(lemmas, intro, inputs)
    BY <1>1, PendingNone
  <2>2. order \in Seq(Seq(Lit)) /\ Len(order) = 0 /\ Len(lemmas) = 0 /\ DOMAIN order = {}
    BY <1>1, <1>2
  <2>3. update.conflict = Undef
    BY <1>1 DEF NoUpdate
  <2> QED  BY <1>1, <2>1, <2>2, <2>3 DEF Updating
<1>9. Searching(pc, type, recheck, answer, watching, confl, Core, ca, assertionLevel, inputs)
  <2>1. Core.trail_lim = <<>>
    BY <1>1, CoreShape
  <2> QED  BY <1>1, <2>1 DEF Searching
<1> QED  BY <1>4, <1>5, <1>6, <1>7, <1>8, <1>9 DEF SoundInv

\* Nothing changes.
LEMMA SoundStutters ==
  ASSUME SoundInv, UNCHANGED vars
  PROVE  SoundInv'
<1>1. /\ Core' = Core /\ ca' = ca /\ intro' = intro /\ assertionLevel' = assertionLevel
      /\ inputs' = inputs /\ ok' = ok /\ trail_ok' = trail_ok /\ checks' = checks
      /\ answer' = answer /\ lemmas' = lemmas /\ order' = order /\ update' = update
      /\ pc' = pc /\ type' = type /\ recheck' = recheck /\ watching' = watching
      /\ confl' = confl /\ problem' = problem
  BY DEF vars, coreVars, userVars, Core
<1>2. StaysSound
  BY <1>1, SoundParts DEF StaysSound
<1> QED  BY <1>1, <1>2, SoundStays

\* Each step of the search preserves the invariant.
LEMMA SoundSearch ==
  ASSUME Inv, SoundInv, Calm, Search
  PROVE  StaysSound
<1>5. CASE NextFact
  BY <1>5, SoundNextFact
<1>6. ASSUME NEW c \in watching, VisitWatch(c)
      PROVE  StaysSound
  BY <1>6, SoundVisitWatch
<1>7. CASE BoolDone
  BY <1>7, SoundBoolDone
<1>8. CASE TheoryCheck
  BY <1>8, SoundTheoryCheck
<1>9. ASSUME NEW t \in Theory, TheorySends(t)
      PROVE  StaysSound
  <2> DEFINE removable == t \in Removable
  <2>1. TheoryLemma(t, removable)
    BY <1>9 DEF TheorySends
  <2>2. removable \in BOOLEAN
    OBVIOUS
  <2> HIDE DEF removable
  <2> QED  BY <2>1, <2>2, SoundTheoryLemma
<1>10. ASSUME NEW t \in Theory, NEW l \in t, TheoryRefutes(t, l)
       PROVE  StaysSound
  <2>1. PICK removable \in BOOLEAN : removable = TRUE
    OBVIOUS
  <2> QED  BY <1>10, <2>1, SoundTheoryLemma DEF TheoryRefutes
<1>11. ASSUME NEW t \in Theory, NEW l \in t, TheoryPropagates(t, l)
       PROVE  StaysSound
  BY <1>11, SoundTheoryPropagates
<1>12. CASE TheoryDone
  BY <1>12, SoundTheoryDone
<1>13. CASE SortLemmas
  BY <1>13, SoundSortLemmas
<1>14. CASE AttachLemma
  BY <1>14, SoundAttachLemma
<1>15. CASE LemmasDone
  BY <1>15, SoundLemmasDone
<1>16. CASE ConflictAtZero
  BY <1>16, SoundConflictAtZero
<1>17. CASE Conflict
  BY <1>17, SoundConflict
<1>18. CASE Final
  BY <1>18, SoundFinal
<1>19. CASE Restart
  BY <1>19, SoundRestart
<1>20. CASE Interrupt
  BY <1>20, SoundInterrupt
<1>21. CASE simplify
  BY <1>21, SoundSimplify
<1>22. ASSUME NEW gone, reduceDB(gone)
       PROVE  StaysSound
  BY <1>22, SoundReduceDB
<1>23. ASSUME NEW l \in Lit, Decide(l)
       PROVE  StaysSound
  BY <1>23, SoundDecides
<1>24. CASE AllDecided
  BY <1>24, SoundAllDecided
<1> QED  BY <1>5, <1>6, <1>7, <1>8, <1>9, <1>10, <1>11, <1>12, <1>13, <1>14, <1>15, <1>16, <1>17,
            <1>18, <1>19, <1>20, <1>21, <1>22, <1>23, <1>24, Zenon DEF Search

\* Each step preserves the invariant.
LEMMA SoundStep ==
  ASSUME Inv, SoundInv, Calm, [Next]_vars
  PROVE  SoundInv'
<1>1. ASSUME User, UNCHANGED problem
      PROVE  SoundInv'
  <2>1. CASE push
    BY <1>1, <2>1, SoundPush, SoundStays
  <2>2. CASE pop
    BY <1>1, <2>2, SoundPop, SoundStays
  <2>3. CASE solve
    BY <1>1, <2>3, SoundSolve, SoundStays
  <2>4. ASSUME NEW C \in Input, addClause(C)
        PROVE  SoundInv'
    BY <1>1, <2>4, SoundAddClause, SoundStays
  <2> QED  BY <1>1, <2>1, <2>2, <2>3, <2>4 DEF User
<1>2. ASSUME Search, UNCHANGED problem
      PROVE  SoundInv'
  BY <1>2, SoundSearch, SoundStays
<1>3. CASE UNCHANGED vars
  BY <1>3, SoundStutters
<1>4. CASE Next
  <2>1. UNCHANGED problem /\ (User \/ Search)
    BY <1>4 DEF Next
  <2> QED  BY <1>1, <1>2, <2>1
<1> QED  BY <1>3, <1>4

\* The invariant, with Inv and Calm.
LEMMA SoundAlways ==
  ASSUME Calm
  PROVE  Spec => [](Inv /\ SoundInv)
<1>1. Init => Inv /\ SoundInv
  BY InvInit, SoundInit
<1>2. Inv /\ SoundInv /\ [Next]_vars => Inv' /\ SoundInv'
  BY InvNext, SoundStep
<1> QED  BY <1>1, <1>2, PTL DEF Spec

-----------------------------------------------------------------------------
(* What the invariant says. *)

\* A sequence over a set is one over a larger set.
LEMMA SequenceMore ==
  ASSUME NEW S, NEW T, S \subseteq T, NEW s \in Seq(S)
  PROVE  s \in Seq(T)
<1>1. IsSequence(s) /\ \A i \in 1..Len(s) : s[i] \in T
  BY SequenceOver, ElementOfSeq
<1> QED  BY <1>1, SequenceWithin

\* The state has the shape of the fields of Solver.
LEMMA SoundTypeOK ==
  ASSUME Inv, SoundInv
  PROVE  TypeOK
<1>1. /\ Introduced(intro, assertionLevel)
      /\ Database(ca, intro, assertionLevel, inputs)
      /\ Levels(assertionLevel, ok, inputs, trail_ok, checks, answer)
      /\ Updating(lemmas, order, update, pc, Core, ca, intro, assertionLevel, inputs)
      /\ Searching(pc, type, recheck, answer, watching, confl, Core, ca, assertionLevel, inputs)
  BY SoundParts
<1>2. trail \in Seq(Entry) /\ qhead \in 0..Len(trail) /\ Decisions(trail, trail_lim, qhead)
  BY TrailShape
<1>3. CoreTyped(Core) /\ problem \in Problems /\ MaxLevel \in Nat
  BY SoundParts, InvCore DEF Sound
<1> HIDE DEF SoundInv
<1>4. trail_lim \in Seq(0..Len(trail))
  <2>0. Len(trail) \in Nat
    BY <1>2, EntryLits
  <2>1. /\ trail_lim \in Seq(Nat) /\ Len(trail_lim) \in Nat /\ DOMAIN trail_lim = 1..Len(trail_lim)
        /\ \A k \in 1..Len(trail_lim) : trail_lim[k] \in Nat /\ trail_lim[k] < Len(trail)
    BY <1>2, DecisionsShape
  <2>2. \A k \in 1..Len(trail_lim) : trail_lim[k] \in 0..Len(trail)
    BY <2>0, <2>1
  <2>3. IsSequence(trail_lim)
    BY <2>1, SequenceOver
  <2> QED  BY <2>2, <2>3, SequenceWithin
<1>5. TheoryAtom \subseteq Atom
  BY <1>3, TheoryAtoms
<1>6. /\ queue \in Seq(Lit) /\ facts \in Seq(Lit) /\ known \subseteq TheoryAtom
      /\ order_heap \subseteq Atom
      /\ saved \in Seq([queue : Seq(Lit), facts : Seq(Lit), known : SUBSET TheoryAtom])
      /\ variables_to_register \in Seq([var : TheoryAtom, level : Nat])
  BY <1>3, CoreShape DEF CoreTyped
<1>7. saved \in Seq(SavedContext)
  <2>1. [queue : Seq(Lit), facts : Seq(Lit), known : SUBSET TheoryAtom] \subseteq SavedContext
    BY <1>5 DEF SavedContext
  <2> QED  BY <1>6, <2>1, SequenceMore
<1>8. variables_to_register \in Seq([var : Atom, level : Nat])
  <2>1. [var : TheoryAtom, level : Nat] \subseteq [var : Atom, level : Nat]
    BY <1>5
  <2> QED  BY <1>6, <2>1, SequenceMore
<1>9. \A c \in DOMAIN ca : /\ ca[c].lits \in Seq(Lit) /\ Len(ca[c].lits) > 1
                           /\ ca[c].level \in 0..MaxLevel
                           /\ ca[c].removable \in BOOLEAN
  BY <1>1 DEF Database
<1>10. lemmas \in Seq([c : SUBSET Lit, removable : BOOLEAN]) /\ order \in Seq(Seq(Lit))
  BY <1>1 DEF Updating, Pending
<1>11. confl \in DOMAIN ca \cup {Undef, Lazy} /\ watching \subseteq DOMAIN ca
  BY <1>1 DEF Searching, ConflictIn
<1>12. intro \in [Atom -> -1..MaxLevel]
  BY <1>1 DEF Introduced
<1>13. /\ pc \in {"user", "bool", "theory", "output", "lemmas", "attach", "decide", "conflict"}
       /\ type \in {"without", "with", "final"} /\ recheck \in BOOLEAN
  BY <1>1 DEF Searching
<1>14. /\ assertionLevel \in 0..MaxLevel /\ ok \in BOOLEAN
       /\ trail_ok \in Seq(BOOLEAN) /\ Len(trail_ok) = assertionLevel
       /\ checks \in 0..problem.checks /\ answer \in {"none", "sat", "unsat", "unknown"}
  BY <1>1 DEF Levels
<1> QED  BY <1>2, <1>4, <1>6, <1>7, <1>8, <1>9, <1>10, <1>11, <1>12, <1>13, <1>14 DEF TypeOK

\* What has no reason has no premises.
LEMMA NoPremises ==
  ASSUME NEW e, e.reason = Undef
  PROVE  Premises(e) = {}
<1>1. e.reason # Lazy
  BY DEF Undef, Lazy
<1> QED  BY <1>1, Zenon DEF Premises

\* Reasons precede what they imply.
LEMMA SoundPrecede ==
  ASSUME Inv, SoundInv
  PROVE  ReasonsPrecede
<1>1. Graph(trail, ca, intro, assertionLevel) /\ \A i \in DOMAIN trail : trail[i].lit \in Lit
  BY TrailShape
<1>2. ASSUME NEW i \in DOMAIN trail
      PROVE  /\ \A j \in DOMAIN trail : Abs(trail[j].lit) = Abs(trail[i].lit) => j = i
             /\ trail[i].reason > 0 => /\ trail[i].reason \in DOMAIN ca
                                       /\ ca[trail[i].reason].lits[1] = trail[i].lit
                                       /\ ca[trail[i].reason].level <= trail[i].user
  BY <1>1 DEF Graph, Rests
<1>3. ASSUME NEW i \in DOMAIN trail, NEW l \in Premises(trail[i])
      PROVE  IsFalse(Core, l) /\ trail_index(Core, l) < i
  <2>1. CASE trail[i].reason = Undef
    BY <1>3, <2>1, NoPremises
  <2>2. CASE trail[i].reason # Undef
    BY <2>2, ReasonFollows
  <2> QED  BY <2>1, <2>2
<1> QED  BY <1>2, <1>3, Zenon DEF ReasonsPrecede

\* What is asserted up to a level, as the properties write it.
LEMMA AssertedIs ==
  \A u : Asserted(u) = AssertedIn(inputs, u)
BY DEF Asserted, AssertedIn

\* The trail is right.
LEMMA SoundTrail ==
  ASSUME Inv, SoundInv
  PROVE  TrailRight
<1>1. TypeOK /\ ReasonsPrecede
  BY SoundTypeOK, SoundPrecede
<1>2. /\ Levels(assertionLevel, ok, inputs, trail_ok, checks, answer)
      /\ Sound(Core, ca, intro, assertionLevel, inputs)
  BY SoundParts
<1>3. trail \in Seq(Entry) /\ DOMAIN trail = 1..Len(trail) /\ Len(trail) \in Nat
      /\ Decisions(trail, trail_lim, qhead) /\ \A i \in DOMAIN trail : trail[i].lit \in Lit
  BY TrailShape
<1>4. \A i \in DOMAIN trail :
        levelAt(Core, i) = 0 => Entails(Asserted(trail[i].user), {trail[i].lit})
  <2>1. ASSUME NEW i \in DOMAIN trail, levelAt(Core, i) = 0
        PROVE  Entails(Asserted(trail[i].user), {trail[i].lit})
    <3>1. i \in Int
      BY <1>3
    <3>2. AtZero(trail_lim, i)
      BY <1>3, <2>1, <3>1, CoreShape, LevelIs
    <3> QED  BY <1>2, <3>2, AssertedIs, CoreShape DEF Sound, Fixed
  <2> QED  BY <2>1
<1>5. ~ok => ~Consistent({}, Asserted(assertionLevel))
  BY <1>2, AssertedIs DEF Levels, Inconsistent
<1>6. \A u \in DOMAIN trail_ok : ~trail_ok[u] => ~Consistent({}, Asserted(u - 1))
  BY <1>2, AssertedIs DEF Levels, Inconsistent
<1>7. NothingUndecidable
  <2>1. ASSUME NEW v \in Atom, intro[v] # -1, IsUndef(Core, v)
        PROVE  v \in order_heap
    <3>1. v \notin Vars(Lits(trail))
      BY <2>1, VarOf
    <3> QED  BY <1>2, <2>1, <3>1, CoreShape DEF Sound, Decidable
  <2> QED  BY <2>1 DEF NothingUndecidable, unassigned
<1> HIDE DEF SoundInv, Inv
<1>8. ZeroLevelEntailed
  BY <1>4, <1>5, <1>6 DEF ZeroLevelEntailed
<1> QED  BY <1>1, <1>7, <1>8 DEF TrailRight

\* The clauses are entailed.
LEMMA SoundEntailed ==
  ASSUME SoundInv
  PROVE  ClausesEntailed
<1>1. Database(ca, intro, assertionLevel, inputs)
  BY SoundParts
<1> QED  BY <1>1, AssertedIs DEF Database, Follow, ClausesEntailed, Clause

\* The conflict is current.
LEMMA SoundCurrent ==
  ASSUME SoundInv
  PROVE  ConflictIsCurrent
<1> SUFFICES ASSUME pc = "conflict", decisionLevel(Core) > 0
             PROVE  /\ confl \in DOMAIN ca
                    /\ \A l \in Clause(confl) : IsFalse(Core, l)
                    /\ AtCurrent(Clause(confl)) # {}
  BY DEF ConflictIsCurrent
<1>1. ConflictIn(confl, trail, trail_lim, ca, assertionLevel, inputs)
  BY DecideState
<1>2. trail_lim # <<>> /\ decisionLevel(Core) = Len(trail_lim)
  <2>1. decisionLevel(Core) = Len(trail_lim)
    BY CoreShape DEF decisionLevel
  <2>2. trail_lim = <<>> <=> Len(trail_lim) = 0
    BY TrailShape, DecisionsShape
  <2> QED  BY <2>1, <2>2
<1>3. /\ confl \in DOMAIN ca /\ \A l \in Clause(confl) : IsFalse(Core, l)
  BY <1>1, <1>2, CoreShape DEF ConflictIn, Clause, IsFalse
<1>4. PICK i \in DOMAIN trail : -trail[i].lit \in Clause(confl) /\ AtTop(trail_lim, i)
  BY <1>1, <1>2 DEF ConflictIn, Clause
<1> DEFINE l == -trail[i].lit
<1>5. trail[i].lit \in Lit /\ l \in Lit /\ i \in Int
      /\ Graph(trail, ca, intro, assertionLevel) /\ Decisions(trail, trail_lim, qhead)
  BY TrailShape, LitFacts
<1>6. level(Core, l) = levelAt(Core, i)
  BY <1>5, CoreShape, AssignedAt
<1>7. levelAt(Core, i) = Len(trail_lim)
  BY <1>4, <1>5, CoreShape, LevelIs
<1>8. l \in AtCurrent(Clause(confl))
  BY <1>2, <1>4, <1>6, <1>7 DEF AtCurrent
<1> QED  BY <1>3, <1>8

\* The answer unsat is right.
LEMMA SoundUnsat ==
  ASSUME SoundInv
  PROVE  answer = "unsat" => ~Consistent({}, Asserted(assertionLevel))
BY SoundParts, AssertedIs DEF Levels, Inconsistent

-----------------------------------------------------------------------------
(* The theorems. *)

\* The trail is a well-founded implication graph in clauses that live as long as what
\* they imply, what is assigned at decision level 0 and what ok says follows from the
\* assertions of its own user levels, and no unassigned variable is lost to the heap:
\* through every propagation, lemma, learnt clause, backjump, restart, cleaning of the
\* database, push and pop.
THEOREM TrailStaysRight ==
  ASSUME Calm
  PROVE  Spec => []TrailRight
<1>1. Spec => [](Inv /\ SoundInv)
  BY SoundAlways
<1>2. Inv /\ SoundInv => TrailRight
  BY SoundTrail
<1> QED  BY <1>1, <1>2, PTL

\* Whatever analyze learns, and explanations and lemmas add, follows from the theories
\* and from what is asserted at user levels up to that of the clause: pop() leaves no
\* clause that rests on what it removed.
THEOREM ClausesStayEntailed ==
  ASSUME Calm
  PROVE  Spec => []ClausesEntailed
<1>1. Spec => [](Inv /\ SoundInv)
  BY SoundAlways
<1>2. Inv /\ SoundInv => ClausesEntailed
  BY SoundEntailed
<1> QED  BY <1>1, <1>2, PTL

\* When analyze runs, its conflict is a clause of the database, all its literals are
\* false, and one of them was assigned at the current decision level.
THEOREM ConflictsAreCurrent ==
  ASSUME Calm
  PROVE  Spec => []ConflictIsCurrent
<1>1. Spec => [](Inv /\ SoundInv)
  BY SoundAlways
<1>2. Inv /\ SoundInv => ConflictIsCurrent
  BY SoundCurrent
<1> QED  BY <1>1, <1>2, PTL

\* An answer "unsat" is right: no assignment satisfies the theories and everything
\* that is asserted.
THEOREM UnsatIsRight ==
  ASSUME Calm
  PROVE  Spec => [](answer = "unsat" => ~Consistent({}, Asserted(assertionLevel)))
<1>1. Spec => [](Inv /\ SoundInv)
  BY SoundAlways
<1>2. Inv /\ SoundInv => (answer = "unsat" => ~Consistent({}, Asserted(assertionLevel)))
  BY SoundUnsat
<1> QED  BY <1>1, <1>2, PTL
=============================================================================
