---------------------------- MODULE TheoryEngine ----------------------------
(***************************************************************************)
(* How the theories share what they know (theory/theory_engine.cpp and     *)
(* theory/shared_terms_database.cpp, with sharing enabled). The literals   *)
(* that the SAT solver assigns go to the theories that own them and, if    *)
(* they are equalities, to the shared terms database, BUILTIN, which tells *)
(* every theory what follows about the terms it shares. Literals that      *)
(* theories deduce go to the SAT solver and to the database. Nobody keeps  *)
(* reasons: when the SAT solver asks for one, often much later,            *)
(* getExplanation follows d_propagationMap back to what the SAT solver had *)
(* asserted.                                                               *)
(*                                                                         *)
(* A theory is given by the assignments it allows, its models; what it     *)
(* deduces and how it explains it is the contract of Theory::explain: some *)
(* facts that it had been given when it deduced the literal first. The     *)
(* equality engine of the database (see EqualityEngine) is such a theory.  *)
(***************************************************************************)
EXTENDS Integers, Sequences, SequencesExt

CONSTANTS
  Theory,       \* the theories
  SAT,          \* THEORY_SAT_SOLVER
  BUILTIN,      \* THEORY_BUILTIN
  Term,         \* terms
  Predicate,    \* atoms that are not equalities
  Owner,        \* Theory::theoryOf of the predicates
  Equality,     \* the equalities that are SAT literals: pairs of terms, rewritten
  EqualityOwner,\* Theory::theoryOf of the equalities
  Model,        \* for each theory and BUILTIN, the models it allows
  Holds,        \* for each literal, the models in which it holds
  Deduced,      \* the equalities that theories may deduce
  Impossible,   \* the equalities that rewrite to false
  SharedIn,     \* for each atom, the pairs of a term in it and a theory that shares it
  Requests,     \* what lemmas ask for: triples of an equality in Equality, one of its
                \* two forms, and the theory that wants it
  MaxLevel,     \* bound on the decision levels
  MaxAhead      \* bound on what the SAT solver assigns ahead of the theories

(* An atom is a tuple: a predicate's has one element, an equality's two    *)
(* terms, and that of the constant has none. A literal is an atom with its *)
(* polarity.                                                               *)
False == <<<<>>, TRUE>>

Atom == Predicate \cup Equality
Literal == Atom \X BOOLEAN
Not(l) == <<l[1], ~l[2]>>

IsEquality(atom) == Len(atom) = 2

EngineAssumption ==
  /\ Equality \cup Deduced \subseteq Term \X Term
  /\ Owner \in [Predicate -> Theory] /\ EqualityOwner \in Theory
  /\ SharedIn \in [Atom -> SUBSET (Term \X Theory)]
  /\ \A r \in Requests : r[1] \in Equality /\ r[2] \in {r[1], <<r[1][2], r[1][1]>>}
  /\ Holds[False] = {}
  /\ DOMAIN Model = Theory \cup {BUILTIN} /\ \A t \in Theory : Model[t] \subseteq Model[BUILTIN]

VARIABLES
  engine,       \* the TheoryEngine and the database: see Start
  trail,        \* the SAT solver's: records [lit, theory], theory TRUE if propagated
  queue,        \* TheoryProxy::d_queue
  saved         \* what the context restores: the three above, for each level

vars == <<engine, trail, queue, saved>>

(* d_propagationMap, d_propagationMapTimestamp, d_propagatedLiterals with  *)
(* d_propagatedLiteralsIndex, d_inConflict, d_atomRequests; the facts that *)
(* each theory and the database have been given, in order; the terms of    *)
(* which each theory knows that they are shared. conflict is a history     *)
(* variable: the conflict that was last sent, see Conflict.                *)
Start ==
  [map |-> <<>>, timestamp |-> 0, propagated |-> <<>>, index |-> 0, inConflict |-> FALSE,
   requests |-> {}, facts |-> [t \in Theory \cup {BUILTIN} |-> <<>>],
   notified |-> [t \in Theory |-> {}], conflict |-> {}]
-----------------------------------------------------------------------------
Satisfies(t, F) == {m \in Model[t] : \A l \in F : m \in Holds[l]}

Entails(t, F, l) == Satisfies(t, F) \subseteq Holds[l]

Facts(s, t) == Range(s.facts[t])

(* Of facts F that entail l in theory t, the ones that are left when those *)
(* that are not needed are dropped, the latest first.                      *)
Core(t, l, F) ==
  LET keep[n \in 0 .. Len(F)] ==
        IF n = Len(F) THEN Range(F)
        ELSE LET without == keep[n + 1] \ {F[n + 1]}
             IN  IF Entails(t, without, l) THEN without ELSE keep[n + 1]
  IN  keep[0]

(* Theory::explain and SharedTermsDatabase::explain: the facts from which  *)
(* l followed when it first did, and none that is not needed.              *)
explain(s, t, l) ==
  LET F == s.facts[t]
      first == CHOOSE n \in 0 .. Len(F) :
                 /\ Entails(t, {F[i] : i \in 1 .. n}, l)
                 /\ \A k \in 0 .. n - 1 : ~Entails(t, {F[i] : i \in 1 .. k}, l)
  IN  Core(t, l, SubSeq(F, 1, first))

(* PropEngine::hasValue.                                                   *)
HasValue(l) == \E i \in DOMAIN trail : trail[i].lit = l
-----------------------------------------------------------------------------
(* Faulty variant of Sender: whatever the map says is the reason.          *)
SenderAnyTime(s, item) ==
  LET key == <<item.lit, item.theory>>
  IN  IF key \in DOMAIN s.map THEN {s.map[key]} ELSE {}

(* What sent the literal to the theory, if it was sent before the theory   *)
(* used it. Literals from one theory to another have one entry, the first. *)
Sender(s, item) ==
  LET key == <<item.lit, item.theory>>
  IN  IF key \in DOMAIN s.map /\ s.map[key].timestamp < item.timestamp
        THEN {s.map[key]} ELSE {}

(* getExplanation: the literals of the SAT solver that the item rests on.  *)
(* The loop of the code replaces each item by its reasons and would not    *)
(* end if an item came up again under itself; that is the result Loops.    *)
Loops == "loops"

RECURSIVE Explanation(_, _, _)
Explanation(s, item, above) ==
  IF item.theory = SAT THEN {item.lit}
  ELSE IF item \in above THEN {Loops}
  ELSE LET sender == Sender(s, item)
           reasons == IF sender # {} THEN sender
                      ELSE {[item EXCEPT !.lit = l] : l \in explain(s, item.theory, item.lit)}
       IN  UNION {Explanation(s, r, above \cup {item}) : r \in reasons}

Item(s, l, t) == [lit |-> l, theory |-> t, timestamp |-> s.timestamp]

(* TheoryEngine::conflict: the lemma that is sent.                         *)
Conflict(s, F, t) ==
  [s EXCEPT !.inConflict = TRUE,
            !.conflict = {UNION {Explanation(s, Item(s, l, t), {}) : l \in F}}]

(* The facts that t cannot have together, none of which is superfluous.    *)
Clash(s, t) == Core(t, False, s.facts[t])
-----------------------------------------------------------------------------
markPropagation(s, l, original, to, from) ==
  [s EXCEPT !.map = [k \in DOMAIN @ \cup {<<l, to>>} |->
                       IF k \in DOMAIN @ THEN @[k] ELSE Item(s, original, from)],
            !.timestamp = @ + 1]

Given(s, l, t) == [s EXCEPT !.facts[t] = Append(@, l)]

(* What the database tells the theories when its facts grow from those of  *)
(* s to those of s1: an equality or disequality between terms that theory  *)
(* t shares, one for two classes.                                          *)
Class(s, x) == {y \in Term : Entails(BUILTIN, Facts(s, BUILTIN), <<<<x, y>>, TRUE>>)}

Known(s, l) == Entails(BUILTIN, Facts(s, BUILTIN), l)

(* Of the terms shared with t, one in the class of x: its trigger.         *)
Trigger(s, t, x) == CHOOSE y \in Class(s, x) \cap s.notified[t] : TRUE

HasTrigger(s, t, x) == Class(s, x) \cap s.notified[t] # {}

(* Theory t shares terms of two classes that were not disequal in s and    *)
(* are in s1; x and y are their triggers.                                  *)
Separates(s, s1, t, x, y) ==
  /\ HasTrigger(s1, t, x) /\ x = Trigger(s1, t, x)
  /\ HasTrigger(s1, t, y) /\ y = Trigger(s1, t, y)
  /\ Known(s1, <<<<x, y>>, FALSE>>)
  /\ ~\E u \in Class(s1, x) \cap s1.notified[t], v \in Class(s1, y) \cap s1.notified[t] :
        Known(s, <<<<u, v>>, FALSE>>)

RECURSIVE assertToTheory(_, _, _, _, _)

(* propagateSharedEquality to several theories, one after the other.       *)
Tell(s, told) ==
  FoldLeft(LAMBDA u, x : assertToTheory(u, x[2], x[2], x[1], BUILTIN), s, SetToSeq(told))

(* SharedTermsDatabase::assertEquality: the equality engine merges two     *)
(* classes or separates them, and calls back for the triggers of the two   *)
(* classes, for classes that are now disequal, and for trigger equalities; *)
(* or it finds a conflict.                                                 *)
assertEquality(s, l) ==
  LET a == l[1][1]
      b == l[1][2]
      s1 == Given(s, l, BUILTIN)
      merged == {<<t, <<<<Trigger(s, t, a), Trigger(s, t, b)>>, TRUE>>>> :
                   t \in {u \in Theory : HasTrigger(s, u, a) /\ HasTrigger(s, u, b)}}
      separated ==
        {<<t, CHOOSE k \in {<<<<x, y>>, FALSE>>, <<<<y, x>>, FALSE>>} : TRUE>> :
           <<t, x, y>> \in {<<u, v, w>> \in Theory \X Term \X Term : Separates(s, s1, u, v, w)}}
      decided == {k \in Equality \X BOOLEAN : Known(s1, k) /\ ~Known(s, k)}
  IN  CASE Known(s, l) -> s1
        [] Satisfies(BUILTIN, Facts(s1, BUILTIN)) = {} ->
             Conflict(s1, Clash(s1, BUILTIN), BUILTIN)
        [] OTHER ->
             LET s2 == Tell(Tell(s1, separated), IF l[2] THEN merged ELSE {})
             IN  FoldLeft(LAMBDA u, k : assertToTheory(u, k, k, SAT, BUILTIN), s2, SetToSeq(decided))

assertToTheory(s, l, original, to, from) ==
  LET s1 == markPropagation(s, l, original, to, from)
      s2 == markPropagation(s, False, original, to, from)
  IN  CASE s.inConflict -> s
        [] ~s.inConflict /\ from = BUILTIN /\ to # SAT /\ l[2] /\ l[1] \in Impossible ->
             Conflict(s2, {False}, to)
        [] OTHER ->
             IF <<l, to>> \in DOMAIN s.map THEN s
             ELSE CASE to = BUILTIN -> assertEquality(s1, l)
                    [] to = SAT -> [s1 EXCEPT !.propagated = Append(@, l),
                                              !.inConflict = HasValue(Not(l))]
                    [] OTHER -> Given(s1, l, to)

(* SharedTermsDatabase::markNotified: theory t learns that x is shared,    *)
(* and what the database knows of x and of terms it learnt of before.      *)
markNotified(s, x, t) ==
  LET s1 == [s EXCEPT !.notified[t] = @ \cup {x}]
      others == {y \in s.notified[t] : Known(s, <<<<x, y>>, FALSE>>) /\ y = Trigger(s, t, y)}
  IN  CASE s.inConflict \/ x \in s.notified[t] -> s
        [] ~s.inConflict /\ x \notin s.notified[t] /\ HasTrigger(s, t, x) ->
             Tell(s1, {<<t, <<<<x, Trigger(s, t, x)>>, TRUE>>>>})
        [] OTHER -> Tell(s1, {<<t, <<<<x, y>>, FALSE>>>> : y \in others})

assertFact(s, l) ==
  LET atom == l[1]
      s1 == FoldLeft(LAMBDA u, x : markNotified(u, x[1], x[2]), s, SetToSeq(SharedIn[atom]))
      s2 == assertToTheory(assertToTheory(s1, l, l, EqualityOwner, SAT), l, l, BUILTIN, SAT)
      asked == {r \in s.requests : r[1] = atom}
  IN  CASE s.inConflict -> s
        [] ~s.inConflict /\ IsEquality(atom) ->
             FoldLeft(LAMBDA u, r : assertToTheory(u, <<r[2], l[2]>>, l, r[3], SAT),
                      s2, SetToSeq(asked))
        [] OTHER -> assertToTheory(s1, l, l, Owner[atom], SAT)

propagate(s, l, t) ==
  LET s1 == IF l[1] \in Atom THEN assertToTheory(s, l, l, SAT, t) ELSE s
  IN  IF IsEquality(l[1]) THEN assertToTheory(s1, l, l, BUILTIN, t) ELSE s1
-----------------------------------------------------------------------------
Init ==
  /\ engine = Start
  /\ trail = <<>>
  /\ queue = <<>>
  /\ saved = <<>>

PickedUp == engine.index = Len(engine.propagated)

Checking == queue = <<>> /\ ~engine.inConflict

Assigned(l) == HasValue(l) \/ HasValue(Not(l))

(* The SAT solver assigns a literal, by a clause or by a decision.         *)
Assign(l) ==
  /\ PickedUp /\ ~engine.inConflict /\ ~Assigned(l) /\ Len(queue) < MaxAhead
  /\ trail' = Append(trail, [lit |-> l, theory |-> FALSE])
  /\ queue' = Append(queue, l)
  /\ UNCHANGED <<engine, saved>>

Decide(l) ==
  /\ Checking /\ PickedUp /\ ~Assigned(l) /\ Len(saved) < MaxLevel
  /\ saved' = Append(saved, [engine |-> engine, trail |-> trail])
  /\ trail' = Append(trail, [lit |-> l, theory |-> FALSE])
  /\ queue' = <<l>>
  /\ UNCHANGED engine

(* TheoryProxy::theoryCheck sends what was assigned, then the theories     *)
(* check and propagate in turn.                                            *)
theoryCheck ==
  /\ queue # <<>> /\ PickedUp /\ ~engine.inConflict
  /\ engine' = assertFact(engine, Head(queue))
  /\ queue' = Tail(queue)
  /\ UNCHANGED <<trail, saved>>

Propagate(t, l) ==
  /\ Checking
  /\ Satisfies(t, Facts(engine, t)) # {} /\ Entails(t, Facts(engine, t), l)
  /\ engine' = propagate(engine, l, t)
  /\ UNCHANGED <<trail, queue, saved>>

TheoryConflict(t) ==
  /\ Checking
  /\ Satisfies(t, Facts(engine, t)) = {}
  /\ engine' = Conflict(engine, Clash(engine, t), t)
  /\ UNCHANGED <<trail, queue, saved>>

(* A lemma of theory r[3] has the atom r[2], whose rewritten form is r[1]. *)
ensureLemmaAtoms(r) ==
  LET values == {b \in BOOLEAN : HasValue(<<r[1], b>>)}
      Send(s, b) == assertToTheory(s, <<r[2], b>>, <<r[1], b>>, r[3], SAT)
  IN  /\ Checking
      /\ engine' = CASE values # {} -> Send(engine, CHOOSE b \in values : TRUE)
                     [] values = {} /\ (r[1] # r[2] \/ EqualityOwner # r[3]) ->
                          [engine EXCEPT !.requests = @ \cup {r}]
                     [] OTHER -> engine
      /\ UNCHANGED <<trail, queue, saved>>

(* TheoryProxy::theoryPropagate: the next literal goes to the SAT solver.  *)
(* If it is false there the SAT solver has a conflict, and goes back.      *)
theoryPropagate ==
  /\ ~PickedUp
  /\ LET l == engine.propagated[engine.index + 1]
     IN  /\ ~HasValue(Not(l))
         /\ engine' = [engine EXCEPT !.index = @ + 1]
         /\ IF HasValue(l) THEN UNCHANGED <<trail, queue>>
            ELSE /\ trail' = Append(trail, [lit |-> l, theory |-> TRUE])
                 /\ queue' = Append(queue, l)
  /\ UNCHANGED saved

Backtrack(k) ==
  /\ engine' = saved[k].engine
  /\ trail' = saved[k].trail
  /\ queue' = <<>>
  /\ saved' = SubSeq(saved, 1, k - 1)

Deducible(t) ==
  {l \in (Predicate \cup Deduced) \X BOOLEAN :
     IF IsEquality(l[1]) THEN {l[1][1], l[1][2]} \subseteq engine.notified[t]
     ELSE Owner[l[1]] = t}

Next ==
  \/ \E l \in Literal : Assign(l) \/ Decide(l)
  \/ theoryCheck
  \/ \E t \in Theory : TheoryConflict(t) \/ \E l \in Deducible(t) : Propagate(t, l)
  \/ \E r \in Requests : ensureLemmaAtoms(r)
  \/ theoryPropagate
  \/ \E k \in DOMAIN saved : Backtrack(k)

Spec == Init /\ [][Next]_vars
-----------------------------------------------------------------------------
(* What all the theories together allow.                                   *)
Together(F) == {m \in Model[BUILTIN] : (\A t \in Theory : m \in Model[t]) /\ \A l \in F : m \in Holds[l]}

Before(i) == {trail[j].lit : j \in 1 .. i - 1}

(* When the SAT solver asks why a literal was propagated, at any later     *)
(* time, the answer ends and names literals that the SAT solver had        *)
(* assigned before and from which it follows: never itself, though the     *)
(* literal has been sent back to the theory it came from, and through the  *)
(* others, since then. A conflict names literals that cannot hold together.*)
ExplanationsRight ==
  /\ \A i \in DOMAIN trail : trail[i].theory =>
       LET l == trail[i].lit
           E == Explanation(engine, engine.map[<<l, SAT>>], {})
       IN  E \subseteq Before(i) /\ Together(E \cup {Not(l)}) = {}
  /\ \A E \in engine.conflict : E \subseteq Before(Len(trail) + 1) /\ Together(E) = {}

(* Every theory knows what the database knows about the terms that it      *)
(* shares, and the SAT solver is told of every equality that is decided.   *)
SharingComplete ==
  ~engine.inConflict =>
    /\ \A t \in Theory : \A x, y \in engine.notified[t], b \in BOOLEAN :
         x # y /\ Known(engine, <<<<x, y>>, b>>) =>
           Entails(BUILTIN, {l \in Facts(engine, t) : IsEquality(l[1])}, <<<<x, y>>, b>>)
    /\ \A k \in Equality \X BOOLEAN : Known(engine, k) => <<k, SAT>> \in DOMAIN engine.map

SharingRight == ExplanationsRight /\ SharingComplete
=============================================================================
