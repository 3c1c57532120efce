-------------------------------- MODULE Solver --------------------------------
(***************************************************************************)
(* The CDCL(T) search of CVC4: Minisat::Solver                             *)
(* (src/prop/minisat/core/Solver.{h,cc}) with the theory side of           *)
(* TheoryProxy (src/prop/theory_proxy.cpp), in incremental mode.           *)
(*                                                                         *)
(* Literals are integers, -l being the negation of l.  A clause is a       *)
(* sequence whose first two literals are watched; ca maps clause           *)
(* references to clauses.  level is the user level above which a clause is *)
(* dropped by pop().  The trail entries carry the reason of the literal,   *)
(* the user level at which it was assigned and, for theory propagations,   *)
(* the theory clause that explains it.                                     *)
(*                                                                         *)
(* The theories are external: Theory is a set of clauses valid in them.    *)
(* They may propagate and send lemmas at any check, and at full effort     *)
(* they do not accept an assignment that falsifies one of these clauses.   *)
(* What they know of the SAT solver (the facts asserted to them and the    *)
(* atoms registered with them) is in the SAT context, which pops with the  *)
(* decision levels.                                                        *)
(*                                                                         *)
(* The user, SmtEngine, checks at a user level that it pops afterwards,    *)
(* and asserts at decision level 0 only.                                   *)
(***************************************************************************)
EXTENDS Integers, FiniteSetsExt, SequencesExt

CONSTANTS
  Atom,            \* the possible SAT variables, positive integers
  MaxLevel,        \* bound on assertionLevel
  Problems         \* what may be given to the solver: see Problem

VARIABLE problem   \* the problem of this behaviour, which does not change

Input == problem.input           \* the clauses that the user may assert
Theory == problem.theory         \* clauses valid in the theories
Removable == problem.removable   \* those that are sent as removable lemmas

Lit == Atom \cup {-v : v \in Atom}

Abs(l) == IF l < 0 THEN -l ELSE l

Vars(C) == {Abs(l) : l \in C}

TheoryAtom == UNION {Vars(C) : C \in Theory}

Assignments == {A \in SUBSET Lit : \A v \in Atom : (v \in A) # (-v \in A)}

\* Some assignment extends the literals F and satisfies the clauses D.
Consistent(F, D) == \E A \in Assignments : F \subseteq A /\ \A C \in D : C \cap A # {}

Entails(D, C) == ~Consistent({-l : l \in C}, D)

Problem ==
  [input : SUBSET SUBSET Lit, theory : SUBSET SUBSET Lit, removable : SUBSET SUBSET Lit,
   levels : 0..MaxLevel,    \* bound on assertionLevel
   checks : Nat,            \* bound on checks, 0: none
   restarts : BOOLEAN,      \* whether the search restarts, or cleans its clauses up
   registering : BOOLEAN,   \* whether theories send lemmas when an atom is registered
   interrupts : BOOLEAN]    \* whether a check may end for lack of resources

ASSUME SolverAssumption ==
  /\ Atom \subseteq Nat \ {0} /\ IsFiniteSet(Atom)
  /\ MaxLevel \in Nat
  /\ \A p \in Problems : p \in Problem /\ p.removable \subseteq p.theory

Undef == 0         \* CRef_Undef
Lazy  == -1        \* CRef_Lazy

VARIABLES
  trail,           \* entries [lit, reason, user, why]
  trail_lim,
  qhead,
  queue,           \* TheoryProxy::d_queue: literals not yet asserted
  facts,           \* literals asserted to the theories
  known,           \* atoms registered with the theories
  saved,           \* queue, facts and known at each context push
  order_heap,
  variables_to_register,
  intro,           \* intro_level of each variable, -1: does not exist
  ca,
  lemmas,          \* pending lemmas [c, removable]
  order,           \* updateLemmas: the lemmas sorted so far
  update,          \* its locals [btlevel, index, conflict, back]
  assertionLevel,
  ok, trail_ok,
  pc,              \* where the search is, "user" outside of it
  type,            \* the type of the current call of propagate
  confl,           \* its result
  watching,        \* propagateBool: clauses left to visit
  recheck,
  answer,          \* the result of the last check
  inputs,          \* history: the clauses asserted at each user level
  checks           \* the number of checks so far

coreVars == <<trail, trail_lim, qhead, queue, facts, known, saved, order_heap,
              variables_to_register>>
userVars == <<assertionLevel, ok, trail_ok, answer, inputs, checks>>
vars == <<problem, coreVars, intro, ca, lemmas, order, update, userVars, pc, type, confl,
          watching, recheck>>
-----------------------------------------------------------------------------
(* The trail and what moves with it, as one value s on which operations are  *)
(* composed in the order of the code.                                        *)

Core == [trail |-> trail, trail_lim |-> trail_lim, qhead |-> qhead,
         queue |-> queue, facts |-> facts, known |-> known, saved |-> saved,
         order_heap |-> order_heap, regs |-> variables_to_register]

Becomes(s) ==
  /\ trail' = s.trail
  /\ trail_lim' = s.trail_lim
  /\ qhead' = s.qhead
  /\ queue' = s.queue
  /\ facts' = s.facts
  /\ known' = s.known
  /\ saved' = s.saved
  /\ order_heap' = s.order_heap
  /\ variables_to_register' = s.regs

Lits(t) == {t[i].lit : i \in DOMAIN t}

IsTrue(s, l)  == l \in Lits(s.trail)
IsFalse(s, l) == -l \in Lits(s.trail)
IsUndef(s, l) == ~IsTrue(s, l) /\ ~IsFalse(s, l)

decisionLevel(s) == Len(s.trail_lim)

trail_index(s, l) == CHOOSE i \in DOMAIN s.trail : s.trail[i].lit \in {l, -l}

levelAt(s, i) == Cardinality({k \in DOMAIN s.trail_lim : s.trail_lim[k] < i})

level(s, l) == levelAt(s, trail_index(s, l))

user_level(s, l) == s.trail[trail_index(s, l)].user

uncheckedEnqueue(s, l, from, why) ==
  [s EXCEPT !.trail = Append(@, [lit |-> l, reason |-> from,
                                 user |-> assertionLevel, why |-> why]),
            !.queue = IF Abs(l) \in TheoryAtom THEN Append(@, l) ELSE @]

ContextPush(s) ==
  [s EXCEPT !.saved = Append(@, [queue |-> s.queue, facts |-> s.facts,
                                 known |-> s.known])]

\* n times context->pop()
ContextPop(s, n) ==
  LET old == s.saved[Len(s.saved) - n + 1] IN
  [s EXCEPT !.queue = old.queue, !.facts = old.facts, !.known = old.known,
            !.saved = SubSeq(@, 1, Len(@) - n)]

newDecisionLevel(s) ==
  ContextPush([s EXCEPT !.trail_lim = Append(@, Len(s.trail))])

\* The end of cancelUntil: atoms introduced above the new level are registered
\* again, from the back of variables_to_register to the first that need not be.
NotRegistered(s) ==
  {i \in DOMAIN s.regs : \A j \in i..Len(s.regs) : s.regs[j].level > decisionLevel(s)}

\* Faulty variant of Reregister: the atom counts as registered for good.
ReregisterOnce(s) ==
  [s EXCEPT !.known = @ \cup {s.regs[i].var : i \in NotRegistered(s)},
            !.regs = [i \in DOMAIN @ |-> [@[i] EXCEPT !.level = 0]]]

Reregister(s) ==
  [s EXCEPT !.known = @ \cup {s.regs[i].var : i \in NotRegistered(s)},
            !.regs = [i \in DOMAIN @ |-> IF i \in NotRegistered(s)
                                           THEN [@[i] EXCEPT !.level = decisionLevel(s)]
                                           ELSE @[i]]]

\* cancelUntil(lev) on s
cancelUntil(s, lev) ==
  IF decisionLevel(s) <= lev THEN s
  ELSE LET n == s.trail_lim[lev + 1]
       IN  Reregister([ContextPop(s, decisionLevel(s) - lev) EXCEPT
             !.trail = SubSeq(@, 1, n),
             !.trail_lim = SubSeq(@, 1, lev),
             !.qhead = n,
             !.order_heap = @ \cup {Abs(s.trail[i].lit) : i \in (n + 1)..Len(s.trail)}])

\* cancelUntil registers atoms again.
Registers(s, lev) ==
  decisionLevel(s) > lev /\ \E i \in DOMAIN s.regs : s.regs[i].level > lev

\* newVar, for the variables of the clause C that do not exist yet
NewVars(C) == {v \in Vars(C) : intro[v] = -1}

newVar(s, C) ==
  LET atoms == SetToSeq(NewVars(C) \cap TheoryAtom) IN
  [s EXCEPT !.order_heap = @ \cup NewVars(C),
            !.known = @ \cup (NewVars(C) \cap TheoryAtom),
            !.regs = @ \o [i \in DOMAIN atoms |->
                             [var |-> atoms[i], level |-> decisionLevel(s)]]]

introduced(C) ==
  [v \in Atom |-> IF v \in NewVars(C) THEN assertionLevel ELSE intro[v]]

\* The order lemma_lt: unassigned literals, then true ones, then false ones, the
\* assigned ones by decreasing trail index.
Rank(s, l) ==
  IF IsUndef(s, l) THEN 3 * Len(s.trail) + Abs(l)
  ELSE IF IsTrue(s, l) THEN Len(s.trail) + trail_index(s, l)
  ELSE trail_index(s, l)

\* The elements of DOMAIN rank, those of higher rank first.
ByRank(rank) ==
  CHOOSE q \in [1..Cardinality(DOMAIN rank) -> DOMAIN rank] :
    \A i, j \in DOMAIN q : i < j => rank[q[i]] > rank[q[j]]

Sorted(s, C) == ByRank([l \in C |-> Rank(s, l)])
-----------------------------------------------------------------------------
(* Clauses. *)

NewRef(cs) == CHOOSE r \in 1..(Cardinality(DOMAIN cs) + 1) : r \notin DOMAIN cs

\* ca.alloc and attachClause
alloc(cs, lits, lev, removable) ==
  LET r == NewRef(cs) IN
  [c \in DOMAIN cs \cup {r} |->
     IF c = r THEN [lits |-> lits, level |-> lev, removable |-> removable] ELSE cs[c]]

Clause(c) == ToSet(ca[c].lits)

MaxIntro(in, C) == Max({0} \cup {in[v] : v \in Vars(C)})

\* Literals decided at level 0 of both kinds, which addClause_ takes into account.
FixedTrue(s, l) == IsTrue(s, l) /\ level(s, l) = 0 /\ user_level(s, l) = 0
FixedFalse(s, l) == FixedTrue(s, -l)

Ignored(s, C) == \E l \in C : -l \in C \/ FixedTrue(s, l)
Kept(s, C) == {l \in C : ~FixedFalse(s, l)}

\* addClause_ during the search: the clause waits in lemmas.
AddLemma(s, ls, C, removable) ==
  IF Ignored(s, C) THEN ls ELSE Append(ls, [c |-> Kept(s, C), removable |-> removable])

\* locked: the clause is the reason of a literal
locked(t, c) == \E i \in DOMAIN t : t[i].reason = c

\* Faulty variant of Unlocked: the reasons keep pointing to the freed clauses.
UnlockedNot(t, cs) == t

\* removeClause: no pointers to freed memory are left.
Unlocked(t, cs) ==
  [i \in DOMAIN t |-> IF t[i].reason \in cs THEN [t[i] EXCEPT !.reason = Undef] ELSE t[i]]

Without(cs) == [c \in DOMAIN ca \ cs |-> ca[c]]

\* The locals of updateLemmas outside of it.
NoUpdate == [btlevel |-> 0, index |-> 0, conflict |-> Undef, back |-> "begin"]

\* Where a call of propagate begins.
PropagateFrom(ls, ty) ==
  IF ls # <<>> THEN "lemmas" ELSE IF ty = "final" THEN "theory" ELSE "bool"

\* The locals of updateLemmas when it is called, from the place `back'.
UpdateLocals(s, back) ==
  [btlevel |-> decisionLevel(s), index |-> 0, conflict |-> Undef, back |-> back]
-----------------------------------------------------------------------------
Init ==
  /\ problem \in Problems
  /\ trail = <<>> /\ trail_lim = <<>> /\ qhead = 0
  /\ queue = <<>> /\ facts = <<>> /\ known = {} /\ saved = <<>>
  /\ order_heap = {} /\ variables_to_register = <<>>
  /\ intro = [v \in Atom |-> -1]
  /\ ca = <<>> /\ lemmas = <<>> /\ order = <<>>
  /\ update = NoUpdate
  /\ assertionLevel = 0 /\ ok = TRUE /\ trail_ok = <<>> /\ checks = 0
  /\ pc = "user" /\ type = "with" /\ confl = Undef /\ watching = {} /\ recheck = FALSE
  /\ answer = "none"
  /\ inputs = [u \in 0..MaxLevel |-> {}]
-----------------------------------------------------------------------------
(* What the user does outside of the search. *)

\* addClause_ at decision level 0: false literals are dropped, the clause is
\* attached and, if it is unit, propagated without the theories.
addClause(C) ==
  LET s    == newVar(Core, C)
      ps   == Kept(s, C)
      free == {l \in ps : ~IsFalse(s, l)}
      lits == Sorted(s, ps)
      lev  == Max({assertionLevel, MaxIntro(introduced(C), C)})
      cs   == IF Cardinality(ps) > 1 THEN alloc(ca, lits, lev, FALSE) ELSE ca
      from == IF Cardinality(ps) > 1 THEN NewRef(ca) ELSE Undef
      unit == free # {} /\ Cardinality(free) = 1 /\ IsUndef(s, lits[1])
  IN  /\ pc = "user" /\ answer = "none" /\ ok
      /\ C \notin UNION Range(inputs)       \* bound: each clause once at a time
      /\ intro' = introduced(C)
      /\ inputs' = [inputs EXCEPT ![assertionLevel] = @ \cup {C}]
      /\ IF Ignored(s, C)
           THEN Becomes(s) /\ UNCHANGED <<ca, ok, update, pc, type>>
           ELSE /\ ok' = (free # {})
                /\ ca' = IF free = {} THEN ca ELSE cs
                /\ IF unit
                     THEN /\ Becomes(uncheckedEnqueue(s, lits[1], from, {}))
                          /\ pc' = PropagateFrom(lemmas, "without") /\ type' = "without"
                          /\ update' = IF lemmas = <<>> THEN NoUpdate ELSE UpdateLocals(s, "begin")
                     ELSE Becomes(s) /\ UNCHANGED <<update, pc, type>>
      /\ UNCHANGED <<lemmas, order, assertionLevel, trail_ok, checks, answer, confl,
                     watching, recheck>>

push ==
  /\ pc = "user" /\ answer = "none"
  /\ assertionLevel < problem.levels
  /\ Becomes(ContextPush(cancelUntil(Core, 0)))
  /\ assertionLevel' = assertionLevel + 1
  /\ trail_ok' = Append(trail_ok, ok)
  /\ UNCHANGED <<intro, ca, lemmas, order, update, ok, answer, inputs, checks, pc, type,
                 confl, watching, recheck>>

\* The number of entries of the trail t that are left at user level u: from the end,
\* those assigned above it go, until there is one that stays.
Remaining(t, u) ==
  CHOOSE n \in 0..Len(t) : /\ n > 0 => t[n].user <= u
                           /\ \A i \in (n + 1)..Len(t) : t[i].user > u

\* pop: the trail loses what was assigned at the user level, then the clauses
\* and the variables of that level go.
pop ==
  LET s == cancelUntil(Core, 0)
      u == assertionLevel - 1
      n == Remaining(s.trail, u)
      dropped == {c \in DOMAIN ca : ca[c].level > u}
  IN  /\ pc = "user" /\ assertionLevel > 0
      /\ assertionLevel' = u
      /\ Becomes([ContextPop(s, 1) EXCEPT
           !.trail = Unlocked(SubSeq(s.trail, 1, n), dropped),
           !.qhead = n,
           !.order_heap = @ \cup {Abs(s.trail[i].lit) : i \in (n + 1)..Len(s.trail)},
           !.regs = <<>>])
      /\ ca' = Without(dropped)
      /\ intro' = [v \in Atom |-> IF intro[v] > u THEN -1 ELSE intro[v]]
      /\ ok' = Last(trail_ok)
      /\ trail_ok' = Front(trail_ok)
      /\ inputs' = [inputs EXCEPT ![assertionLevel] = {}]
      /\ answer' = "none"
      /\ UNCHANGED <<lemmas, order, update, checks, pc, type, confl, watching, recheck>>

\* Entering propagate(ty) from the search, with pending lemmas ls and the core s.
Propagate(s, ls, ty) ==
  /\ type' = ty
  /\ pc' = PropagateFrom(ls, ty)
  /\ lemmas' = ls
  /\ order' = <<>>
  /\ update' = IF ls = <<>> THEN NoUpdate ELSE UpdateLocals(s, "begin")
  /\ confl' = Undef
  /\ recheck' = FALSE
  /\ watching' = {}

solve ==
  LET s == cancelUntil(Core, 0) IN
  /\ pc = "user" /\ answer = "none" /\ assertionLevel > 0
  /\ Becomes(s)
  /\ IF ok
       THEN Propagate(s, lemmas, "with") /\ UNCHANGED answer
       ELSE /\ answer' = "unsat"
            /\ UNCHANGED <<type, pc, lemmas, order, update, confl, recheck, watching>>
  /\ UNCHANGED <<intro, ca, assertionLevel, ok, trail_ok, inputs>>
  /\ problem.checks > 0 => checks < problem.checks
  /\ checks' = IF problem.checks = 0 THEN 0 ELSE checks + 1
-----------------------------------------------------------------------------
(* propagate *)

\* propagate returns c, to addClause_ or to the search.  No lemma waits then.
Return(c) ==
  IF type = "without"
    THEN pc' = "user" /\ ok' = (c = Undef)
    ELSE pc' = (IF c = Undef THEN "decide" ELSE "conflict") /\ UNCHANGED ok

\* watches[p]: the clauses that attachClause and propagateBool have watch -p
Watches(p) == {c \in DOMAIN ca : -p \in {ca[c].lits[1], ca[c].lits[2]}}

\* propagateBool takes the next literal from the trail.
NextFact ==
  /\ pc = "bool" /\ watching = {} /\ confl = Undef
  /\ qhead < Len(trail)
  /\ qhead' = qhead + 1
  /\ watching' = Watches(trail[qhead + 1].lit)
  /\ UNCHANGED <<trail, trail_lim, queue, facts, known, saved, order_heap,
                 variables_to_register, intro, ca, lemmas, order, update, userVars, pc,
                 type, confl, recheck>>

\* ... and visits a clause c that watches its negation.  The blocker of the
\* watcher can be any literal of the clause.
VisitWatch(c) ==
  LET false_lit == -trail[qhead].lit
      old   == ca[c].lits
      lits  == IF old[1] = false_lit THEN [old EXCEPT ![1] = old[2], ![2] = false_lit] ELSE old
      first == lits[1]
      free  == {k \in 3..Len(lits) : ~IsFalse(Core, lits[k])}
  IN  /\ pc = "bool" /\ c \in watching
      /\ \/ /\ \E l \in ToSet(old) : IsTrue(Core, l)
            /\ watching' = watching \ {c}
            /\ UNCHANGED <<ca, confl, coreVars>>
         \/ /\ IsTrue(Core, first)
            /\ ca' = [ca EXCEPT ![c].lits = lits]
            /\ watching' = watching \ {c}
            /\ UNCHANGED <<confl, coreVars>>
         \/ /\ ~IsTrue(Core, first) /\ free # {}
            /\ ca' = [ca EXCEPT ![c].lits = [lits EXCEPT ![2] = lits[Min(free)],
                                                       ![Min(free)] = false_lit]]
            /\ watching' = watching \ {c}
            /\ UNCHANGED <<confl, coreVars>>
         \/ /\ IsUndef(Core, first) /\ free = {}
            /\ ca' = [ca EXCEPT ![c].lits = lits]
            /\ watching' = watching \ {c}
            /\ Becomes(uncheckedEnqueue(Core, first, c, {}))
            /\ UNCHANGED confl
         \/ /\ IsFalse(Core, first) /\ free = {}
            /\ ca' = [ca EXCEPT ![c].lits = lits]
            /\ watching' = {}
            /\ confl' = c
            /\ Becomes([Core EXCEPT !.qhead = Len(trail)])
      /\ UNCHANGED <<intro, lemmas, order, update, userVars, pc, type, recheck>>

BoolDone ==
  /\ pc = "bool" /\ watching = {} /\ qhead = Len(trail)
  /\ IF confl = Undef /\ type # "without"
       THEN pc' = "theory" /\ UNCHANGED ok
       ELSE Return(confl)
  /\ confl' = IF pc' = "user" THEN Undef ELSE confl
  /\ UNCHANGED <<coreVars, intro, ca, lemmas, order, update, assertionLevel, trail_ok, checks,
                 answer, inputs, type, watching, recheck>>

\* theoryCheck asserts the queued facts.  The theories then send lemmas and
\* propagate literals, in any number, until TheoryDone.
TheoryCheck ==
  /\ pc = "theory"
  /\ pc' = "output"
  /\ Becomes([Core EXCEPT !.facts = @ \o queue, !.queue = <<>>])
  /\ UNCHANGED <<intro, ca, lemmas, order, update, userVars, type, confl, watching, recheck>>

Falsified(t) == \A l \in t : -l \in ToSet(facts)

Waiting(t) == \E i \in DOMAIN lemmas : lemmas[i].c = Kept(Core, t)

\* The theory clause is in the clause database or waits to be.
Recorded(t) == Waiting(t) \/ \E c \in DOMAIN ca : Clause(c) \in {t, Kept(Core, t)}

\* OutputChannel::lemma and conflict: addClause_ puts the clause in lemmas.  A
\* clause that the theories sent before is sent again only as a conflict.
TheoryLemma(t, removable) ==
  LET s == newVar(Core, t) IN
  /\ pc = "output"
  /\ ~Recorded(t) \/ (Falsified(t) /\ ~Waiting(t))
  /\ ~Ignored(s, t)
  /\ intro' = introduced(t)
  /\ Becomes(s)
  /\ lemmas' = AddLemma(s, lemmas, t, removable)
  /\ UNCHANGED <<ca, order, update, userVars, pc, type, confl, watching, recheck>>

\* The lemmas come before the literals that are propagated.
TheorySends(t) == queue = <<>> /\ TheoryLemma(t, t \in Removable)

\* propagateTheory: a literal that is false already gives a removable lemma.
TheoryRefutes(t, l) ==
  /\ IsFalse(Core, l) /\ Falsified(t \ {l})
  /\ TheoryLemma(t, TRUE)

\* propagateTheory enqueues a literal, to be explained by t if need be.
TheoryPropagates(t, l) ==
  /\ pc = "output"
  /\ l \in t /\ intro[Abs(l)] # -1 /\ IsUndef(Core, l)
  /\ t # {l} /\ Falsified(t \ {l})
  /\ ~Recorded(t)
  /\ Becomes(uncheckedEnqueue(Core, l, Lazy, t))
  /\ UNCHANGED <<intro, ca, lemmas, order, update, userVars, pc, type, confl, watching,
                 recheck>>

\* Faulty variant of NeedCheck: always.
NeedCheckAlways == TRUE

\* TheoryEngine::needCheck: the theories used their output channels.
NeedCheck == lemmas # <<>> \/ queue # <<>>

\* The rest of propagate.  A full check that accepts the facts sent no lemma.
TheoryDone ==
  /\ pc = "output"
  /\ type = "final" /\ lemmas = <<>> => Consistent(ToSet(facts), Theory)
  /\ recheck' = (type = "final" /\ NeedCheck)
  /\ IF lemmas # <<>>
       THEN /\ pc' = "lemmas"
            /\ update' = UpdateLocals(Core, "theory")
            /\ UNCHANGED ok
       ELSE /\ IF type # "final" /\ qhead < Len(trail)
                 THEN pc' = "bool" /\ UNCHANGED ok
                 ELSE Return(Undef)
            /\ UNCHANGED update
  /\ UNCHANGED <<coreVars, intro, ca, lemmas, order, assertionLevel, trail_ok, checks, answer,
                 inputs, type, confl, watching>>

\* cancelUntil(lev) may make the theories send a lemma on an atom that is
\* registered again.
LemmasOnCancel(ls, lev) ==
  {ls} \cup (IF problem.registering /\ Registers(Core, lev)
               THEN {AddLemma(cancelUntil(Core, lev), ls, t, FALSE) :
                       t \in {t \in Theory : NewVars(t) = {} /\ ~Recorded(t)}}
               ELSE {})

\* The level at which a sorted lemma propagates its first literal.
OwnLevel(m) == IF Len(m) = 1 THEN 0 ELSE level(Core, m[2])

\* Faulty variant of Propagates: longer lemmas are attached where they are.
PropagatesOnlyUnits(m) == Len(m) = 1 /\ ~IsTrue(Core, m[1])

\* Faulty variant of Propagates: a lemma that is false stays where it is.
PropagatesNoConflict(m) ==
  /\ Len(m) = 1 \/ (Len(m) > 1 /\ IsFalse(Core, m[2]))
  /\ IsUndef(Core, m[1]) \/ (IsTrue(Core, m[1]) /\ level(Core, m[1]) > OwnLevel(m))

\* Whether it does: even a true literal is to be propagated at that level.
Propagates(m) ==
  /\ Len(m) = 1 \/ (Len(m) > 1 /\ IsFalse(Core, m[2]))
  /\ IsTrue(Core, m[1]) => level(Core, m[1]) > OwnLevel(m)

\* updateLemmas, first loop: sort the lemmas and backtrack so far that those
\* which propagate do so at their own level.  Registering atoms again may add
\* lemmas; then the loop goes on.
SortLemmas ==
  LET new   == [k \in 1..(Len(lemmas) - Len(order)) |-> Sorted(Core, lemmas[Len(order) + k].c)]
      empty == \E k \in DOMAIN new : new[k] = <<>>
      lev   == Min({update.btlevel} \cup {OwnLevel(new[k]) : k \in {k \in DOMAIN new : Propagates(new[k])}}
                     \cup (IF empty THEN {0} ELSE {}))
      s     == cancelUntil(Core, lev)
  IN  /\ pc = "lemmas"
      /\ Becomes(s)
      /\ order' = order \o new
      /\ lemmas' \in LemmasOnCancel(lemmas, lev)
      /\ update' = [update EXCEPT !.btlevel = lev, !.index = Len(s.trail),
                                  !.conflict = IF empty THEN Lazy ELSE @]
      /\ pc' = IF lemmas' = lemmas THEN "attach" ELSE "lemmas"
      /\ UNCHANGED <<intro, ca, userVars, type, confl, watching, recheck>>

\* updateLemmas, second loop: attach the clause, and enqueue its first literal
\* or record a conflict if the others were false before the loop.
AttachLemma ==
  LET lits == Head(order)
      lemma == Head(lemmas)
      big  == Len(lits) > 1
      from == IF big THEN NewRef(ca) ELSE Undef
      lev  == IF lemma.removable THEN MaxIntro(intro, lemma.c) ELSE assertionLevel
      acts == /\ update.conflict = Undef
              /\ ~IsTrue(Core, lits[1])
              /\ big => IsFalse(Core, lits[2]) /\ trail_index(Core, lits[2]) <= update.index
  IN  /\ pc = "attach" /\ lemmas # <<>>
      /\ ca' = IF big THEN alloc(ca, lits, lev, lemma.removable) ELSE ca
      /\ IF acts /\ IsUndef(Core, lits[1])
           THEN Becomes(uncheckedEnqueue(Core, lits[1], from, {})) /\ UNCHANGED update
           ELSE /\ update' = [update EXCEPT !.conflict = IF ~acts THEN @ ELSE
                                                          IF big THEN from ELSE Lazy]
                /\ UNCHANGED coreVars
      /\ lemmas' = Tail(lemmas)
      /\ order' = Tail(order)
      /\ UNCHANGED <<intro, userVars, pc, type, confl, watching, recheck>>

\* updateLemmas returns to where propagate called it.
LemmasDone ==
  LET c == update.conflict IN
  /\ pc = "attach" /\ lemmas = <<>>
  /\ IF c = Undef /\ update.back = "begin"
       THEN pc' = PropagateFrom(<<>>, type) /\ UNCHANGED ok
       ELSE IF c = Undef /\ type # "final" /\ qhead < Len(trail)
              THEN pc' = "bool" /\ UNCHANGED ok
              ELSE Return(c)
  /\ confl' = IF pc' = "user" THEN Undef ELSE c
  /\ update' = NoUpdate
  /\ UNCHANGED <<coreVars, intro, ca, lemmas, order, assertionLevel, trail_ok, checks, answer,
                 inputs, type, watching, recheck>>
-----------------------------------------------------------------------------
(* search, after propagate *)

\* The check ends with the answer a, or without one when the resources are spent.
Answers(a) ==
  /\ answer' \in {a} \cup (IF problem.interrupts THEN {"unknown"} ELSE {})
  /\ ok' = (ok /\ answer' # "unsat")
  /\ pc' = "user" /\ type' = "with" /\ confl' = Undef /\ recheck' = FALSE
  /\ UNCHANGED <<coreVars, intro, ca, lemmas, order, update, assertionLevel, trail_ok, checks,
                 inputs, watching>>

ConflictAtZero ==
  /\ pc = "conflict" /\ decisionLevel(Core) = 0
  /\ Answers("unsat")

\* What reason() returns for the trail entry e: the other literals, and the level.
Premises(e) ==
  CASE e.reason = Undef -> {}
    [] e.reason = Lazy  -> e.why \ {e.lit}
    [] OTHER            -> Clause(e.reason) \ {e.lit}

ReasonLevel(e) ==
  IF e.reason = Lazy THEN MaxIntro(intro, e.why) ELSE ca[e.reason].level

\* A clause that takes part in the resolution: literals of level 0 are left
\* out, their user level counts.
Part(C, lev) ==
  LET zero == {l \in C : level(Core, l) = 0} IN
  [lits |-> C \ zero, level |-> Max({lev} \cup {user_level(Core, l) : l \in zero})]

\* analyze, first part: from the end of the trail, replace literals of the current
\* decision level by the premises of their reasons until one is left, the UIP.
AtCurrent(C) == {l \in C : level(Core, l) = decisionLevel(Core)}

Resolution ==
  LET res[i \in 0..Len(trail)] ==
        IF i = Len(trail)
          THEN LET p == Part(Clause(confl), ca[confl].level) IN
               [lits |-> p.lits, level |-> p.level, on |-> {}]
          ELSE LET r == res[i + 1]
                   e == trail[i + 1]
               IN  IF -e.lit \notin r.lits \/ Cardinality(AtCurrent(r.lits)) = 1
                     THEN r
                     ELSE LET p == Part(Premises(e), ReasonLevel(e)) IN
                          [lits  |-> (r.lits \ {-e.lit}) \cup p.lits,
                           level |-> Max({r.level, p.level}),
                           on    |-> r.on \cup {i + 1}]
  IN  res[0]

Indices(C) == {trail_index(Core, l) : l \in C}

\* analyze, second part: the entries that litRedundant finds implied by C, level 0 and
\* entries found before.  Reasons precede what they imply, so that nothing in the
\* largest set of entries that imply each other is implied by itself.
Redundant(C) ==
  LET levels == {level(Core, l) : l \in C}
      covered(l, R) == level(Core, l) = 0 \/ l \in C \/ trail_index(Core, l) \in R
  IN  UNION {R \in SUBSET DOMAIN trail :
               \A i \in R : /\ trail[i].reason # Undef
                            /\ levelAt(Core, i) \in levels
                            /\ \A l \in Premises(trail[i]) : covered(l, R)}

\* The entries that litRedundant can come to from C.
Visited(C) ==
  LET vis[i \in 0..Len(trail)] ==
        IF i = Len(trail) THEN Indices(C)
        ELSE LET v == vis[i + 1] IN
             IF i + 1 \in v
               THEN v \cup Indices({l \in Premises(trail[i + 1]) : level(Core, l) > 0})
               ELSE v
  IN  vis[0]

\* References for n clauses more.
NewRefs(n) == (1..(Cardinality(DOMAIN ca) + n)) \ DOMAIN ca

\* reason() makes the explanations of the lazy entries E clauses.
Explain(E) ==
  LET ref == CHOOSE f \in Injection(E, NewRefs(Cardinality(E))) : TRUE
      explanation(e) == [lits |-> <<e.lit>> \o Sorted(Core, e.why \ {e.lit}),
                         level |-> MaxIntro(intro, e.why), removable |-> TRUE]
  IN  [ca |-> [c \in DOMAIN ca \cup Range(ref) |->
                 IF c \in DOMAIN ca THEN ca[c]
                 ELSE explanation(trail[CHOOSE i \in E : ref[i] = c])],
       trail |-> [i \in DOMAIN trail |-> IF i \in E THEN [trail[i] EXCEPT !.reason = ref[i]]
                                                    ELSE trail[i]]]

\* Faulty variant of LearntLevel: the removed literals do not count.
LearntLevelResolved(lev, gone) == lev

\* The user level of the learnt clause, from which the literals in gone were removed.
LearntLevel(lev, gone) == Max({lev} \cup {user_level(Core, l) : l \in gone})

\* analyze, then backjump and learn.
Conflict ==
  LET r    == Resolution
      uip  == CHOOSE l \in AtCurrent(r.lits) : TRUE
      rest == r.lits \ {uip}
      gone == {l \in rest : trail_index(Core, l) \in Redundant(rest)}
      kept == rest \ gone
      max_level == LearntLevel(r.level, gone)
      lits == <<uip>> \o ByRank([l \in kept |-> trail_index(Core, l)])
      btlevel == IF kept = {} THEN 0 ELSE level(Core, lits[2])
      lazy(I) == {i \in I \cap DOMAIN trail : trail[i].reason = Lazy}
      asked == lazy(r.on \cup Indices(r.lits))
  IN  /\ pc = "conflict" /\ decisionLevel(Core) > 0
      /\ \E more \in SUBSET lazy(Visited(rest)) :
           LET x == Explain(asked \cup more)
               s == cancelUntil([Core EXCEPT !.trail = x.trail], btlevel)
           IN  /\ ca' = IF kept = {} THEN x.ca ELSE alloc(x.ca, lits, max_level, TRUE)
               /\ LET t == uncheckedEnqueue(s, uip, IF kept = {} THEN Undef ELSE NewRef(x.ca), {})
                  IN  /\ Becomes(t)
                      /\ \E ls \in LemmasOnCancel(<<>>, btlevel) : Propagate(t, ls, "with")
      /\ UNCHANGED <<intro, userVars>>

\* Faulty variant of Final: what the lemmas of the check added is not looked at.
FinalAtOnce ==
  /\ pc = "decide" /\ type = "final"
  /\ Answers("sat")

\* A final check without conflict.
Final ==
  /\ pc = "decide" /\ type = "final"
  /\ IF order_heap # {} \/ qhead < Len(trail)
       THEN Propagate(Core, <<>>, "with") /\ UNCHANGED <<coreVars, intro, ca, userVars>>
       ELSE IF recheck
              THEN Propagate(Core, <<>>, "final") /\ UNCHANGED <<coreVars, intro, ca, userVars>>
              ELSE Answers("sat")

\* The bound on conflicts is reached: cancelUntil(0), and solve_ calls search again.
Restart ==
  /\ pc = "decide" /\ type = "with" /\ problem.restarts
  /\ LET s == cancelUntil(Core, 0) IN
       /\ Becomes(s)
       /\ \E ls \in LemmasOnCancel(<<>>, 0) : Propagate(s, ls, "with")
  /\ UNCHANGED <<intro, ca, userVars>>

\* The resources are spent: the same, but solve_ gives up.
Interrupt ==
  /\ pc = "decide" /\ type = "with" /\ problem.interrupts
  /\ Becomes(cancelUntil(Core, 0))
  /\ lemmas' \in LemmasOnCancel(<<>>, 0)
  /\ answer' = "unknown" /\ pc' = "user" /\ confl' = Undef
  /\ UNCHANGED <<intro, ca, order, update, assertionLevel, ok, trail_ok, checks, inputs, type,
                 watching, recheck>>

Satisfied(c) == \E l \in Clause(c) : IsTrue(Core, l)

Removed(cs) ==
  /\ ca' = Without(cs)
  /\ trail' = Unlocked(trail, cs)
  /\ UNCHANGED <<trail_lim, qhead, queue, facts, known, saved, variables_to_register, intro,
                 lemmas, order, update, userVars, pc, type, confl, watching, recheck>>

unassigned == {v \in Atom : intro[v] # -1 /\ IsUndef(Core, v)}

\* In incremental mode only removable clauses go.
simplify ==
  /\ pc = "decide" /\ type = "with" /\ problem.restarts
  /\ decisionLevel(Core) = 0
  /\ Removed({c \in DOMAIN ca : ca[c].removable /\ Satisfied(c)})
  /\ order_heap' = unassigned

reduceDB(cs) ==
  /\ pc = "decide" /\ type = "with" /\ problem.restarts
  /\ \A c \in cs : ca[c].removable /\ Len(ca[c].lits) > 2 /\ ~locked(trail, c)
  /\ Removed(cs)
  /\ UNCHANGED order_heap

\* pickBranchLit returns a literal.  Assigned and deleted variables that are still
\* in the heap are skipped; here they leave it at once.
Decide(l) ==
  /\ pc = "decide" /\ type = "with"
  /\ Abs(l) \in order_heap \cap unassigned
  /\ LET s == uncheckedEnqueue(newDecisionLevel(
                 [Core EXCEPT !.order_heap = (@ \cap unassigned) \ {Abs(l)}]), l, Undef, {})
     IN  Becomes(s) /\ Propagate(s, <<>>, "with")
  /\ UNCHANGED <<intro, ca, userVars>>

\* pickBranchLit finds the heap without an unassigned variable.
AllDecided ==
  /\ pc = "decide" /\ type = "with"
  /\ order_heap \cap unassigned = {}
  /\ LET s == [Core EXCEPT !.order_heap = {}] IN
       Becomes(s) /\ Propagate(s, <<>>, "final")
  /\ UNCHANGED <<intro, ca, userVars>>
-----------------------------------------------------------------------------
User == push \/ pop \/ solve \/ \E C \in Input : addClause(C)

Search ==
  \/ NextFact
  \/ \E c \in watching : VisitWatch(c)
  \/ BoolDone
  \/ TheoryCheck
  \/ \E t \in Theory : TheorySends(t) \/ \E l \in t : TheoryRefutes(t, l) \/ TheoryPropagates(t, l)
  \/ TheoryDone
  \/ SortLemmas
  \/ AttachLemma
  \/ LemmasDone
  \/ ConflictAtZero
  \/ Conflict
  \/ Final
  \/ Restart
  \/ Interrupt
  \/ simplify
  \/ \E cs \in SUBSET {c \in DOMAIN ca : ca[c].removable} : reduceDB(cs)
  \/ \E l \in Lit : Decide(l)
  \/ AllDecided

Next == (User \/ Search) /\ UNCHANGED problem

Spec == Init /\ [][Next]_vars
-----------------------------------------------------------------------------
(* Properties. *)

Entry == [lit : Lit, reason : Nat \cup {Lazy}, user : 0..MaxLevel, why : {{}} \cup Theory]

SavedContext == [queue : Seq(Lit), facts : Seq(Lit), known : SUBSET Atom]

\* The state has the shape that the fields of Solver have.
TypeOK ==
  /\ trail \in Seq(Entry) /\ trail_lim \in Seq(0..Len(trail)) /\ qhead \in 0..Len(trail)
  /\ queue \in Seq(Lit) /\ facts \in Seq(Lit) /\ known \subseteq TheoryAtom
  /\ saved \in Seq(SavedContext)
  /\ order_heap \subseteq Atom
  /\ variables_to_register \in Seq([var : Atom, level : Nat])
  /\ intro \in [Atom -> -1..MaxLevel]
  /\ \A c \in DOMAIN ca : /\ ca[c].lits \in Seq(Lit) /\ Len(ca[c].lits) > 1
                          /\ ca[c].level \in 0..MaxLevel
                          /\ ca[c].removable \in BOOLEAN
  /\ lemmas \in Seq([c : SUBSET Lit, removable : BOOLEAN])
  /\ order \in Seq(Seq(Lit))
  /\ assertionLevel \in 0..MaxLevel /\ ok \in BOOLEAN
  /\ trail_ok \in Seq(BOOLEAN) /\ Len(trail_ok) = assertionLevel
  /\ checks \in 0..problem.checks
  /\ pc \in {"user", "bool", "theory", "output", "lemmas", "attach", "decide", "conflict"}
  /\ type \in {"without", "with", "final"}
  /\ confl \in DOMAIN ca \cup {Undef, Lazy}
  /\ watching \subseteq DOMAIN ca
  /\ recheck \in BOOLEAN
  /\ answer \in {"none", "sat", "unsat", "unknown"}

\* The clauses asserted up to the user level u, and the theories.
Asserted(u) == Theory \cup UNION {inputs[w] : w \in 0..u}

\* The implication graph is acyclic and well founded in clauses that live as long
\* as the assignment: no variable is assigned twice, a literal with a reason is
\* the first of that clause (locked() and analyze rely on it), whose other
\* literals became false earlier, and the clause is not of a higher user level
\* than the literal, so that pop() never frees the reason of what it keeps
\* (the assert in removeClausesAboveLevel).
ReasonsPrecede ==
  \A i \in DOMAIN trail :
    LET e == trail[i] IN
    /\ \A j \in DOMAIN trail : Abs(trail[j].lit) = Abs(e.lit) => j = i
    /\ e.reason > 0 => /\ e.reason \in DOMAIN ca
                       /\ ca[e.reason].lits[1] = e.lit
                       /\ ca[e.reason].level <= e.user
    /\ \A l \in Premises(e) : IsFalse(Core, l) /\ trail_index(Core, l) < i

\* Every clause in the database, learnt ones included, follows from what is
\* asserted at user levels up to its own, and is about variables of these levels:
\* nothing that survives pop() rests on what was popped.
ClausesEntailed ==
  \A c \in DOMAIN ca :
    /\ Entails(Asserted(ca[c].level), Clause(c))
    /\ \A v \in Vars(Clause(c)) : intro[v] \in 0..ca[c].level

\* So do the literals assigned at decision level 0, and what ok = FALSE says, now
\* and in the values of ok that pop() restores.
ZeroLevelEntailed ==
  /\ \A i \in DOMAIN trail :
       levelAt(Core, i) = 0 => Entails(Asserted(trail[i].user), {trail[i].lit})
  /\ ~ok => ~Consistent({}, Asserted(assertionLevel))
  /\ \A u \in DOMAIN trail_ok : ~trail_ok[u] => ~Consistent({}, Asserted(u - 1))

\* A variable that is not assigned can still be decided on.
NothingUndecidable == unassigned \subseteq order_heap

\* All together, and the shapes: what is on the trail rests on clauses and
\* assertions of its own user levels, and on nothing later.
TrailRight == TypeOK /\ ReasonsPrecede /\ ZeroLevelEntailed /\ NothingUndecidable

\* A removable lemma that was found false or unit at decision level 0, by a check
\* above its own user level, is as it was after the pop(): what it implied is gone
\* and qhead is at the end of the trail.  The theories are left to find it again.
Overlooked(c) ==
  /\ ca[c].removable
  /\ \E l \in Clause(c) : IsFalse(Core, l) /\ level(Core, l) = 0

\* When propagate returns without a conflict, no clause is false and none of the
\* persistent ones is unit: the two watched literals of each clause did their work
\* through every swap, backjump, and lemma attached at another level than it was
\* sorted at.  (An explanation made a clause late may stay unit after a backjump.)
NoMissedPropagation ==
  pc = "decide" /\ qhead = Len(trail) =>
    \A c \in DOMAIN ca :
      LET free == {l \in Clause(c) : IsUndef(Core, l)} IN
      \/ Satisfied(c) \/ Overlooked(c)
      \/ Cardinality(free) > (IF ca[c].removable THEN 0 ELSE 1)

\* How many of the first n literals of the trail t are about theory atoms.
TheoryCount(t, n) == Cardinality({j \in 1..n : Abs(t[j].lit) \in TheoryAtom})

\* q is the sequence of the literals about theory atoms among the first n of t.
Follows(q, t, n) ==
  /\ Len(q) = TheoryCount(t, n)
  /\ \A i \in 1..n : Abs(t[i].lit) \in TheoryAtom => q[TheoryCount(t, i)] = t[i].lit

\* The theories see the trail: what was asserted to them and what is queued for
\* them is the sequence of theory literals on it, every atom that exists is
\* registered with them, and there is one SAT context level for each decision
\* and user level.
TheoryInSync ==
  /\ Follows(facts \o queue, trail, Len(trail))
  /\ \A v \in TheoryAtom : intro[v] # -1 => v \in known
  /\ Len(saved) = decisionLevel(Core) + assertionLevel

\* A conflict that is analysed is a clause, false, with a literal of the current
\* decision level, as the loop of analyze needs to find a UIP.
ConflictIsCurrent ==
  pc = "conflict" /\ decisionLevel(Core) > 0 =>
    /\ confl \in DOMAIN ca
    /\ \A l \in Clause(confl) : IsFalse(Core, l)
    /\ AtCurrent(Clause(confl)) # {}

\* The answers are right: on "sat" the trail extends to a model of the theories
\* and of everything asserted, on "unsat" there is none.
AnswersRight ==
  /\ answer = "sat" => Consistent(Lits(trail), Asserted(assertionLevel))
  /\ answer = "unsat" => ~Consistent({}, Asserted(assertionLevel))

\* The variables of the lemmas that wait exist (the assert in value()).
LemmaVarsExist == \A i \in DOMAIN lemmas : NewVars(lemmas[i].c) = {}

\* The search is one thread running to its end: it takes infinitely many steps
\* unless it is over.  This is WF_vars(Search), Search being enabled wherever
\* pc # "user" (there is no deadlock).
Fairness == []<>(pc = "user") \/ []<><<pc # "user">>_vars

FairSpec == Spec /\ Fairness

\* Every check ends.
SolveEnds == pc # "user" ~> pc = "user"
=============================================================================
