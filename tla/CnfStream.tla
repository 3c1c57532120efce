------------------------------ MODULE CnfStream ------------------------------
(***************************************************************************)
(* Formulas become clauses (prop/cnf_stream.cpp, called by                 *)
(* prop/prop_engine.cpp): subformulas get literals, which are remembered   *)
(* as long as the user context allows, and clauses that define them. An    *)
(* atom is registered with the theories as soon as it has its literal, in  *)
(* the middle of a conversion, and the theories may answer with a lemma    *)
(* that is converted there and then (theory/theory_engine.cpp:369).        *)
(*                                                                         *)
(* A literal is an integer, -l being the negation of l; variables 1 and 2  *)
(* are trueVar and falseVar. The SAT solver is external: it drops the      *)
(* variables and clauses of a level with the level, and removable clauses  *)
(* when it likes (Solver models it).                                       *)
(***************************************************************************)
EXTENDS Integers, Sequences, FiniteSetsExt, Functions, TLC

CONSTANTS
  Node,         \* the formulas
  Kind,         \* their kinds
  Kids,         \* their children
  Asserted,     \* what the user asserts
  Lemmas,       \* what the theories send: records [node, negated, removable]
  Ensured,      \* the nodes for which a theory asks for a literal
  Registrations,\* what theories may send on registration: functions from atoms
                \* to lemmas or None
  None,
  MaxLevel,     \* bound on the user level
  MaxCalls      \* bound on the calls between a push and the next

Atomic == {n \in Node : Kind[n] \in {"VARIABLE", "ATOM", "CONST"}}

StreamAssumption ==
  /\ Kind \in [Node -> {"VARIABLE", "ATOM", "CONST", "NOT", "AND", "OR", "XOR", "IMPLIES",
                        "IFF", "ITE"}]
  /\ Kids \in [Node -> Seq(Node)] /\ \A n \in Atomic : Kids[n] = <<>>
  /\ Asserted \cup Ensured \subseteq Node
  /\ Lemmas \subseteq [node : Node, negated : BOOLEAN, removable : BOOLEAN]
  /\ \A r \in Registrations : r \in [{n \in Node : Kind[n] \in {"ATOM", "CONST"}} -> Lemmas \cup {None}]

VARIABLES
  registrar,    \* what the theories send when an atom is registered
  cnf,          \* the stream: see Empty
  saved,        \* what the user context restores, for each level
  calls         \* the calls since the last push, for each level

vars == <<registrar, cnf, saved, calls>>

level == Len(saved)

(* d_nodeToLiteralMap (for nodes other than negations, which have the      *)
(* negated literal), d_literalToNodeMap (a pair <<n, FALSE>> is            *)
(* n.notNode()), d_booleanVariables, d_removable, the queue of             *)
(* TheoryEngine::preRegister, and of the SAT solver the level of each      *)
(* variable and the clauses. sent is a history variable: what is asserted, *)
(* lemmas included, with its level. asserts is whether the assertion on    *)
(* removable definitions has held so far.                                  *)
Empty ==
  [lits |-> <<>>, nodes |-> <<>>, booleans |-> {}, removable |-> FALSE,
   inPreregister |-> FALSE, queue |-> <<>>,
   vars |-> <<0, 0>>,
   clauses |-> {[lits |-> {1}, level |-> 0, removable |-> FALSE],
                [lits |-> {-2}, level |-> 0, removable |-> FALSE]},
   sent |-> {}, asserts |-> TRUE]

Abs(l) == IF l < 0 THEN -l ELSE l
-----------------------------------------------------------------------------
hasLiteral(s, n) ==
  \/ n \in DOMAIN s.lits
  \/ Kind[n] = "NOT" /\ Kids[n][1] \in DOMAIN s.lits

getLiteral(s, n) == IF n \in DOMAIN s.lits THEN s.lits[n] ELSE -s.lits[Kids[n][1]]

(* A clause goes to the SAT solver, which gives a removable one the level  *)
(* of its variables.                                                       *)
assertClause(s, c) ==
  LET lev == IF s.removable THEN Max({s.vars[Abs(l)] : l \in c}) ELSE level
  IN  [s EXCEPT !.clauses = @ \cup {[lits |-> c, level |-> lev, removable |-> s.removable]}]

assertClauses(s, C) == FoldSet(LAMBDA c, t : assertClause(t, c), s, C)

(* The pair of entries of d_literalToNodeMap, inserted unless it is there. *)
Backward(s, lit, n) ==
  IF lit \in DOMAIN s.nodes THEN s
  ELSE [s EXCEPT !.nodes = (lit :> <<n, TRUE>>) @@ (-lit :> <<n, FALSE>>) @@ @]

(* The clauses that make lit equivalent to a formula over the literals c.  *)
Definition(kind, lit, c) ==
  CASE kind = "OR" -> {{lit, -c[i]} : i \in DOMAIN c} \cup {{-lit} \cup Range(c)}
    [] kind = "AND" -> {{-lit, c[i]} : i \in DOMAIN c} \cup {{lit} \cup {-l : l \in Range(c)}}
    [] kind = "XOR" -> {{c[1], c[2], -lit}, {-c[1], -c[2], -lit},
                        {c[1], -c[2], lit}, {-c[1], c[2], lit}}
    [] kind = "IFF" -> {{-c[1], c[2], -lit}, {c[1], -c[2], -lit},
                        {-c[1], -c[2], lit}, {c[1], c[2], lit}}
    [] kind = "IMPLIES" -> {{-lit, -c[1], c[2]}, {c[1], lit}, {-c[2], lit}}
    [] kind = "ITE" -> {{-lit, c[2], c[3]}, {-lit, -c[1], c[2]}, {-lit, c[1], c[3]},
                        {lit, -c[2], -c[3]}, {lit, -c[1], -c[2]}, {lit, c[1], -c[3]}}
-----------------------------------------------------------------------------
RECURSIVE toCNF(_, _), toCNFs(_, _), preRegister(_, _), convertAndAssert(_, _, _)

(* Faulty variant of newLiteral: lemmas sent on registration change        *)
(* d_removable for the rest of the conversion.                             *)
newLiteralNoBackup(s, n, isTheoryAtom, register) ==
  LET fresh == IF Kind[n] = "CONST" THEN (IF n = "true" THEN 1 ELSE 2) ELSE Len(s.vars) + 1
      lit   == IF hasLiteral(s, n) THEN getLiteral(s, n) ELSE fresh
      s1    == IF hasLiteral(s, n) THEN s
               ELSE [s EXCEPT !.lits = (n :> lit) @@ @,
                              !.vars = IF Kind[n] = "CONST" THEN @ ELSE Append(@, level)]
      s2    == IF isTheoryAtom THEN Backward(s1, lit, n) ELSE s1
  IN  [s |-> IF register THEN preRegister(s2, n) ELSE s2, lit |-> lit]

(* Inside preRegister lemmas may be converted, this very node included:    *)
(* d_removable is saved and restored, and the literal is kept.             *)
newLiteral(s, n, isTheoryAtom, register) ==
  LET fresh == IF Kind[n] = "CONST" THEN (IF n = "true" THEN 1 ELSE 2) ELSE Len(s.vars) + 1
      lit   == IF hasLiteral(s, n) THEN getLiteral(s, n) ELSE fresh
      s1    == IF hasLiteral(s, n) THEN s
               ELSE [s EXCEPT !.lits = (n :> lit) @@ @,
                              !.vars = IF Kind[n] = "CONST" THEN @ ELSE Append(@, level)]
      s2    == IF isTheoryAtom THEN Backward(s1, lit, n) ELSE s1
      s3    == IF register THEN [preRegister(s2, n) EXCEPT !.removable = s2.removable] ELSE s2
  IN  [s |-> s3, lit |-> lit]

convertAtom(s, n) ==
  IF Kind[n] = "VARIABLE"
    THEN newLiteral([s EXCEPT !.booleans = @ \cup {n}], n, FALSE, FALSE)
    ELSE newLiteral(s, n, TRUE, TRUE)

(* handleXor, handleOr, handleAnd, handleImplies, handleIff and handleIte: *)
(* first the children, then the literal, then the definition, which may    *)
(* not be removable.                                                       *)
Handle(s, n) ==
  LET kids == toCNFs(s, Kids[n])
      new  == newLiteral(kids.s, n, FALSE, FALSE)
      s1   == [new.s EXCEPT !.asserts = @ /\ (s.removable => Kind[n] = "IFF")]
  IN  [s |-> assertClauses(s1, Definition(Kind[n], new.lit, kids.lits)), lit |-> new.lit]

toCNF(s, n) ==
  CASE hasLiteral(s, n) -> [s |-> s, lit |-> getLiteral(s, n)]
    [] ~hasLiteral(s, n) /\ Kind[n] = "NOT" ->
         LET kid == toCNF(s, Kids[n][1]) IN [s |-> kid.s, lit |-> -kid.lit]
    [] ~hasLiteral(s, n) /\ n \in Atomic -> convertAtom(s, n)
    [] OTHER -> Handle(s, n)

(* The literals of several nodes, one after the other.                     *)
toCNFs(s, ns) ==
  IF ns = <<>> THEN [s |-> s, lits |-> <<>>]
  ELSE LET first == toCNF(s, Head(ns))
           rest  == toCNFs(first.s, Tail(ns))
       IN  [s |-> rest.s, lits |-> <<first.lit>> \o rest.lits]

(* TheoryEngine::lemma and PropEngine::assertLemma.                        *)
assertLemma(s, lemma) ==
  convertAndAssert([s EXCEPT !.removable = lemma.removable,
                             !.sent = @ \cup {[lemma |-> lemma, level |-> level]}],
                   lemma.node, lemma.negated)

(* TheoryEngine::preRegister: only the outermost call empties the queue.   *)
RECURSIVE Preregistered(_)
Preregistered(s) ==
  IF s.queue = <<>> THEN [s EXCEPT !.inPreregister = FALSE]
  ELSE LET s1 == [s EXCEPT !.queue = Tail(@)]
           lemma == registrar[Head(s.queue)]
       IN  Preregistered(IF lemma = None THEN s1 ELSE assertLemma(s1, lemma))

preRegister(s, n) ==
  LET s1 == [s EXCEPT !.queue = Append(@, n)]
  IN  IF s.inPreregister THEN s1 ELSE Preregistered([s1 EXCEPT !.inPreregister = TRUE])

(* At the top the clauses are about the children themselves.               *)
TopClauses(kind, negated, c) ==
  CASE kind = "AND" -> {{-l : l \in Range(c)}}
    [] kind = "OR" -> {Range(c)}
    [] kind = "IMPLIES" -> {{-c[1], c[2]}}
    [] kind = "ITE" -> LET sign == IF negated THEN -1 ELSE 1
                       IN  {{-c[1], sign * c[2]}, {c[1], sign * c[3]}}
    [] (kind = "XOR") # negated -> {{-c[1], -c[2]}, {c[1], c[2]}}
    [] OTHER -> {{-c[1], c[2]}, {c[1], -c[2]}}

(* A conjunction is asserted one conjunct after the other.                 *)
Conjuncts(s, n, negated) ==
  LET signs == IF Kind[n] = "IMPLIES" THEN <<FALSE, TRUE>>
               ELSE [i \in DOMAIN Kids[n] |-> negated]
      done[i \in 0 .. Len(Kids[n])] ==
        IF i = 0 THEN s ELSE convertAndAssert(done[i - 1], Kids[n][i], signs[i])
  IN  done[Len(Kids[n])]

IsConjunction(n, negated) ==
  \/ Kind[n] = "AND" /\ ~negated
  \/ Kind[n] \in {"OR", "IMPLIES"} /\ negated

convertAndAssert(s, n, negated) ==
  CASE Kind[n] = "NOT" -> convertAndAssert(s, Kids[n][1], ~negated)
    [] n \in Atomic ->
         LET atom == toCNF(s, n)
         IN  assertClause(atom.s, {IF negated THEN -atom.lit ELSE atom.lit})
    [] IsConjunction(n, negated) -> Conjuncts(s, n, negated)
    [] OTHER -> LET kids == toCNFs(s, Kids[n])
                IN  assertClauses(kids.s, TopClauses(Kind[n], negated, kids.lits))
-----------------------------------------------------------------------------
Init ==
  /\ registrar \in Registrations
  /\ cnf = Empty
  /\ saved = <<>>
  /\ calls = <<0>>

Called ==
  /\ calls[level + 1] < MaxCalls
  /\ calls' = [calls EXCEPT ![level + 1] = @ + 1]
  /\ UNCHANGED <<registrar, saved>>

(* PropEngine::assertFormula.                                              *)
assertFormula(n) ==
  /\ Called
  /\ cnf' = assertLemma(cnf, [node |-> n, negated |-> FALSE, removable |-> FALSE])

(* A theory sends a lemma during the search.                               *)
SendLemma(lemma) == Called /\ cnf' = assertLemma(cnf, lemma)

ensureLiteral(n) ==
  LET s   == [cnf EXCEPT !.removable = FALSE]
      pos == IF Kind[n] = "NOT" THEN Kids[n][1] ELSE n
      new == toCNF(s, pos)
  IN  /\ Called
      /\ cnf' = CASE hasLiteral(s, n) -> Backward(s, getLiteral(s, n), n)
                  [] pos \in Atomic /\ ~hasLiteral(s, n) -> convertAtom(s, pos).s
                  [] OTHER -> Backward(new.s, new.lit, pos)

(* SmtEngine::internalPush and doPendingPops: the user context and the SAT *)
(* solver change level together.                                           *)
push ==
  /\ level < MaxLevel
  /\ saved' = Append(saved, [lits |-> cnf.lits, nodes |-> cnf.nodes, booleans |-> cnf.booleans])
  /\ calls' = Append(calls, 0)
  /\ UNCHANGED <<registrar, cnf>>

pop ==
  LET u == level - 1
  IN  /\ level > 0
      /\ cnf' = [cnf EXCEPT !.lits = saved[level].lits, !.nodes = saved[level].nodes,
                            !.booleans = saved[level].booleans,
                            !.vars = SelectSeq(@, LAMBDA l : l <= u),
                            !.clauses = {c \in @ : c.level <= u},
                            !.sent = {f \in @ : f.lemma.removable \/ f.level <= u}]
      /\ saved' = SubSeq(saved, 1, u)
      /\ calls' = SubSeq(calls, 1, level)
      /\ UNCHANGED registrar

(* The SAT solver forgets a removable clause.                              *)
reduceDB(c) ==
  /\ c.removable
  /\ cnf' = [cnf EXCEPT !.clauses = @ \ {c}]
  /\ UNCHANGED <<registrar, saved, calls>>

Next ==
  \/ \E n \in Asserted : assertFormula(n)
  \/ \E lemma \in Lemmas : SendLemma(lemma)
  \/ \E n \in Ensured : ensureLiteral(n)
  \/ push
  \/ pop
  \/ \E c \in cnf.clauses : reduceDB(c)

Spec == Init /\ [][Next]_vars
-----------------------------------------------------------------------------
(* The value of the formulas where the atoms A are true.                   *)
Value(A) ==
  LET v[n \in Node] ==
        CASE Kind[n] = "CONST" -> n = "true"
          [] Kind[n] \in {"VARIABLE", "ATOM"} -> n \in A
          [] Kind[n] = "NOT" -> ~v[Kids[n][1]]
          [] Kind[n] = "AND" -> \A i \in DOMAIN Kids[n] : v[Kids[n][i]]
          [] Kind[n] = "OR" -> \E i \in DOMAIN Kids[n] : v[Kids[n][i]]
          [] Kind[n] = "XOR" -> v[Kids[n][1]] # v[Kids[n][2]]
          [] Kind[n] = "IFF" -> v[Kids[n][1]] = v[Kids[n][2]]
          [] Kind[n] = "IMPLIES" -> v[Kids[n][1]] => v[Kids[n][2]]
          [] Kind[n] = "ITE" -> IF v[Kids[n][1]] THEN v[Kids[n][2]] ELSE v[Kids[n][3]]
  IN  v

TrueIn(S, l) == IF l > 0 THEN l \in S ELSE -l \notin S

Satisfied(S, C) == \A c \in C : \E l \in c.lits : TrueIn(S, l)

(* The clauses mean what is asserted. An assignment S of the variables     *)
(* satisfies those that stay exactly if every literal in the cache has the *)
(* value of its node and every assertion and lemma of the open levels is   *)
(* true; removable clauses add nothing but their lemmas. So a cached node  *)
(* keeps its definition as long as it is cached, across pops, lemmas that  *)
(* arrive in the middle of a conversion, and clauses that are removed.     *)
ClausesMeanAssertions ==
  LET hard == {c \in cnf.clauses : ~c.removable}
      Holds(v, f) == v[f.lemma.node] # f.lemma.negated
      Known(n) == \/ hasLiteral(cnf, n)
                  \/ n \notin Atomic /\ \A k \in Range(Kids[n]) : hasLiteral(cnf, k)
  IN  \A S \in SUBSET (1 .. Len(cnf.vars)) : 1 \in S /\ 2 \notin S =>
        LET v == Value({n \in DOMAIN cnf.lits : TrueIn(S, cnf.lits[n])})
            means == \A n \in DOMAIN cnf.lits : TrueIn(S, cnf.lits[n]) = v[n]
            holds == \A f \in cnf.sent : ~f.lemma.removable => Holds(v, f)
        IN  /\ Satisfied(S, hard) <=> means /\ holds
            /\ means /\ holds /\ (\A f \in cnf.sent : Known(f.lemma.node) => Holds(v, f))
                 => Satisfied(S, cnf.clauses)

(* Theory literals and literals that were asked for lead back to a node of *)
(* the same meaning; the assertion on removable definitions holds.         *)
LiteralsRight ==
  /\ cnf.asserts /\ cnf.queue = <<>> /\ ~cnf.inPreregister
  /\ \A n \in DOMAIN cnf.lits : Kind[n] = "ATOM" => cnf.nodes[cnf.lits[n]] = <<n, TRUE>>
  /\ \A l \in DOMAIN cnf.nodes :
       LET n == cnf.nodes[l][1]
       IN  hasLiteral(cnf, n) /\ getLiteral(cnf, n) = (IF cnf.nodes[l][2] THEN l ELSE -l)

(* Formulas are translated faithfully.                                     *)
TranslationRight == LiteralsRight /\ ClausesMeanAssertions
=============================================================================
