--------------------------- MODULE EqualityEngine ---------------------------
(***************************************************************************)
(* The equality engine of the theories (theory/uf/equality_engine.cpp):    *)
(* congruence closure that backtracks with the context, notifies a theory  *)
(* of trigger equalities, and explains what it has derived.                *)
(*                                                                         *)
(* The terms are given by constants; an application of a function to       *)
(* several arguments is a chain of binary applications whose inner members *)
(* are internal, as in the code.  A term stands for its node id.  The use  *)
(* lists and the adjacency lists of the equality graph are read off the    *)
(* sequences of nodes and edges they are built from.                       *)
(*                                                                         *)
(* An operation of a client adds the terms it needs one after the other,   *)
(* each followed by propagation, before it does its own part; `call' holds *)
(* the operation meanwhile.  The context calls backtrack() after a pop.    *)
(***************************************************************************)
EXTENDS Naturals, Sequences, FiniteSets, SequencesExt

CONSTANTS Term,     \* all terms, operators and inner applications included
          Args,     \* Args[t]: the two members of an application or equality, or <<>>
          Equality, \* the terms that are equalities
          Constant, Internal, True, False, None,
          Order,    \* Order[t]: the subterms of t, t last, members before their terms
          Asserted, \* the equalities that clients assert, with either polarity
          Triggers, \* the equalities that clients make triggers
          Asked,    \* the terms that clients add by themselves
          MaxLevel  \* bound on the outstanding pushes

EqualityEngineAssumption ==
  /\ {True, False} \subseteq Constant /\ Constant \subseteq Term /\ Internal \subseteq Term
  /\ Equality \subseteq Term /\ Asserted \subseteq Equality /\ Triggers \subseteq Equality
  /\ \A t \in Term : Args[t] = <<>> \/ Args[t] \in Term \X Term
  /\ \A t \in Term : Order[t][Len(Order[t])] = t
  /\ MaxLevel \in Nat

VARIABLES
  d_nodes,       \* the terms that have been added
  find, next, size, \* d_equalityNodes: representative, circular list, size
  normalized,    \* d_applications[..].normalized
  lookup,        \* d_applicationLookups: applications with the term found for each
  queue,         \* d_propagationQueue
  merges,        \* d_assertedEqualities
  edges,         \* d_equalityEdges, one entry for both directions
  triggers,      \* d_equalityTriggers: class and next trigger of the same node
  nodeTriggers,  \* d_nodeTriggers: the first trigger of a node, 0 for none
  disequalities, \* d_deducedDisequalities, each with its reasons
  d_done,
  fired,         \* the rest of the triggers that propagate() is notifying
  saved,         \* the counts that the context restores, per level
  call,          \* the operation in progress, or None
  facts,         \* the literals asserted while the engine was not done
  notified       \* the trigger equalities the theory was told, with polarity

vars == <<d_nodes, find, next, size, normalized, lookup, queue, merges, edges, triggers,
          nodeTriggers, disequalities, d_done, fired, saved, call, facts, notified>>
classes == <<find, next, size>>
tables  == <<normalized, lookup, merges, edges, disequalities>>
trigs   == <<triggers, nodeTriggers>>

HasTerm(t) == t \in Range(d_nodes)
areEqual(s, t) == find[s] = find[t]

\* The type of an application: only those of the same type are congruent.
AppType(t) == IF t \in Equality THEN "eq" ELSE "app"
Candidate(s, t, type, reason) == [t1 |-> s, t2 |-> t, type |-> type, reason |-> reason]

\* The nodes of a class in the order of the circular list.
ClassList(c) ==
  LET walk[i \in 1 .. Cardinality(Term)] == IF i = 1 THEN c ELSE next[walk[i - 1]]
  IN [i \in 1 .. size[c] |-> walk[i]]

\* The use list of t: the applications t is a member of, the latest first.
UseList(t) == Reverse(SelectSeq(d_nodes, LAMBDA n : Args[n] # <<>> /\ t \in Range(Args[n])))

-----------------------------------------------------------------------------
(* The lookup table. *)

Found(tab, app) == SelectSeq(tab, LAMBDA e : e.app = app)

\* storeApplicationLookup, on the record [lookup, queue].
storeApplicationLookup(s, app, t) ==
  [lookup |-> Append(s.lookup, [app |-> app, fun |-> t]),
   queue  |-> IF app[1] # "eq" THEN s.queue
              ELSE IF app[2] = app[3] THEN Append(s.queue, Candidate(t, True, "reflexivity", None))
              ELSE IF {app[2], app[3]} \subseteq Constant
                   THEN Append(s.queue, Candidate(t, False, "constants", None))
              ELSE s.queue]

\* An application is normalized to app: another one with this normal form is
\* congruent to it, otherwise it becomes the entry of the table.
Congruent(s, app, t, f) ==
  LET same == Found(s.lookup, app)
  IN IF same = <<>> THEN storeApplicationLookup(s, app, t)
     ELSE IF f[t] = f[same[1].fun] THEN s
     ELSE [s EXCEPT !.queue = Append(@, Candidate(t, same[1].fun, "congruence", None))]

-----------------------------------------------------------------------------
(* newNode and newApplicationNode. *)

newNode(t) ==
  LET app == IF Args[t] = <<>> THEN <<>> ELSE <<AppType(t), find[Args[t][1]], find[Args[t][2]]>>
      s   == [lookup |-> lookup, queue |-> queue]
      s2  == IF app = <<>> THEN s ELSE Congruent(s, app, t, [find EXCEPT ![t] = t])
  IN /\ d_nodes' = Append(d_nodes, t)
     /\ find' = [find EXCEPT ![t] = t] /\ next' = [next EXCEPT ![t] = t] /\ size' = [size EXCEPT ![t] = 1]
     /\ nodeTriggers' = [nodeTriggers EXCEPT ![t] = 0]
     /\ normalized' = [normalized EXCEPT ![t] = app]
     /\ lookup' = s2.lookup /\ queue' = s2.queue

\* init() adds true and false.
Init ==
  /\ d_nodes = <<True, False>>
  /\ find = [t \in Term |-> t] /\ next = [t \in Term |-> t] /\ size = [t \in Term |-> 1]
  /\ normalized = [t \in Term |-> <<>>] /\ lookup = <<>> /\ queue = <<>>
  /\ merges = <<>> /\ edges = <<>> /\ triggers = <<>> /\ nodeTriggers = [t \in Term |-> 0]
  /\ disequalities = <<>> /\ d_done = FALSE /\ fired = <<>> /\ saved = <<>> /\ call = None
  /\ facts = {} /\ notified = {}

Quiet == queue = <<>> /\ fired = <<>>
Idle  == Quiet /\ call = None

\* An inner application is not followed by propagation of its own.
Inner(t)   == t \in Internal /\ Args[t] # <<>>
WithinTerm == call # None /\ call.terms # <<>> /\ Inner(d_nodes[Len(d_nodes)]) /\ ~d_done

\* addTermInternal for the next of the terms that an operation needs.
addTermInternal ==
  /\ call # None /\ call.terms # <<>> /\ (Quiet \/ WithinTerm)
  /\ LET t == Head(call.terms)
     IN IF HasTerm(t) \/ d_done THEN UNCHANGED <<d_nodes, classes, nodeTriggers, normalized, lookup, queue>>
        ELSE newNode(t)
  /\ call' = [call EXCEPT !.terms = Tail(@)]
  /\ UNCHANGED <<merges, edges, triggers, disequalities, d_done, fired, saved, facts, notified>>

Start(op, eq, polarity, terms) ==
  /\ call' = [op |-> op, eq |-> eq, polarity |-> polarity, terms |-> terms]
  /\ UNCHANGED <<d_nodes, classes, tables, queue, trigs, disequalities, d_done, fired, saved>>

-----------------------------------------------------------------------------
(* Operations of the clients. *)

addTerm(t) ==
  /\ Idle /\ ~d_done /\ ~HasTerm(t)
  /\ Start("term", t, TRUE, Order[t])
  /\ UNCHANGED <<facts, notified>>

addTermDone ==
  /\ Quiet /\ call # None /\ call.op = "term" /\ call.terms = <<>>
  /\ call' = None
  /\ UNCHANGED <<d_nodes, classes, tables, queue, trigs, d_done, fired, saved, facts, notified>>

\* Faulty variant of ConstantReasons: one side is forgotten.
ConstantReasonsFirst(s, t) == <<<<s, find[s]>>>>

\* Why s and t are distinct when their classes have distinct constants.
ConstantReasons(s, t) == <<<<s, find[s]>>, <<t, find[t]>>>>

\* The disequality of s and t that areDisequal finds: its reasons, or <<>>.
DisequalityReasons(s, t) ==
  LET c == find[s]  d == find[t]
      IsFalse(tab) == tab # <<>> /\ areEqual(tab[1].fun, False)
      eq1 == Found(lookup, <<"eq", c, d>>)
      eq2 == Found(lookup, <<"eq", d, c>>)
  IN IF c # d /\ {c, d} \subseteq Constant THEN ConstantReasons(s, t)
     ELSE IF IsFalse(eq1) THEN <<<<s, Args[eq1[1].fun][1]>>, <<eq1[1].fun, False>>, <<t, Args[eq1[1].fun][2]>>>>
     ELSE IF IsFalse(eq2) THEN <<<<t, Args[eq2[1].fun][1]>>, <<eq2[1].fun, False>>, <<s, Args[eq2[1].fun][2]>>>>
     ELSE <<>>

hasPropagatedDisequality(s, t) == \E i \in DOMAIN disequalities : disequalities[i].pair \in {<<s, t>>, <<t, s>>}

areDisequal(s, t) == hasPropagatedDisequality(s, t) \/ DisequalityReasons(s, t) # <<>>

\* storePropagatedDisequality for the tag THEORY_LAST.
storePropagatedDisequality(s, t, reasons) ==
  disequalities' = IF hasPropagatedDisequality(s, t) THEN disequalities
                   ELSE Append(disequalities, [pair |-> <<s, t>>, reasons |-> reasons])

\* assertEquality: nothing is done when the literal is known to hold.
assertEquality(eq, polarity) ==
  LET s == Args[eq][1]  t == Args[eq][2]
      known == /\ HasTerm(s) /\ HasTerm(t)
               /\ IF polarity THEN areEqual(s, t) ELSE areDisequal(s, t)
  IN /\ Idle /\ ~d_done /\ ~known
     /\ Start("assert", eq, polarity, IF polarity THEN Order[s] \o Order[t] ELSE Order[eq])
     /\ facts' = facts \cup {<<eq, polarity>>}
     /\ UNCHANGED notified

\* The rest of assertEqualityInternal: the merge is enqueued.
assertEqualityInternal ==
  /\ Quiet /\ call # None /\ call.op = "assert" /\ call.terms = <<>>
  /\ LET s == IF call.polarity THEN Args[call.eq][1] ELSE call.eq
         t == IF call.polarity THEN Args[call.eq][2] ELSE False
     IN queue' = Append(queue, Candidate(s, t, "asserted", <<call.eq, call.polarity>>))
  /\ call' = None
  /\ UNCHANGED <<d_nodes, classes, tables, trigs, d_done, fired, saved, facts, notified>>

\* addTriggerEquality, once for each equality: first the two sides are added ...
addTriggerEquality(eq) ==
  /\ Idle /\ ~d_done /\ {<<eq, TRUE>>, <<eq, FALSE>>} \cap notified = {}
  /\ \A i \in DOMAIN triggers : triggers[i].eq # eq
  /\ Start("sides", eq, TRUE, Order[Args[eq][1]] \o Order[Args[eq][2]])
  /\ UNCHANGED <<facts, notified>>

\* ... then either the theory is told at once or the equality is added ...
addTriggerSides ==
  /\ Quiet /\ call # None /\ call.op = "sides" /\ call.terms = <<>>
  /\ LET s == Args[call.eq][1]  t == Args[call.eq][2]
     IN IF areEqual(s, t) \/ areDisequal(s, t)
        THEN /\ notified' = notified \cup (IF areEqual(s, t) THEN {<<call.eq, TRUE>>} ELSE {})
                                     \cup (IF areDisequal(s, t) THEN {<<call.eq, FALSE>>} ELSE {})
             /\ IF areDisequal(s, t) THEN storePropagatedDisequality(s, t, DisequalityReasons(s, t))
                ELSE UNCHANGED disequalities
             /\ call' = None
        ELSE /\ call' = [call EXCEPT !.op = "trigger", !.terms = <<call.eq>>]
             /\ UNCHANGED <<disequalities, notified>>
  /\ UNCHANGED <<d_nodes, classes, normalized, lookup, merges, edges, queue, trigs, d_done, fired, saved, facts>>

\* addTriggerEqualityInternal: two triggers, attached to the representatives.
TriggerPair(tr, s, t) ==
  LET n == Len(tr.all)  c == find[s]  d == find[t]
  IN [all  |-> tr.all \o <<[class |-> c, next |-> tr.node[c], eq |-> call.eq, polarity |-> s # call.eq],
                           [class |-> d, next |-> tr.node[d], eq |-> call.eq, polarity |-> s # call.eq]>>,
      node |-> [tr.node EXCEPT ![c] = n + 1, ![d] = n + 2]]

\* ... and gets a positive and a negative trigger.
addTriggerDone ==
  /\ Quiet /\ call # None /\ call.op = "trigger" /\ call.terms = <<>>
  /\ LET pos == TriggerPair([all |-> triggers, node |-> nodeTriggers], Args[call.eq][1], Args[call.eq][2])
         neg == TriggerPair(pos, call.eq, False)
     IN IF d_done THEN UNCHANGED trigs
        ELSE triggers' = neg.all /\ nodeTriggers' = neg.node
  /\ call' = None
  /\ UNCHANGED <<d_nodes, classes, tables, queue, d_done, fired, saved, facts, notified>>

-----------------------------------------------------------------------------
(* propagate(). *)

\* The triggers in the list of node t.
TriggersOf(t) ==
  LET list[i \in 0 .. Len(triggers)] == IF i = 0 THEN <<>> ELSE <<i>> \o list[triggers[i].next]
  IN list[nodeTriggers[t]]

Other(i) == IF i % 2 = 1 THEN i + 1 ELSE i - 1

\* Which of the two representatives stays one.
MergeInto(c, d) ==
  IF (c \in Internal) # (d \in Internal) THEN IF c \in Internal THEN d ELSE c
  ELSE IF (c \in Constant) # (d \in Constant) THEN IF d \in Constant THEN d ELSE c
  ELSE IF size[d] > size[c] THEN d ELSE c

\* Faulty variant of Lookups: the lookups of the class that is merged stay as they are.
LookupsKept(c1, members, f) == [lookup |-> lookup, queue |-> Tail(queue)]

\* The loop of merge that looks for congruent applications.
Lookups(c1, members, f) ==
  LET uses == FlattenSeq([i \in DOMAIN members |-> UseList(members[i])])
      App(t) == <<AppType(t), f[normalized[t][2]], f[normalized[t][3]]>>
  IN FoldLeft(LAMBDA s, t : Congruent(s, App(t), t, f), [lookup |-> lookup, queue |-> Tail(queue)], uses)

\* A trigger that moves to class c1 fires when the other of its pair is there.
Fires(i, c1) == triggers[Other(i)].class = c1

\* merge: class c2 is merged into class c1.
merge(c1, c2) ==
  LET members == ClassList(c2)
      f       == [t \in Term |-> IF t \in Range(members) THEN c1 ELSE find[t]]
      seen    == FlattenSeq([i \in DOMAIN members |-> TriggersOf(members[i])])
      moved   == {i \in Range(seen) : triggers[Other(i)].class # triggers[i].class}
      s       == IF c2 \in Equality THEN [lookup |-> lookup, queue |-> Tail(queue)]
                 ELSE Lookups(c1, members, f)
  IN /\ find' = f
     /\ triggers' = [i \in DOMAIN triggers |-> IF i \in moved THEN [triggers[i] EXCEPT !.class = c1] ELSE triggers[i]]
     /\ fired' = SelectSeq(seen, LAMBDA i : i \in moved /\ Fires(i, c1))
     /\ lookup' = s.lookup /\ queue' = s.queue
     /\ next' = [next EXCEPT ![c1] = next[c2], ![c2] = next[c1]]
     /\ size' = [size EXCEPT ![c1] = @ + size[c2]]
     /\ merges' = Append(merges, <<c1, c2>>)

\* addGraphEdge: the edge joins the two terms themselves.
addGraphEdge(m) == Append(edges, m)

\* A conflict is recorded as a merge of nothing, for there is an edge for it.
NullMerge == <<<<None, None>>>>

\* One candidate of the queue.
propagate ==
  /\ fired = <<>> /\ queue # <<>> /\ ~d_done /\ ~WithinTerm
  /\ LET m == Head(queue)
         c == find[m.t1]  d == find[m.t2]
     IN IF c = d THEN /\ queue' = Tail(queue)
                      /\ UNCHANGED <<classes, lookup, merges, edges, triggers, d_done, fired>>
        ELSE /\ edges' = addGraphEdge(m)
             /\ IF {c, d} \subseteq Constant
                THEN /\ d_done' = TRUE /\ merges' = merges \o NullMerge
                     /\ queue' = Tail(queue)
                     /\ UNCHANGED <<classes, lookup, triggers, fired>>
                ELSE /\ merge(MergeInto(c, d), IF MergeInto(c, d) = c THEN d ELSE c)
                     /\ UNCHANGED d_done
  /\ UNCHANGED <<d_nodes, normalized, nodeTriggers, disequalities, saved, call, facts, notified>>

\* When done, the queue is emptied.
propagateDone ==
  /\ d_done /\ (queue # <<>> \/ fired # <<>>)
  /\ queue' = <<>> /\ fired' = <<>>
  /\ UNCHANGED <<d_nodes, classes, tables, trigs, d_done, saved, call, facts, notified>>

\* The theory is told of a trigger; it answers FALSE when it is in conflict.
notify(ok) ==
  /\ fired # <<>> /\ ~d_done
  /\ LET i == Head(fired)  eq == triggers[i].eq  s == Args[eq][1]  t == Args[eq][2]
         known == ~triggers[i].polarity /\ hasPropagatedDisequality(s, t)
     IN /\ notified' = IF known THEN notified ELSE notified \cup {<<eq, triggers[i].polarity>>}
        /\ IF triggers[i].polarity THEN UNCHANGED disequalities
           ELSE storePropagatedDisequality(s, t, <<<<eq, False>>>>)
        /\ d_done' = (~known /\ ~ok)
  /\ fired' = Tail(fired)
  /\ UNCHANGED <<d_nodes, classes, normalized, lookup, merges, edges, queue, trigs, saved, call, facts>>

-----------------------------------------------------------------------------
(* The context. *)

Push ==
  /\ Idle /\ Len(saved) < MaxLevel
  /\ saved' = Append(saved, [nodes |-> Len(d_nodes), lookup |-> Len(lookup), merges |-> Len(merges),
                             triggers |-> Len(triggers), disequalities |-> Len(disequalities),
                             done |-> d_done, facts |-> facts, notified |-> notified])
  /\ UNCHANGED <<d_nodes, classes, tables, queue, trigs, d_done, fired, call, facts, notified>>

Prefix(s, n) == SubSeq(s, 1, n)

\* Faulty variant of ClassBack: the triggers keep their class.
ClassBackNot(trigger, c2) == trigger

\* undoMerge gives a trigger its class back.
ClassBack(trigger, c2) == [trigger EXCEPT !.class = c2]

\* undoMerge, on the record [find, next, size, triggers].
undoMerge(s, m) ==
  IF m[1] = None THEN s
  ELSE LET c1 == m[1]  c2 == m[2]
           nxt == [s.next EXCEPT ![c1] = s.next[c2], ![c2] = s.next[c1]]
           sz  == [s.size EXCEPT ![c1] = @ - s.size[c2]]
           walk[i \in 1 .. s.size[c2]] == IF i = 1 THEN c2 ELSE nxt[walk[i - 1]]
           members == {walk[i] : i \in 1 .. s.size[c2]}
           own == UNION {Range(TriggersOf(t)) : t \in members}
       IN [find |-> [t \in Term |-> IF t \in members THEN c2 ELSE s.find[t]],
           next |-> nxt, size |-> sz,
           triggers |-> [i \in DOMAIN s.triggers |-> IF i \in own THEN ClassBack(s.triggers[i], c2)
                                                     ELSE s.triggers[i]]]

\* The merges above the restored count are undone, the latest first.
Undone(n) ==
  FoldLeft(undoMerge, [find |-> find, next |-> next, size |-> size, triggers |-> triggers],
           Reverse(SubSeq(merges, n + 1, Len(merges))))

\* Context::pop restores the counts, then backtrack() makes the tables fit them.
Pop ==
  /\ Idle /\ saved # <<>>
  /\ LET to == saved[Len(saved)]
         s  == Undone(to.merges)
         Unlink(nt, i) == [nt EXCEPT ![s.triggers[i].class] = s.triggers[i].next]
         gone == [i \in 1 .. Len(triggers) - to.triggers |-> Len(triggers) + 1 - i]
     IN /\ find' = s.find /\ next' = s.next /\ size' = s.size
        /\ merges' = Prefix(merges, to.merges) /\ edges' = Prefix(edges, to.merges)
        /\ nodeTriggers' = FoldLeft(Unlink, nodeTriggers, gone)
        /\ triggers' = Prefix(s.triggers, to.triggers)
        /\ lookup' = Prefix(lookup, to.lookup)
        /\ d_nodes' = Prefix(d_nodes, to.nodes)
        /\ disequalities' = Prefix(disequalities, to.disequalities)
        /\ d_done' = to.done /\ facts' = to.facts /\ notified' = to.notified
        /\ normalized' = [t \in Term |-> IF t \in Range(d_nodes') THEN normalized[t] ELSE <<>>]
  /\ saved' = Front(saved)
  /\ UNCHANGED <<queue, fired, call>>

-----------------------------------------------------------------------------
Client == \/ \E t \in Asked : addTerm(t)
          \/ \E eq \in Asserted, p \in BOOLEAN : assertEquality(eq, p)
          \/ \E eq \in Triggers : addTriggerEquality(eq)
          \/ Push \/ Pop

Engine == \/ addTermInternal \/ addTermDone \/ assertEqualityInternal
          \/ addTriggerSides \/ addTriggerDone
          \/ propagate \/ propagateDone \/ \E ok \in BOOLEAN : notify(ok)

Next == Client \/ Engine

Spec == Init /\ [][Next]_vars

-----------------------------------------------------------------------------
(* What the engine should compute: the least congruence of the facts on the *)
(* terms, with (s = t) joined to true when s and t are equal and to false   *)
(* when they are distinct constants.                                        *)

RECURSIVE Close(_, _)
Close(rep, terms) ==
  LET apps == {t \in terms : Args[t] # <<>>}
      eqs  == terms \cap Equality
      new  == {p \in apps \X apps :
                 /\ rep[p[1]] # rep[p[2]] /\ AppType(p[1]) = AppType(p[2])
                 /\ \A i \in 1 .. 2 : rep[Args[p[1]][i]] = rep[Args[p[2]][i]]}
              \cup {p \in eqs \X {True} : rep[p[1]] # rep[True] /\ rep[Args[p[1]][1]] = rep[Args[p[1]][2]]}
              \cup {p \in eqs \X {False} :
                     /\ rep[p[1]] # rep[False]
                     /\ \E c, d \in Constant \cap terms :
                           c # d /\ rep[Args[p[1]][1]] = rep[c] /\ rep[Args[p[1]][2]] = rep[d]}
  IN IF new = {} THEN rep
     ELSE LET p == CHOOSE q \in new : TRUE
          IN Close([t \in Term |-> IF rep[t] = rep[p[1]] THEN rep[p[2]] ELSE rep[t]], terms)

\* The closure of a set of literals, as a choice of representatives.
Closure(literals, terms) ==
  LET Join(rep, l) ==
        LET s == IF l[2] THEN Args[l[1]][1] ELSE l[1]
            t == IF l[2] THEN Args[l[1]][2] ELSE False
        IN [u \in Term |-> IF rep[u] = rep[s] THEN rep[t] ELSE rep[u]]
  IN Close(FoldLeft(Join, [t \in Term |-> t], SetToSeq(literals)), terms)

-----------------------------------------------------------------------------
(* getExplanation: the reasons along the path in the equality graph. *)

RECURSIVE Paths(_, _, _)
Paths(s, t, E) ==
  IF s = t THEN {{}}
  ELSE UNION {LET far == IF edges[i].t1 = s THEN edges[i].t2 ELSE edges[i].t1
              IN {{i} \cup path : path \in Paths(far, t, E \ {i})} :
                i \in {j \in E : s \in {edges[j].t1, edges[j].t2}}}

\* The edges from s to t: the graph is a forest, so there is one path.
PathEdges(s, t) == UNION Paths(s, t, DOMAIN edges)

\* Congruent applications are explained by all their arguments.
ExplainedArguments == {1, 2}

RECURSIVE getExplanation(_, _)
getExplanation(s, t) ==
  LET Because(m) ==
        CASE m.type = "asserted" -> {m.reason}
          [] m.type = "congruence" -> UNION {getExplanation(Args[m.t1][i], Args[m.t2][i]) : i \in ExplainedArguments}
          [] m.type = "reflexivity" -> getExplanation(Args[m.t1][1], Args[m.t1][2])
          [] m.type = "constants" -> UNION {getExplanation(u, find[u]) : u \in Range(Args[m.t1])}
  IN UNION {Because(edges[i]) : i \in PathEdges(s, t)}

-----------------------------------------------------------------------------
\* Type invariant, with the correspondence of merges and edges that backtrack relies on.
TypeOK ==
  /\ Range(d_nodes) \subseteq Term /\ IsInjective(d_nodes)
  /\ find \in [Term -> Term] /\ next \in [Term -> Term] /\ size \in [Term -> Nat]
  /\ Len(merges) = Len(edges) /\ Len(triggers) % 2 = 0
  /\ nodeTriggers \in [Term -> 0 .. Len(triggers)]
  /\ d_done \in BOOLEAN /\ Len(saved) <= MaxLevel
  /\ call = None \/ call.op \in {"term", "assert", "sides", "trigger"}

\* Between operations the classes are those of the congruence closure of exactly
\* the literals that hold in the current context, also after backtracking.
ClassesRight ==
  Idle /\ ~d_done =>
    LET terms == Range(d_nodes)
        rep == Closure(facts, terms)
    IN \A s, t \in terms : areEqual(s, t) <=> rep[s] = rep[t]

\* The representative of a class is a constant if there is one in it, and an
\* internal node only if there is no other, and carries the size of the class.
RepresentativesRight ==
  \A c \in Range(d_nodes) :
    LET class == {t \in Range(d_nodes) : find[t] = c}
    IN find[c] = c => /\ Range(ClassList(c)) = class /\ size[c] = Cardinality(class)
                      /\ class \cap Constant # {} => c \in Constant
                      /\ c \in Internal => class \subseteq Internal

\* Whatever the engine holds equal it can explain by literals asserted in the
\* current context, which suffice to derive it.
Explained ==
  Idle =>
    LET named == Range(d_nodes) \ Internal
        equal == {p \in named \X named : p[1] # p[2] /\ areEqual(p[1], p[2])}
        why == [p \in equal |-> getExplanation(p[1], p[2])]
    IN \A reasons \in Range(why) :
         /\ reasons \subseteq facts
         /\ LET rep == Closure(reasons, Range(d_nodes))
            IN \A p \in equal : why[p] = reasons => rep[p[1]] = rep[p[2]]

\* A disequality that the theory was told can be explained: the stored reasons
\* are equalities that still hold, and with them its sides cannot be equal.
DisequalityExplained ==
  Idle => \A i \in DOMAIN disequalities :
    LET d == disequalities[i]
        why == UNION {getExplanation(r[1], r[2]) : r \in Range(d.reasons)}
        eq == CHOOSE e \in Equality : Args[e] = d.pair
        rep == Closure(why \cup {<<eq, TRUE>>}, Range(d_nodes) \cup Constant)
    IN /\ \A r \in Range(d.reasons) : areEqual(r[1], r[2])
       /\ \E c, e \in Constant : c # e /\ rep[c] = rep[e]

\* Between operations the theory has been told of every trigger equality that
\* is decided in the current context, and of no other.
TriggersNotified ==
  Idle /\ ~d_done =>
    /\ \A i \in DOMAIN triggers :
         LET eq == triggers[i].eq
         IN IF triggers[i].polarity THEN areEqual(Args[eq][1], Args[eq][2]) => <<eq, TRUE>> \in notified
            ELSE areEqual(eq, False) => <<eq, FALSE>> \in notified
    /\ \A n \in notified : IF n[2] THEN areEqual(Args[n[1]][1], Args[n[1]][2])
                           ELSE areDisequal(Args[n[1]][1], Args[n[1]][2])

\* Every trigger is in the list of the node that stands for its side, and the two
\* triggers of a pair have the same class exactly when their sides are equal.
TriggersInStep ==
  Quiet => \A i \in DOMAIN triggers :
     LET eq == triggers[i].eq
         side == IF triggers[i].polarity THEN Args[eq][IF i % 2 = 1 THEN 1 ELSE 2]
                 ELSE IF i % 2 = 1 THEN eq ELSE False
     IN /\ \E t \in Range(d_nodes) : areEqual(t, side) /\ i \in Range(TriggersOf(t))
        /\ (triggers[i].class = triggers[Other(i)].class) <=>
              IF triggers[i].polarity THEN areEqual(Args[eq][1], Args[eq][2]) ELSE areEqual(eq, False)

\* When an operation has added its terms it finds them: addTermInternal returns
\* without adding a term once the engine is done, and getNodeId does not check.
TermsThere ==
  call # None /\ call.terms = <<>> /\ Quiet =>
    IF call.op = "assert" /\ ~call.polarity THEN HasTerm(call.eq)
    ELSE IF call.op \in {"assert", "sides"} THEN HasTerm(Args[call.eq][1]) /\ HasTerm(Args[call.eq][2])
    ELSE HasTerm(call.eq)

\* A conflict is explained by literals of the current context: when two constants
\* are joined by an edge, the path between them gives the explanation.
ConflictExplained ==
  Idle => \A i \in DOMAIN merges :
    merges[i] = <<None, None>> =>
      /\ i \in DOMAIN edges
      /\ LET c == find[edges[i].t1]  d == find[edges[i].t2]
             why == getExplanation(c, d)
             rep == Closure(why, Range(d_nodes))
         IN why \subseteq facts /\ \E x, y \in Constant : x # y /\ rep[x] = rep[y]
=============================================================================
