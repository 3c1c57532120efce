---------------------------- MODULE MCSmtEngine ----------------------------
(***************************************************************************)
(* SmtEngine, the ResourceManager, the CnfStream and the TheoryEngine on   *)
(* small instances. A behaviour is one of one part; the other modules stay *)
(* in their initial states.                                                *)
(*   plain   incremental mode, where nothing fails                         *)
(*   faulty  checks are refused, and hard limits throw out of commands     *)
(*   once    without --incremental                                         *)
(*   reset   with resetAssertions                                          *)
(*   limits  the ResourceManager: resource limits of both kinds            *)
(*   time    time limits per call, on either clock                         *)
(*   cnf     the CnfStream, with every connective and nested lemmas        *)
(*   sharing the TheoryEngine: two theories that deduce equalities from    *)
(*           each other's, without decisions                               *)
(*   asked   the same with decisions, equalities that rewrite to false,    *)
(*           and lemmas that ask for atoms                                 *)
(***************************************************************************)
EXTENDS SmtEngine, ResourceManager, TLC

CONSTANTS f, g, none

VARIABLES
  part,
  registrar, cnf, saved, calls,                  \* CnfStream
  engine, trail, queue, levels                   \* TheoryEngine

streamVars == <<registrar, cnf, saved, calls>>
theoryVars == <<engine, trail, queue, levels>>

\* The sessions of the first four parts, and that of the run about refused checks.
PlainSession == [incremental |-> TRUE, resets |-> FALSE, faults |-> {}, queries |-> {f, none}]
SessionOf ==
  [plain   |-> PlainSession,
   faulty  |-> [PlainSession EXCEPT !.faults = {"refused", "thrown"}, !.queries = {none}],
   once    |-> [PlainSession EXCEPT !.incremental = FALSE],
   reset   |-> [PlainSession EXCEPT !.resets = TRUE, !.queries = {f}],
   refused |-> [PlainSession EXCEPT !.faults = {"refused"}]]
MCSessions == {SessionOf[p] : p \in DOMAIN SessionOf}

\* Bound: one push where exceptions leave levels open.
Shallow == Len(stack') <= 2

\* The part limits is the ResourceManager of the cfg.
Time == INSTANCE ResourceManager WITH
          CumulativeUnits <- {0}, PerCallUnits <- {0}, CumulativeMillis <- {0},
          PerCallMillis <- {0, 2}, Amount <- {1}, satConflictStep <- 1, MaxUsed <- 1,
          MaxTime <- 3, HardLimits <- {FALSE}, CpuTimes <- {TRUE, FALSE}

(* The formulas of the part cnf: every connective occurs at the top, under *)
(* another one, and negated; p and q are theory atoms.                     *)
Formula ==
  [p       |-> <<"ATOM">>,
   q       |-> <<"ATOM">>,
   x       |-> <<"VARIABLE">>,
   true    |-> <<"CONST">>,
   notp    |-> <<"NOT", "p">>,
   and     |-> <<"AND", "notp", "x">>,
   or      |-> <<"OR", "p", "q", "true">>,
   xor     |-> <<"XOR", "x", "q">>,
   iff     |-> <<"IFF", "and", "q">>,
   implies |-> <<"IMPLIES", "xor", "and">>,
   ite     |-> <<"ITE", "xor", "p", "iff">>,
   nand    |-> <<"NOT", "and">>,
   clause  |-> <<"OR", "notp", "q">>,
   deep    |-> <<"AND", "implies", "nand">>,
   deeper  |-> <<"OR", "ite", "implies">>]

Permanent(n, negated) == [node |-> n, negated |-> negated, removable |-> FALSE]
Removable(n, negated) == [node |-> n, negated |-> negated, removable |-> TRUE]
OnRegistration(forp, forq) ==
  [n \in {"p", "q", "true"} |-> CASE n = "p" -> forp [] n = "q" -> forq [] OTHER -> none]

Stream == INSTANCE CnfStream WITH
          Node <- DOMAIN Formula, Kind <- [n \in DOMAIN Formula |-> Head(Formula[n])],
          Kids <- [n \in DOMAIN Formula |-> Tail(Formula[n])],
          Asserted <- {"deep", "deeper", "ite", "iff", "or"},
          Lemmas <- {Permanent(n, TRUE) : n \in {"and", "or", "xor", "iff", "implies", "ite"}}
                    \cup {Permanent("xor", FALSE), Permanent("deeper", FALSE),
                          Removable("clause", FALSE), Removable("p", TRUE)},
          Ensured <- {"and", "notp", "x", "nand"},
          Registrations <- {OnRegistration(none, none),
                            OnRegistration(Removable("clause", FALSE), Permanent("ite", TRUE)),
                            OnRegistration(Permanent("deeper", FALSE), Removable("clause", FALSE))},
          None <- none, MaxLevel <- 1, MaxCalls <- 1

(* Terms 1, 2 and 3, predicates p and q. A model says which terms are      *)
(* equal (one of the five partitions) and which predicates hold.           *)
Terms == 1 .. 3
Predicates == {<<"p">>, <<"q">>}
Models == 0 .. 19
EqualIn(m, x, y) == x = y \/ m \div 4 = 4 \/ (m \div 4) + 2 = x + y
TrueIn(m, atom) ==
  CASE atom = <<>> -> FALSE
    [] atom = <<"p">> -> m % 2 = 1
    [] atom = <<"q">> -> (m \div 2) % 2 = 1
    [] OTHER -> EqualIn(m, atom[1], atom[2])
InModels ==
  <<>> @@ [l \in ({<<>>} \cup Predicates \cup Terms \X Terms) \X BOOLEAN |->
             {m \in Models : TrueIn(m, l[1]) = l[2]}]

(* Arithmetic: 1 = 2 is p and q. Functions: 1 = 2 if and only if 2 = 3.    *)
SharingModels ==
  "arith" :> {m \in Models : EqualIn(m, 1, 2) = (m % 4 = 3)}
  @@ "uf" :> {m \in Models : EqualIn(m, 1, 2) = EqualIn(m, 2, 3)}
  @@ "builtin" :> Models
SharingTerms ==
  <<2, 3>> :> {2, 3} \X {"uf"}
  @@ [a \in Predicates \cup {<<1, 2>>} |-> {1, 2} \X {"arith", "uf"}]
Sharing == INSTANCE TheoryEngine WITH
          saved <- levels, Theory <- {"arith", "uf"}, SAT <- "sat", BUILTIN <- "builtin",
          Term <- Terms, Predicate <- Predicates, Owner <- [x \in Predicates |-> "arith"],
          Equality <- {<<1, 2>>, <<2, 3>>}, EqualityOwner <- "uf", Model <- SharingModels,
          Holds <- InModels, Deduced <- {<<1, 2>>, <<2, 3>>, <<3, 1>>}, Impossible <- {},
          SharedIn <- SharingTerms, Requests <- {}, MaxLevel <- 0, MaxAhead <- 1

(* Arithmetic: p implies 1 = 2, and 1 = 3 rewrites to false. Functions:    *)
(* 1 = 2 implies 2 = 3. Arithmetic asks for 1 = 2 the other way round.     *)
AskedModels ==
  "arith" :> {m \in Models : (m % 2 = 1 => EqualIn(m, 1, 2)) /\ ~EqualIn(m, 1, 3)}
  @@ "uf" :> {m \in Models : EqualIn(m, 1, 2) => EqualIn(m, 2, 3)}
  @@ "builtin" :> Models
AskedTerms ==
  <<"p">> :> {1, 2} \X {"arith", "uf"} @@ <<1, 2>> :> Terms \X {"arith", "uf"}
Asked == INSTANCE TheoryEngine WITH
          saved <- levels, Theory <- {"arith", "uf"}, SAT <- "sat", BUILTIN <- "builtin",
          Term <- Terms, Predicate <- {<<"p">>}, Owner <- [x \in {<<"p">>} |-> "arith"],
          Equality <- {<<1, 2>>}, EqualityOwner <- "uf", Model <- AskedModels,
          Holds <- InModels, Deduced <- {<<1, 2>>, <<2, 3>>},
          Impossible <- {<<1, 3>>, <<3, 1>>}, SharedIn <- AskedTerms,
          Requests <- {<<<<1, 2>>, <<2, 1>>, "arith">>}, MaxLevel <- 1, MaxAhead <- 1

ASSUME EngineAssumption /\ Sharing!EngineAssumption /\ Asked!EngineAssumption
ASSUME LimitAssumption /\ Time!LimitAssumption /\ Stream!StreamAssumption

MCInit ==
  /\ part \in {"plain", "faulty", "once", "reset", "limits", "time", "cnf", "sharing", "asked"}
  /\ Init /\ session = IF part \in DOMAIN SessionOf THEN SessionOf[part] ELSE PlainSession
  /\ Stream!Init /\ (part # "cnf" => registrar = OnRegistration(none, none))
  /\ Sharing!Init
  /\ CASE part = "limits" -> ManagerInit
       [] part = "time" -> Time!ManagerInit
       [] OTHER -> ManagerInit /\ ~rm.d_isHardLimit

EngineStep ==
  /\ part \in DOMAIN SessionOf /\ Next /\ (part = "faulty" => Shallow)
  /\ UNCHANGED <<part, managerVars, streamVars, theoryVars>>

ManagerStep ==
  /\ \/ part = "limits" /\ ManagerNext
     \/ part = "time" /\ Time!ManagerNext
  /\ UNCHANGED <<part, vars, streamVars, theoryVars>>

StreamStep == part = "cnf" /\ Stream!Next /\ UNCHANGED <<part, vars, managerVars, theoryVars>>

TheoryStep ==
  /\ \/ part = "sharing" /\ Sharing!Next
     \/ part = "asked" /\ Asked!Next
  /\ UNCHANGED <<part, vars, managerVars, streamVars>>

MCNext == EngineStep \/ ManagerStep \/ StreamStep \/ TheoryStep

MCSpec == MCInit /\ [][MCNext]_<<part, vars, managerVars, streamVars, theoryVars>>
-----------------------------------------------------------------------------
\* Formulas become the clauses that mean them, across pops, removed clauses and lemmas
\* that arrive in the middle of a conversion (prop/cnf_stream.cpp:203).
TranslationRight == part = "cnf" => Stream!TranslationRight

\* Whatever a theory deduces from another's deductions, and however late it is asked
\* for, is explained by earlier literals of the SAT solver, without circles
\* (theory_engine.cpp:2085), and every theory knows what is known of the terms it
\* shares.
SharingRight ==
  CASE part = "sharing" -> Sharing!SharingRight
    [] part = "asked" -> Asked!SharingRight
    [] OTHER -> TRUE

\* A search that has spent its resources ends.
SearchStops == part = "limits" /\ ManagerFairness => ExpiredSearchStops
-----------------------------------------------------------------------------
\* Checks that are refused for lack of resources, see README.md.
RefusedInit ==
  /\ part = "refused" /\ Init /\ session = SessionOf.refused
  /\ Time!ManagerInit /\ Stream!Init /\ Sharing!Init
RefusedSpec == RefusedInit /\ [][EngineStep]_<<part, vars, managerVars, streamVars, theoryVars>>

\* "Refused" checks leave nothing behind that a later check would see.
RefusedLeavesNothing == decided = asked
=============================================================================
