----------------------------- MODULE MCTheories -----------------------------
(***************************************************************************)
(* The equality engine and the bit-blaster on small instances. A behaviour *)
(* is one of one part; the other module stays in its initial state.        *)
(*   unary, const, binary   term universes of the equality engine: three   *)
(*            variables and a unary function; two variables and two        *)
(*            constants; a binary function, whose applications are curried *)
(*            through inner nodes of their own                             *)
(*   small    sizes 1 to 3 of the bit vectors, every pair of terms and     *)
(*            atoms, which is enough for a term to be found where another  *)
(*            one put it                                                   *)
(*   wide     sizes 4 and 5, one term each, for the carries, the stages of *)
(*            the shifters and the levels of the divider                   *)
(***************************************************************************)
EXTENDS Naturals, FiniteSets, Sequences

CONSTANT None

VARIABLES
  part,
  d_nodes, find, next, size, normalized, lookup, queue, merges, edges, triggers, nodeTriggers,
  disequalities, d_done, fired, saved, call, facts, notified,   \* EqualityEngine
  bits, value, constant, d_termCache, d_bbAtoms                 \* Bitblaster

engineVars == <<d_nodes, find, next, size, normalized, lookup, queue, merges, edges, triggers,
                nodeTriggers, disequalities, d_done, fired, saved, call, facts, notified>>
blasterVars == <<bits, value, constant, d_termCache, d_bbAtoms>>
-----------------------------------------------------------------------------
Shape(terms, args) == [t \in terms |-> IF t \in DOMAIN args THEN args[t] ELSE <<>>]

\* Variables a, b and c, f(a) and f(b).
UnaryApps == [fa |-> <<"f", "a">>, fb |-> <<"f", "b">>, ab |-> <<"a", "b">>,
              fac |-> <<"fa", "c">>, fafb |-> <<"fa", "fb">>]
UnaryTerm == {"true", "false", "a", "b", "c", "f"} \cup DOMAIN UnaryApps
UnaryOrder == [t \in UnaryTerm |->
  CASE t = "fa" -> <<"f", "a", "fa">> [] t = "fb" -> <<"f", "b", "fb">>
    [] t = "ab" -> <<"a", "b", "ab">> [] t = "fac" -> <<"f", "a", "fa", "c", "fac">>
    [] t = "fafb" -> <<"f", "a", "fa", "b", "fb", "fafb">>
    [] OTHER -> <<t>>]

\* Two variables and the constants 0 and 1.
ConstApps == [a0 |-> <<"a", "0">>, b1 |-> <<"b", "1">>, ab |-> <<"a", "b">>]
ConstTerm == {"true", "false", "a", "b", "0", "1"} \cup DOMAIN ConstApps
ConstOrder == [t \in ConstTerm |->
  CASE t = "a0" -> <<"a", "0", "a0">> [] t = "b1" -> <<"b", "1", "b1">>
    [] t = "ab" -> <<"a", "b", "ab">> [] OTHER -> <<t>>]

\* g(a, b) and g(b, b) with the inner applications gA of g to a and gB of g to b.
BinaryApps == [gA |-> <<"g", "a">>, gab |-> <<"gA", "b">>, gB |-> <<"g", "b">>,
               gbb |-> <<"gB", "b">>, ab |-> <<"a", "b">>, gg |-> <<"gab", "gbb">>,
               gabb |-> <<"gab", "b">>]
BinaryTerm == {"true", "false", "a", "b", "g"} \cup DOMAIN BinaryApps
BinaryOrder == [t \in BinaryTerm |->
  CASE t = "gab" -> <<"g", "a", "gA", "b", "gab">> [] t = "gbb" -> <<"g", "b", "gB", "b", "gbb">>
    [] t = "ab" -> <<"a", "b", "ab">> [] t = "gabb" -> <<"g", "a", "gA", "b", "gab", "gabb">>
    [] t = "gg" -> <<"g", "a", "gA", "b", "gab", "gB", "gbb", "gg">>
    [] OTHER -> <<t>>]

Unary == INSTANCE EqualityEngine WITH
  Term <- UnaryTerm, Args <- Shape(UnaryTerm, UnaryApps), Order <- UnaryOrder,
  Equality <- {"ab", "fac", "fafb"}, Constant <- {"true", "false"}, Internal <- {"f"},
  True <- "true", False <- "false", Asserted <- {"ab", "fac"}, Triggers <- {"fac"},
  Asked <- {"fafb"}, MaxLevel <- 1
Const == INSTANCE EqualityEngine WITH
  Term <- ConstTerm, Args <- Shape(ConstTerm, ConstApps), Order <- ConstOrder,
  Equality <- {"a0", "b1", "ab"}, Constant <- {"true", "false", "0", "1"}, Internal <- {},
  True <- "true", False <- "false", Asserted <- {"a0", "b1", "ab"}, Triggers <- {"ab"},
  Asked <- {"ab"}, MaxLevel <- 1
Binary == INSTANCE EqualityEngine WITH
  Term <- BinaryTerm, Args <- Shape(BinaryTerm, BinaryApps), Order <- BinaryOrder,
  Equality <- {"ab", "gabb", "gg"}, Constant <- {"true", "false"}, Internal <- {"g", "gA", "gB"},
  True <- "true", False <- "false", Asserted <- {"ab", "gabb"}, Triggers <- {"gabb"},
  Asked <- {"gg"}, MaxLevel <- 1

Small == INSTANCE Bitblaster WITH size <- bits, Sizes <- 1 .. 3, MaxTerms <- 2
Wide == INSTANCE Bitblaster WITH size <- bits, Sizes <- 4 .. 5, MaxTerms <- 1

ASSUME Unary!EqualityEngineAssumption /\ Const!EqualityEngineAssumption
ASSUME Binary!EqualityEngineAssumption
ASSUME Small!SizesAssumption /\ Wide!SizesAssumption
-----------------------------------------------------------------------------
\* The bit-blaster of the parts that leave it alone.
NoBits == bits = 1 /\ value = [x \in {"a", "b"} |-> 0] /\ constant = FALSE
          /\ d_termCache = <<>> /\ d_bbAtoms = <<>>

Init ==
  /\ part \in {"unary", "const", "binary", "small", "wide"}
  /\ CASE part = "const" -> Const!Init
       [] part = "binary" -> Binary!Init
       [] OTHER -> Unary!Init
  /\ CASE part = "small" -> Small!Init
       [] part = "wide" -> Wide!Init
       [] OTHER -> NoBits

EngineStep ==
  /\ \/ part = "unary" /\ Unary!Next
     \/ part = "const" /\ Const!Next
     \/ part = "binary" /\ Binary!Next
  /\ UNCHANGED <<part, blasterVars>>

BlasterStep ==
  /\ \/ part = "small" /\ Small!Next
     \/ part = "wide" /\ Wide!Next
  /\ UNCHANGED <<part, engineVars>>

Next == EngineStep \/ BlasterStep

vars == <<part, engineVars, blasterVars>>

Spec == Init /\ [][Next]_vars
-----------------------------------------------------------------------------
\* The classes are those of the congruence closure of the literals that hold in
\* the current context (equality_engine.cpp:464, 682), with the right representatives.
ClassesRight ==
  /\ part = "unary" => Unary!TypeOK /\ Unary!ClassesRight
  /\ part = "binary" => Binary!ClassesRight
  /\ part = "const" => Const!RepresentativesRight

\* What the engine has derived or told it can explain by literals that hold.
Explained ==
  /\ part = "unary" => Unary!Explained /\ Unary!TermsThere
  /\ part = "binary" => Binary!Explained
  /\ part = "const" => Const!DisequalityExplained /\ Const!ConflictExplained

\* The theory is told of the trigger equalities that are decided, and of no other.
TriggersRight ==
  /\ part = "binary" => Binary!TriggersNotified
  /\ part = "const" => Const!TriggersInStep

\* Every circuit in the caches computes what SMT-LIB says of its term, for every
\* value of the arguments, and the evaluation of constants and the rewrite rules keep
\* that value.
BitsRight ==
  /\ part = "small" => Small!CachesRight /\ Small!RulesRight
  /\ part = "wide" => Wide!CachesRight
-----------------------------------------------------------------------------
\* The bit-blaster alone, see README.md.
SmallSpec == part = "small" /\ Unary!Init /\ Small!Init /\ [][BlasterStep]_vars

\* Division by zero gives -1, as the option --bv-div-zero-const says.
DivisionByZeroIsMinusOne == Small!DivisionByZeroIsMinusOne
=============================================================================
