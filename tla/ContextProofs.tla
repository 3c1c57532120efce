---------------------------- MODULE ContextProofs ----------------------------
(***************************************************************************)
(* Proofs about Context: its invariants hold, and it implements Snapshots, *)
(* for any sets of objects and values and any bound on the levels.         *)
(***************************************************************************)
EXTENDS Context, TLAPS, SequenceTheorems, WellFoundedInduction

\* ListsExact, said of every pair that could be a version.
Exact ==
  \A o \in Obj : \A i \in Nat \ {0} : \A l \in 0..TopLevel :
    <<o, i>> \in Listed(l) <=>
      Constructed(o) /\ i <= Last(o) /\ ScopeOf(o, i) = l

\* What the loops of pop() keep true of the control state.
PopState ==
  /\ phase = "run" => dying = {}
  /\ phase = "restore" => target <= level /\ level < MaxLevel
  /\ \A l \in Level : l > level => chain[l] = {}

\* A slot without an object has no copies; an ordinary object is linked to
\* the bottom scope by its constructor, and that version is never undone.
Anchored ==
  \A o \in Obj :
    /\ ~Constructed(o) => saved[o] = <<>>
    /\ storage[o] = "heap" => ScopeOf(o, 1) = 0

\* No version belongs to a scope above the one being deleted.
BelowTop ==
  \A o \in Obj : Constructed(o) =>
    \A i \in 1..Last(o) : ScopeOf(o, i) <= TopLevel

\* The inductive invariant.
Inv == TypeOK /\ PopState /\ Anchored /\ BelowTop /\ OneVersionPerScope /\ Exact

-----------------------------------------------------------------------------
(* How the operations change the versions of an object. *)

\* The versions of an object are as many as its copies plus one, each with a
\* scope and a value.
LEMMA VersionType ==
  ASSUME TypeOK, NEW o \in Obj
  PROVE  /\ Last(o) \in Nat \ {0}
         /\ \A i \in 1..Last(o) : ScopeOf(o, i) \in Level /\ DataOf(o, i) \in Val
<1>1. saved[o] \in Seq(Copy) /\ Len(saved[o]) \in Nat
  BY DEF TypeOK
<1>2. ASSUME NEW i \in 1..Len(saved[o])
      PROVE  saved[o][i] \in Copy
  BY <1>1
<1>3. ASSUME NEW i \in 1..Last(o)
      PROVE  ScopeOf(o, i) \in Level /\ DataOf(o, i) \in Val
  <2>1. CASE i = Last(o)
    BY <2>1 DEF TypeOK, ScopeOf, DataOf
  <2>2. CASE i # Last(o)
    <3>1. i \in 1..Len(saved[o])
      BY <1>1, <2>2 DEF Last
    <3> QED  BY <1>2, <2>2, <3>1 DEF ScopeOf, DataOf, Copy
  <2> QED  BY <2>1, <2>2
<1> QED  BY <1>1, <1>3 DEF Last

\* Update adds one version, of the current scope, above the old ones.
LEMMA UpdateVersions ==
  ASSUME TypeOK, NEW o \in Obj, Update(o)
  PROVE  /\ Last(o)' = Last(o) + 1
         /\ \A i \in 1..Last(o) : ScopeOf(o, i)' = ScopeOf(o, i)
         /\ ScopeOf(o, Last(o))' = level
         /\ \A i \in 1..Last(o) : DataOf(o, i)' = DataOf(o, i)
         /\ DataOf(o, Last(o))' = data'[o]
<1> DEFINE c == [data |-> data[o], scope |-> scope[o]]
<1>0. c \in Copy
  BY DEF TypeOK, Copy
<1>1. saved[o] \in Seq(Copy) /\ Len(saved[o]) \in Nat
  BY DEF TypeOK
<1>2. saved'[o] = Append(saved[o], c) /\ scope'[o] = level
  BY DEF Update, TypeOK
<1>3. /\ Len(saved'[o]) = Len(saved[o]) + 1
      /\ \A i \in 1..Len(saved[o]) : saved'[o][i] = saved[o][i]
      /\ saved'[o][Len(saved[o]) + 1] = c
  BY <1>0, <1>1, <1>2, AppendProperties
<1>4. Last(o)' = Last(o) + 1 /\ Last(o) = Len(saved[o]) + 1
  BY <1>1, <1>3 DEF Last
<1>5. /\ ScopeOf(o, Last(o))' = level
      /\ DataOf(o, Last(o))' = data'[o]
  BY <1>1, <1>2, <1>4 DEF ScopeOf, DataOf
<1>6. ASSUME NEW i \in 1..Last(o)
      PROVE  ScopeOf(o, i)' = ScopeOf(o, i) /\ DataOf(o, i)' = DataOf(o, i)
  <2>1. ScopeOf(o, i)' = saved'[o][i].scope /\ DataOf(o, i)' = saved'[o][i].data
    BY <1>1, <1>4 DEF ScopeOf, DataOf
  <2>2. CASE i = Last(o)
    BY <1>1, <1>3, <1>4, <2>1, <2>2 DEF ScopeOf, DataOf
  <2>3. CASE i # Last(o)
    BY <1>1, <1>3, <1>4, <2>1, <2>3 DEF ScopeOf, DataOf
  <2> QED  BY <2>2, <2>3
<1> QED  BY <1>4, <1>5, <1>6

\* RestoreCopy removes the newest version and leaves the others.
LEMMA RestoreVersions ==
  ASSUME TypeOK, NEW o \in Obj, RestoreCopy(o)
  PROVE  /\ Last(o) > 1
         /\ Last(o)' = Last(o) - 1
         /\ \A i \in 1..(Last(o) - 1) : ScopeOf(o, i)' = ScopeOf(o, i)
         /\ \A i \in 1..(Last(o) - 1) : DataOf(o, i)' = DataOf(o, i)
<1> DEFINE n == Len(saved[o])
<1>1. saved[o] \in Seq(Copy) /\ n \in Nat /\ n > 0
  BY DEF TypeOK, RestoreCopy
<1>2. /\ saved'[o] = SubSeq(saved[o], 1, n - 1)
      /\ scope'[o] = saved[o][n].scope
      /\ data'[o] = saved[o][n].data
  BY DEF RestoreCopy, TypeOK
<1>3. /\ Len(saved'[o]) = n - 1
      /\ \A i \in 1..(n - 1) : saved'[o][i] = saved[o][i]
  BY <1>1, <1>2, SubSeqProperties
<1>4. Last(o) = n + 1 /\ Last(o)' = n /\ Last(o) > 1 /\ Last(o)' = Last(o) - 1
  BY <1>1, <1>3 DEF Last
<1>5. ASSUME NEW i \in 1..n
      PROVE  ScopeOf(o, i)' = ScopeOf(o, i) /\ DataOf(o, i)' = DataOf(o, i)
  <2>1. i # Last(o) /\ ScopeOf(o, i) = saved[o][i].scope /\ DataOf(o, i) = saved[o][i].data
    BY <1>1, <1>4 DEF ScopeOf, DataOf
  <2>2. CASE i = n
    BY <1>2, <1>4, <2>1, <2>2 DEF ScopeOf, DataOf
  <2>3. CASE i # n
    <3>1. i \in 1..(n - 1)
      BY <1>1, <2>3
    <3> QED  BY <1>3, <1>4, <2>1, <2>3, <3>1 DEF ScopeOf, DataOf
  <2> QED  BY <2>2, <2>3
<1> QED  BY <1>1, <1>4, <1>5

\* The versions of an object that a step leaves alone.
LEMMA SameVersions ==
  ASSUME NEW o \in Obj, saved'[o] = saved[o], scope'[o] = scope[o]
  PROVE  /\ Last(o)' = Last(o)
         /\ \A i \in 1..Last(o) : ScopeOf(o, i)' = ScopeOf(o, i)
         /\ data'[o] = data[o] => \A i \in 1..Last(o) : DataOf(o, i)' = DataOf(o, i)
  BY DEF Last, ScopeOf, DataOf
-----------------------------------------------------------------------------
(* Type correctness. *)

\* The constructor of Context establishes the types.
LEMMA InitType == Init => TypeOK
<1> SUFFICES ASSUME Init PROVE TypeOK
  OBVIOUS
<1>1. 0 \in Level
  BY ContextAssumption DEF Level
<1>2. <<>> \in Seq(Copy)
  OBVIOUS
<1> QED  BY <1>1, <1>2, ContextAssumption DEF Init, TypeOK

\* The levels that the operations compute are levels.
LEMMA LevelStep ==
  /\ \A l \in Level : l < MaxLevel => l + 1 \in Level
  /\ \A l, t \in Level : t < l => l - 1 \in Level /\ l > 0
  /\ 0 \in Level
  BY ContextAssumption DEF Level

\* Taking the top scope off the scope list keeps the types.
LEMMA DeleteTopScopeType ==
  ASSUME TypeOK, NEW t \in Level, t < level, DeleteTopScope
  PROVE  /\ level' \in Level
         /\ chain' \in [Level -> SUBSET Version]
         /\ dying' \in SUBSET Version
  BY LevelStep DEF TypeOK, DeleteTopScope

\* addToChain keeps the type of the lists.
LEMMA LinkedType ==
  ASSUME NEW ch \in [Level -> SUBSET Version], NEW l \in Level, NEW v \in Version
  PROVE  Linked(ch, l, v) \in [Level -> SUBSET Version]
  BY DEF Linked

\* update() keeps the types of copies, scopes and lists.
LEMMA UpdateType ==
  ASSUME TypeOK, NEW o \in Obj, Update(o)
  PROVE  /\ saved' \in [Obj -> Seq(Copy)]
         /\ scope' \in [Obj -> Level]
         /\ chain' \in [Level -> SUBSET Version]
<1>1. [data |-> data[o], scope |-> scope[o]] \in Copy
  BY DEF TypeOK, Copy
<1>2. saved[o] \in Seq(Copy)
  BY DEF TypeOK
<1>3. Append(saved[o], [data |-> data[o], scope |-> scope[o]]) \in Seq(Copy)
  BY <1>1, <1>2, AppendProperties
<1>4. <<o, Last(o) + 1>> \in Version
  BY VersionType DEF Version
<1> QED  BY <1>3, <1>4, LinkedType DEF Update, TypeOK

\* restoreAndContinue keeps the types of the objects.
LEMMA RestoreType ==
  ASSUME TypeOK, NEW o \in Obj, RestoreCopy(o) \/ RestoreNull(o)
  PROVE  /\ storage' \in [Obj -> {"none", "heap", "cmm"}]
         /\ data' \in [Obj -> Val]
         /\ scope' \in [Obj -> Level]
         /\ saved' \in [Obj -> Seq(Copy)]
<1>1. CASE RestoreCopy(o)
  <2> DEFINE n == Len(saved[o])
  <2>1. saved[o] \in Seq(Copy) /\ n \in Nat /\ n > 0
    BY <1>1 DEF TypeOK, RestoreCopy
  <2>2. saved[o][n] \in Copy
    BY <2>1
  <2>3. SubSeq(saved[o], 1, n - 1) \in Seq(Copy)
    BY <2>1, SubSeqProperties
  <2> QED  BY <1>1, <2>2, <2>3 DEF RestoreCopy, TypeOK, Copy
<1>2. CASE RestoreNull(o)
  BY <1>2, LevelStep, ContextAssumption DEF RestoreNull, TypeOK
<1> QED  BY <1>1, <1>2

\* Every step keeps the types.
LEMMA NextType == TypeOK /\ [Next]_vars => TypeOK'
<1> SUFFICES ASSUME TypeOK, [Next]_vars PROVE TypeOK'
  OBVIOUS
<1>1. CASE Push
  BY <1>1, LevelStep DEF Push, TypeOK
<1>2. ASSUME NEW t \in Level, PopTo(t) PROVE TypeOK'
  BY <1>2, DeleteTopScopeType DEF PopTo, TypeOK
<1>3. CASE ScopeDeleted
  <2>1. CASE target < level /\ DeleteTopScope /\ UNCHANGED phase
    BY <1>3, <2>1, DeleteTopScopeType DEF ScopeDeleted, TypeOK
  <2>2. CASE phase' = "run" /\ UNCHANGED <<level, chain, dying>>
    BY <1>3, <2>2 DEF ScopeDeleted, TypeOK
  <2> QED  BY <1>3, <2>1, <2>2 DEF ScopeDeleted
<1>4. ASSUME NEW o \in Obj, Restore(o) PROVE TypeOK'
  BY <1>4, RestoreType DEF Restore, TypeOK
<1>5. ASSUME NEW o \in Obj, NEW w \in {"heap", "cmm"}, Construct(o, w) PROVE TypeOK'
  <2>1. <<o, 1>> \in Version
    BY DEF Version
  <2> QED  BY <1>5, <2>1, LinkedType, LevelStep, ContextAssumption DEF Construct, TypeOK
<1>6. ASSUME NEW o \in Obj, Destroy(o) PROVE TypeOK'
  BY <1>6, LevelStep, ContextAssumption DEF Destroy, TypeOK
<1>7. ASSUME NEW o \in Obj, NEW v \in Val, Set(o, v) PROVE TypeOK'
  BY <1>7, UpdateType DEF Set, MakeCurrent, TypeOK
<1>8. ASSUME NEW o \in Obj, NEW v \in Val, ConstructWith(o, v) PROVE TypeOK'
  <2>1. <<o, 1>> \in Version /\ <<o, 2>> \in Version
    BY DEF Version
  <2>2. [data |-> Default, scope |-> 0] \in Copy
    BY LevelStep, ContextAssumption DEF Copy
  <2>3. <<[data |-> Default, scope |-> 0]>> \in Seq(Copy)
    BY <2>2
  <2>4. chain' \in [Level -> SUBSET Version]
    <3>1. Linked(chain, 0, <<o, 1>>) \in [Level -> SUBSET Version]
      BY <2>1, LinkedType, LevelStep DEF TypeOK
    <3>2. Linked(Linked(chain, 0, <<o, 1>>), level, <<o, 2>>)
             \in [Level -> SUBSET Version]
      BY <2>1, <3>1, LinkedType DEF TypeOK
    <3> QED  BY <1>8, <3>1, <3>2 DEF ConstructWith
  <2>5. saved' \in [Obj -> Seq(Copy)]
    BY <1>8, <2>3 DEF ConstructWith, TypeOK
  <2> QED  BY <1>8, <2>4, <2>5 DEF ConstructWith, TypeOK
<1>9. CASE UNCHANGED vars
  BY <1>9 DEF vars, TypeOK
<1> QED  BY <1>1, <1>2, <1>3, <1>4, <1>5, <1>6, <1>7, <1>8, <1>9 DEF Next

\* The variables keep their types: levels stay between 0 and the bound, and
\* every saved copy holds a value and the level of an existing scope.
THEOREM TypeCorrect == Spec => []TypeOK
  BY InitType, NextType, PTL DEF Spec
-----------------------------------------------------------------------------
(* The inductive invariant. *)

\* A context without objects satisfies the invariant.
LEMMA InitInv == Init => Inv
<1> SUFFICES ASSUME Init PROVE Inv
  OBVIOUS
<1>1. TypeOK
  BY InitType
<1> QED
  BY <1>1, ContextAssumption
  DEF Init, Inv, PopState, Anchored, BelowTop, OneVersionPerScope, Exact,
      Constructed, TopLevel, Listed, Level

\* When no version is waiting to be restored, none is above the level.
LEMMA NoneAbove ==
  ASSUME Inv, dying = {}
  PROVE  /\ \A o \in Obj : Constructed(o) =>
              \A i \in 1..Last(o) : ScopeOf(o, i) <= level
         /\ \A o \in Obj : \A i \in Nat \ {0} : \A l \in 0..level :
              <<o, i>> \in chain[l] <=>
                Constructed(o) /\ i <= Last(o) /\ ScopeOf(o, i) = l
<1>1. level \in Nat
  BY ContextAssumption DEF Inv, TypeOK, Level
<1>2. ASSUME NEW o \in Obj, Constructed(o), NEW i \in 1..Last(o)
      PROVE  ScopeOf(o, i) <= level
  <2>1. ScopeOf(o, i) <= TopLevel /\ ScopeOf(o, i) \in Nat
    BY <1>2, VersionType, ContextAssumption DEF Inv, BelowTop, Level
  <2>2. CASE phase = "restore"
    <3>1. level + 1 \in 0..TopLevel /\ Listed(level + 1) = {}
      BY <1>1, <2>2 DEF TopLevel, Listed
    <3>2. <<o, i>> \notin Listed(level + 1) /\ i \in Nat \ {0} /\ i <= Last(o)
      BY <3>1, VersionType DEF Inv
    <3>3. ScopeOf(o, i) # level + 1
      BY <1>2, <3>1, <3>2 DEF Inv, Exact
    <3> QED  BY <1>1, <2>1, <2>2, <3>3 DEF TopLevel
  <2>3. CASE phase # "restore"
    BY <2>1, <2>3 DEF TopLevel
  <2> QED  BY <2>2, <2>3
<1>3. ASSUME NEW l \in 0..level
      PROVE  l \in 0..TopLevel /\ Listed(l) = chain[l]
  BY <1>1 DEF TopLevel, Listed
<1> QED  BY <1>2, <1>3 DEF Inv, Exact

\* Context::push: the new scope lists nothing and no version belongs to it.
LEMMA PushInv == Inv /\ Push => Inv'
<1> SUFFICES ASSUME Inv, Push PROVE Inv'
  OBVIOUS
<1>1. /\ level \in Nat /\ level' = level + 1 /\ phase = "run" /\ phase' = "run"
      /\ TopLevel' = level + 1 /\ dying = {} /\ TypeOK'
      /\ level + 1 \in Level /\ chain[level + 1] = {}
  BY ContextAssumption, NextType DEF Inv, TypeOK, Level, Push, Next, TopLevel, PopState
<1>2. \A o \in Obj : /\ Last(o)' = Last(o)
                     /\ Constructed(o)' = Constructed(o)
                     /\ \A i : ScopeOf(o, i)' = ScopeOf(o, i)
  BY DEF Push, Last, ScopeOf, Constructed
<1>3. PopState' /\ Anchored'
  BY <1>1, <1>2 DEF Push, Inv, PopState, Anchored, Level
<1>4. \A o \in Obj : Constructed(o) =>
        \A i \in 1..Last(o) : ScopeOf(o, i) <= level /\ ScopeOf(o, i) \in Nat
  BY <1>1, NoneAbove, VersionType, ContextAssumption DEF Inv, Level
<1>5. BelowTop' /\ OneVersionPerScope'
  BY <1>1, <1>2, <1>4 DEF Inv, BelowTop, OneVersionPerScope
<1>6. ASSUME NEW o \in Obj, NEW i \in Nat \ {0}, NEW l \in 0..(level + 1)
      PROVE  <<o, i>> \in Listed(l)' <=>
               (Constructed(o) /\ i <= Last(o) /\ ScopeOf(o, i) = l)'
  <2>1. Listed(l)' = chain[l]
    BY <1>1 DEF Listed, Push
  <2>2. CASE l = level + 1
    <3>1. Constructed(o) /\ i <= Last(o) => ScopeOf(o, i) # l
      BY <1>1, <1>4, <2>2, VersionType DEF Inv
    <3> QED  BY <1>1, <1>2, <2>1, <2>2, <3>1
  <2>3. CASE l # level + 1
    <3>1. l \in 0..level
      BY <1>1, <2>3
    <3> QED  BY <1>1, <1>2, <2>1, <3>1, NoneAbove
  <2> QED  BY <2>2, <2>3
<1> QED  BY <1>1, <1>3, <1>5, <1>6 DEF Inv, Exact

\* The deletion of the top scope begins: its list becomes the work list.
LEMMA DeleteTopScopeInv ==
  ASSUME Inv, dying = {}, DeleteTopScope, UNCHANGED <<storage, data, scope, saved>>,
         phase' = "restore", target' \in Level, target' < level
  PROVE  Inv'
<1>1. /\ level \in Nat /\ level' = level - 1 /\ level' \in Nat /\ level <= MaxLevel
      /\ TopLevel' = level /\ target' <= level' /\ TypeOK'
  <2>1. level \in Level /\ level - 1 \in Level /\ target' \in Nat /\ level \in Nat
    BY LevelStep, ContextAssumption DEF Inv, TypeOK, Level
  <2>2. TypeOK'
    BY DeleteTopScopeType DEF Inv, TypeOK
  <2> QED
    BY <2>1, <2>2, ContextAssumption DEF DeleteTopScope, TopLevel, Level
<1>2. \A o \in Obj : /\ Last(o)' = Last(o)
                     /\ Constructed(o)' = Constructed(o)
                     /\ \A i : ScopeOf(o, i)' = ScopeOf(o, i)
  BY DEF Last, ScopeOf, Constructed
<1>3. PopState'
  BY <1>1, ContextAssumption DEF Inv, PopState, DeleteTopScope, Level, TypeOK
<1>4. Anchored' /\ BelowTop' /\ OneVersionPerScope'
  BY <1>1, <1>2, NoneAbove DEF Inv, Anchored, BelowTop, OneVersionPerScope
<1>5. ASSUME NEW l \in 0..level
      PROVE  Listed(l)' = chain[l]
  BY <1>1, ContextAssumption DEF Listed, DeleteTopScope, Inv, TypeOK, Level
<1>6. ASSUME NEW o \in Obj, NEW i \in Nat \ {0}, NEW l \in 0..level
      PROVE  <<o, i>> \in Listed(l)' <=>
               (Constructed(o) /\ i <= Last(o) /\ ScopeOf(o, i) = l)'
  BY <1>2, <1>5, NoneAbove
<1>7. Exact'
  BY <1>1, <1>6 DEF Exact
<1> QED  BY <1>1, <1>3, <1>4, <1>7 DEF Inv

\* The beginning of a pop preserves the invariant: the top list becomes the
\* dying one.
LEMMA PopToInv == ASSUME Inv, NEW t \in Level, PopTo(t) PROVE Inv'
  BY DeleteTopScopeInv DEF PopTo, Inv, PopState

\* The end of a scope's deletion preserves it, with a further scope to pop or
\* without.
LEMMA ScopeDeletedInv == Inv /\ ScopeDeleted => Inv'
<1> SUFFICES ASSUME Inv, ScopeDeleted PROVE Inv'
  OBVIOUS
<1>1. CASE target < level /\ DeleteTopScope /\ UNCHANGED phase
  <2>1. target' \in Level /\ target' < level /\ phase' = "restore"
    BY <1>1 DEF ScopeDeleted, Inv, TypeOK
  <2> QED  BY <1>1, <2>1, DeleteTopScopeInv DEF ScopeDeleted
<1>2. CASE phase' = "run" /\ UNCHANGED <<level, chain, dying>>
  <2>1. /\ level \in Nat /\ TopLevel' = level /\ dying = {} /\ TypeOK'
        /\ \A l \in 0..level : Listed(l)' = chain[l]
    BY <1>2, NextType, ContextAssumption
    DEF Inv, TypeOK, Level, ScopeDeleted, TopLevel, Listed, Next
  <2>2. \A o \in Obj : /\ Last(o)' = Last(o)
                       /\ Constructed(o)' = Constructed(o)
                       /\ \A i : ScopeOf(o, i)' = ScopeOf(o, i)
    BY DEF ScopeDeleted, Last, ScopeOf, Constructed
  <2>3. PopState'
    BY <1>2, <2>1 DEF Inv, PopState
  <2>4. Anchored' /\ BelowTop' /\ OneVersionPerScope'
    BY <2>1, <2>2, NoneAbove DEF ScopeDeleted, Inv, Anchored, BelowTop, OneVersionPerScope
  <2>5. ASSUME NEW o \in Obj, NEW i \in Nat \ {0}, NEW l \in 0..level
        PROVE  <<o, i>> \in Listed(l)' <=>
                 (Constructed(o) /\ i <= Last(o) /\ ScopeOf(o, i) = l)'
    BY <2>1, <2>2, NoneAbove
  <2>6. Exact'
    BY <2>1, <2>5 DEF Exact
  <2> QED  BY <2>1, <2>3, <2>4, <2>6 DEF Inv
<1> QED  BY <1>1, <1>2 DEF ScopeDeleted

\* The rest of the invariant of a single object.  An action changes one
\* object only, so its proof obligation is about that object.
ObjInv(o) ==
  /\ ~Constructed(o) => saved[o] = <<>>
  /\ storage[o] = "heap" => ScopeOf(o, 1) = 0
  /\ Constructed(o) => \A i \in 1..Last(o) : ScopeOf(o, i) <= TopLevel
  /\ Constructed(o) => \A i, j \in 1..Last(o) :
                         i < j => ScopeOf(o, i) < ScopeOf(o, j)
  /\ \A i \in Nat \ {0} : \A l \in 0..TopLevel :
       <<o, i>> \in Listed(l) <=>
         Constructed(o) /\ i <= Last(o) /\ ScopeOf(o, i) = l

\* The invariant is the types, the state of a pop, and a part for each object.
LEMMA InvByObject ==
  /\ Inv => TypeOK /\ PopState /\ \A o \in Obj : ObjInv(o)
  /\ TypeOK' /\ PopState' /\ (\A o \in Obj : ObjInv(o)') => Inv'
  BY DEF Inv, Anchored, BelowTop, OneVersionPerScope, Exact, ObjInv

\* What a step does not touch stays as it was.
LEMMA OtherObject ==
  ASSUME NEW p \in Obj, ObjInv(p), TypeOK,
         saved'[p] = saved[p], scope'[p] = scope[p], storage'[p] = storage[p],
         TopLevel' = TopLevel,
         \A i \in Nat \ {0} : \A l \in 0..TopLevel :
            <<p, i>> \in Listed(l)' <=> <<p, i>> \in Listed(l)
  PROVE  ObjInv(p)'
<1>1. /\ Last(p)' = Last(p) /\ Constructed(p)' = Constructed(p)
      /\ \A i : ScopeOf(p, i)' = ScopeOf(p, i)
  BY DEF Last, ScopeOf, Constructed
<1> QED  BY <1>1 DEF ObjInv

\* Restoring an object from its copy, or forgetting one without, preserves it.
LEMMA RestoreInv == ASSUME Inv, NEW o \in Obj, Restore(o) PROVE Inv'
<1>1. /\ TypeOK /\ TypeOK' /\ level \in Nat /\ phase = "restore" /\ ObjInv(o)
      /\ TopLevel = level + 1 /\ TopLevel' = level + 1 /\ PopState'
      /\ level' = level
      /\ \A l \in 0..(level + 1) :
           /\ Listed(l) = IF l = level + 1 THEN dying ELSE chain[l]
           /\ Listed(l)' = IF l = level + 1 THEN dying \ {<<o, Last(o)>>} ELSE chain[l]
  <2>1. TypeOK /\ TypeOK' /\ level \in Nat /\ ObjInv(o)
    <3>1. TypeOK /\ ObjInv(o) /\ [Next]_vars
      BY InvByObject DEF Next
    <3> QED  BY <3>1, NextType, ContextAssumption DEF Level, TypeOK
  <2>2. PopState'
    BY DEF Restore, Inv, PopState
  <2> QED  BY <2>1, <2>2 DEF Restore, TopLevel, Listed
<1>2. Last(o) \in Nat \ {0} /\ Constructed(o) /\ ScopeOf(o, Last(o)) = level + 1
  BY <1>1, VersionType DEF Restore, ObjInv
<1>3. ASSUME NEW p \in Obj, p # o PROVE ObjInv(p)'
  <2>1. saved'[p] = saved[p] /\ scope'[p] = scope[p] /\ storage'[p] = storage[p]
    BY <1>1, <1>3 DEF Restore, RestoreCopy, RestoreNull, TypeOK
  <2>2. ASSUME NEW i \in Nat \ {0}, NEW l \in 0..TopLevel
        PROVE  <<p, i>> \in Listed(l)' <=> <<p, i>> \in Listed(l)
    BY <1>1, <1>3
  <2>3. ObjInv(p)
    BY InvByObject
  <2> QED  BY <1>1, <2>1, <2>2, <2>3, OtherObject
<1>4. CASE RestoreCopy(o)
  <2>1. /\ Last(o) > 1 /\ Last(o)' = Last(o) - 1 /\ Constructed(o)'
        /\ storage'[o] = storage[o]
        /\ \A i \in 1..(Last(o) - 1) : ScopeOf(o, i)' = ScopeOf(o, i)
    BY <1>1, <1>2, <1>4, RestoreVersions DEF RestoreCopy, Constructed
  <2>2. \A i \in 1..(Last(o) - 1) : ScopeOf(o, i) < level + 1 /\ ScopeOf(o, i) \in Nat
    BY <1>1, <1>2, VersionType, ContextAssumption DEF ObjInv, Level
  <2>3. ASSUME NEW i \in Nat \ {0}, NEW l \in 0..(level + 1)
        PROVE  <<o, i>> \in Listed(l)' <=> i <= Last(o) - 1 /\ ScopeOf(o, i)' = l
    <3>1. <<o, i>> \in Listed(l) <=> i <= Last(o) /\ ScopeOf(o, i) = l
      BY <1>1, <1>2 DEF ObjInv
    <3>2. <<o, i>> \in Listed(l)' <=> <<o, i>> \in Listed(l) /\ (l = level + 1 => i # Last(o))
      BY <1>1
    <3> QED  BY <1>1, <1>2, <2>1, <2>2, <3>1, <3>2
  <2>4. ObjInv(o)'
    BY <1>1, <1>2, <2>1, <2>2, <2>3 DEF ObjInv
  <2> QED  BY <1>1, <1>3, <2>4, InvByObject
<1>5. CASE RestoreNull(o)
  <2>1. /\ Last(o) = 1 /\ ~Constructed(o)' /\ saved'[o] = <<>> /\ storage'[o] = "none"
    BY <1>1, <1>5 DEF RestoreNull, Last, Constructed, TypeOK
  <2>2. ASSUME NEW i \in Nat \ {0}, NEW l \in 0..(level + 1)
        PROVE  <<o, i>> \notin Listed(l)'
    <3>1. <<o, i>> \in Listed(l) => i = 1 /\ l = level + 1
      BY <1>1, <1>2, <2>1 DEF ObjInv
    <3> QED  BY <1>1, <2>1, <3>1
  <2>3. ObjInv(o)'
    BY <1>1, <2>1, <2>2 DEF ObjInv
  <2> QED  BY <1>1, <1>3, <2>3, InvByObject
<1> QED  BY <1>4, <1>5 DEF Restore

\* Clients run between pops, when the lists are those of the open scopes.
LEMMA ClientStep ==
  ASSUME Inv, Next, phase = "run", UNCHANGED <<level, dying, target, phase>>,
         \A l \in Level : l > level => chain'[l] = chain[l]
  PROVE  /\ TypeOK /\ TypeOK' /\ PopState' /\ level \in Nat /\ level \in Level
         /\ TopLevel = level /\ TopLevel' = level
         /\ \A l \in 0..level : /\ l \in Level
                                /\ Listed(l) = chain[l]
                                /\ Listed(l)' = chain'[l]
         /\ \A o \in Obj : ObjInv(o)
<1>1. TypeOK /\ PopState /\ (\A o \in Obj : ObjInv(o)) /\ [Next]_vars
  BY InvByObject
<1>2. TypeOK' /\ level \in Nat /\ level \in Level /\ level <= MaxLevel
  BY <1>1, NextType, ContextAssumption DEF TypeOK, Level
<1>3. PopState'
  BY <1>1, <1>2 DEF PopState, TypeOK
<1>4. \A l \in 0..level : l \in Level
  BY <1>2, ContextAssumption DEF Level
<1> QED  BY <1>1, <1>2, <1>3, <1>4 DEF TopLevel, Listed

\* A client step that changes o alone, and lists versions of o alone.
LEMMA OthersKept ==
  ASSUME Inv, Next, phase = "run", UNCHANGED <<level, dying, target, phase>>,
         \A l \in Level : l > level => chain'[l] = chain[l],
         NEW o \in Obj, NEW p \in Obj, p # o,
         saved'[p] = saved[p], scope'[p] = scope[p], storage'[p] = storage[p],
         \A l \in Level : \A i \in Nat \ {0} :
            <<p, i>> \in chain'[l] <=> <<p, i>> \in chain[l]
  PROVE  ObjInv(p)'
<1>1. /\ TypeOK /\ level \in Nat /\ TopLevel = level /\ TopLevel' = level /\ ObjInv(p)
      /\ \A l \in 0..level : l \in Level /\ Listed(l) = chain[l] /\ Listed(l)' = chain'[l]
  BY ClientStep
<1>2. ASSUME NEW i \in Nat \ {0}, NEW l \in 0..TopLevel
      PROVE  <<p, i>> \in Listed(l)' <=> <<p, i>> \in Listed(l)
  BY <1>1
<1> QED  BY <1>1, <1>2, OtherObject

\* A write preserves it, whether or not it saves a copy first.
LEMMA SetInv == ASSUME Inv, NEW o \in Obj, NEW v \in Val, Set(o, v) PROVE Inv'
<1>1. CASE UNCHANGED <<saved, scope, chain>>
  <2>1. /\ TypeOK /\ TypeOK' /\ PopState' /\ TopLevel' = TopLevel
        /\ \A p \in Obj : ObjInv(p)
        /\ \A l \in 0..TopLevel : Listed(l)' = Listed(l)
    BY <1>1, ClientStep DEF Set, Next
  <2>2. ASSUME NEW p \in Obj PROVE ObjInv(p)'
    BY <1>1, <2>1, OtherObject DEF Set
  <2> QED  BY <2>1, <2>2, InvByObject
<1>2. CASE scope[o] # level /\ Update(o)
  <2>1. /\ TypeOK /\ TypeOK' /\ PopState' /\ level \in Nat /\ level \in Level
        /\ TopLevel = level /\ TopLevel' = level
        /\ \A p \in Obj : ObjInv(p)
        /\ \A l \in 0..level :
             /\ Listed(l) = chain[l]
             /\ Listed(l)' = IF l = level THEN chain[l] \cup {<<o, Last(o) + 1>>} ELSE chain[l]
    <3>1. \A l \in Level : chain'[l] = IF l = level THEN chain[l] \cup {<<o, Last(o) + 1>>}
                                                    ELSE chain[l]
      <4>1. level \in Level /\ chain \in [Level -> SUBSET Version]
        BY DEF Inv, TypeOK
      <4>2. chain' = Linked(chain, level, <<o, Last(o) + 1>>)
        BY <1>2 DEF Update
      <4> QED  BY <4>1, <4>2 DEF Linked
    <3>2. \A l \in Level : l > level => chain'[l] = chain[l]
      <4>1. level \in Level
        BY DEF Inv, TypeOK
      <4>2. \A l \in Level : l > level => l # level
        BY <4>1, ContextAssumption DEF Level
      <4> QED  BY <3>1, <4>2
    <3> QED  BY <3>1, <3>2, ClientStep DEF Set, Next
  <2>2. ASSUME NEW p \in Obj, p # o PROVE ObjInv(p)'
    <3>1. saved'[p] = saved[p] /\ scope'[p] = scope[p] /\ storage'[p] = storage[p]
      BY <1>2, <2>1, <2>2 DEF Set, Update, TypeOK
    <3>2. ASSUME NEW i \in Nat \ {0}, NEW l \in 0..TopLevel
          PROVE  <<p, i>> \in Listed(l)' <=> <<p, i>> \in Listed(l)
      BY <2>1, <2>2
    <3> QED  BY <2>1, <3>1, <3>2, OtherObject
  <2>3. /\ Last(o) \in Nat \ {0} /\ Last(o)' = Last(o) + 1
        /\ Constructed(o) /\ Constructed(o)' /\ storage'[o] = storage[o]
        /\ \A i \in 1..Last(o) : ScopeOf(o, i)' = ScopeOf(o, i)
        /\ ScopeOf(o, Last(o))' = level
    BY <1>2, <2>1, VersionType, UpdateVersions DEF Set, Constructed
  <2>4. \A i \in 1..Last(o) : ScopeOf(o, i) < level /\ ScopeOf(o, i) \in Nat
    <3>1. scope[o] = ScopeOf(o, Last(o))
      BY DEF ScopeOf
    <3>2. \A i \in 1..Last(o) : ScopeOf(o, i) <= level /\ ScopeOf(o, i) \in Nat
      BY <2>1, <2>3, VersionType, ContextAssumption DEF ObjInv, Level
    <3>3. \A i \in 1..Last(o) : i < Last(o) => ScopeOf(o, i) < ScopeOf(o, Last(o))
      BY <2>1, <2>3 DEF ObjInv
    <3> QED  BY <1>2, <2>1, <2>3, <3>1, <3>2, <3>3
  <2>5. \A i \in 1..(Last(o) + 1) :
          ScopeOf(o, i)' = IF i = Last(o) + 1 THEN level ELSE ScopeOf(o, i)
    BY <2>3
  <2>6. ASSUME NEW i \in Nat \ {0}, NEW l \in 0..level
        PROVE  <<o, i>> \in Listed(l)' <=> i <= Last(o) + 1 /\ ScopeOf(o, i)' = l
    <3>1. <<o, i>> \in Listed(l) <=> i <= Last(o) /\ ScopeOf(o, i) = l
      BY <2>1, <2>3 DEF ObjInv
    <3>2. <<o, i>> \in Listed(l)' <=>
            <<o, i>> \in Listed(l) \/ (l = level /\ i = Last(o) + 1)
      BY <2>1
    <3> QED  BY <2>1, <2>3, <2>4, <2>5, <3>1, <3>2
  <2>7. ObjInv(o)'
    <3>1. storage'[o] = "heap" => ScopeOf(o, 1)' = 0
      <4>1. ScopeOf(o, 1)' = ScopeOf(o, 1)
        BY <2>3
      <4>2. storage[o] = "heap" => ScopeOf(o, 1) = 0
        BY <2>1 DEF ObjInv
      <4> QED  BY <2>3, <4>1, <4>2
    <3>2. \A i, j \in 1..(Last(o) + 1) : i < j => ScopeOf(o, i)' < ScopeOf(o, j)'
      <4>1. \A i, j \in 1..Last(o) : i < j => ScopeOf(o, i) < ScopeOf(o, j)
        BY <2>1, <2>3 DEF ObjInv
      <4> QED  BY <2>3, <2>4, <2>5, <4>1
    <3>3. \A i \in 1..(Last(o) + 1) : ScopeOf(o, i)' <= level
      BY <2>1, <2>3, <2>4, <2>5
    <3> QED  BY <2>1, <2>3, <2>6, <3>1, <3>2, <3>3 DEF ObjInv
  <2> QED  BY <2>1, <2>2, <2>7, InvByObject
<1> QED  BY <1>1, <1>2 DEF Set, MakeCurrent

\* A new object, on the heap or in context memory, preserves it.
LEMMA ConstructInv ==
  ASSUME Inv, NEW o \in Obj, NEW w \in {"heap", "cmm"}, Construct(o, w)
  PROVE  Inv'
<1> DEFINE k == IF w = "cmm" THEN level ELSE 0
<1>1. /\ level \in Level /\ k \in Level /\ level \in Nat /\ k \in 0..level
      /\ chain \in [Level -> SUBSET Version] /\ Next /\ k \in Nat
  BY LevelStep, ContextAssumption DEF Inv, TypeOK, Level, Next
<1>2. \A l \in Level : chain'[l] = IF l = k THEN chain[l] \cup {<<o, 1>>} ELSE chain[l]
  BY <1>1 DEF Construct, Linked
<1>3. \A l \in Level : l > level => chain'[l] = chain[l]
  <2>1. \A l \in Level : l > level => l # k
    BY <1>1, ContextAssumption DEF Level
  <2> QED  BY <1>2, <2>1
<1>3a. ASSUME NEW l \in Level, NEW p \in Obj, NEW i \in Nat \ {0}
      PROVE  <<p, i>> \in chain'[l] <=>
               <<p, i>> \in chain[l] \/ (p = o /\ i = 1 /\ l = k)
  <2>1. CASE l = k
    <3>1. chain'[l] = chain[l] \cup {<<o, 1>>}
      BY <1>2, <2>1
    <3> QED  BY <2>1, <3>1
  <2>2. CASE l # k
    BY <1>2, <2>2
  <2> QED  BY <2>1, <2>2
<1>4. /\ TypeOK /\ TypeOK' /\ PopState' /\ TopLevel' = level /\ TopLevel = level
      /\ \A p \in Obj : ObjInv(p)
      /\ \A l \in 0..level : /\ l \in Level
                             /\ Listed(l) = chain[l]
                             /\ Listed(l)' = chain'[l]
  BY <1>1, <1>3, ClientStep DEF Construct
<1>5. ASSUME NEW p \in Obj, p # o PROVE ObjInv(p)'
  <2>1. saved'[p] = saved[p] /\ scope'[p] = scope[p] /\ storage'[p] = storage[p]
    BY <1>4, <1>5 DEF Construct, TypeOK
  <2>2. \A l \in Level : \A i \in Nat \ {0} :
           <<p, i>> \in chain'[l] <=> <<p, i>> \in chain[l]
    BY <1>3a, <1>5
  <2> QED  BY <1>1, <1>3, <1>5, <2>1, <2>2, OthersKept DEF Construct
<1>6. ObjInv(o)'
  <2>1. /\ ~Constructed(o) /\ saved[o] = <<>> /\ saved' = saved /\ scope'[o] = k
        /\ storage'[o] = w /\ Constructed(o)'
    BY <1>4 DEF Construct, ObjInv, Constructed, TypeOK
  <2>2. Last(o)' = 1 /\ ScopeOf(o, 1)' = k
    BY <2>1 DEF Last, ScopeOf
  <2>3. ASSUME NEW i \in Nat \ {0}, NEW l \in 0..level
        PROVE  <<o, i>> \in Listed(l)' <=> i <= 1 /\ ScopeOf(o, i)' = l
    <3>1. <<o, i>> \notin chain[l] /\ l \in Level
      BY <1>4, <2>1 DEF ObjInv
    <3>2. <<o, i>> \in Listed(l)' <=> i = 1 /\ l = k
      BY <1>3a, <1>4, <3>1
    <3>3. i <= 1 <=> i = 1
      OBVIOUS
    <3> QED  BY <2>2, <3>2, <3>3
  <2>4. \A i \in 1..1 : ScopeOf(o, i)' <= level
    BY <1>1, <2>2
  <2> QED  BY <1>4, <2>1, <2>2, <2>3, <2>4 DEF ObjInv
<1> QED  BY <1>4, <1>5, <1>6, InvByObject

\* A new object with a value of its own preserves it.
LEMMA ConstructWithInv ==
  ASSUME Inv, NEW o \in Obj, NEW v \in Val, ConstructWith(o, v)
  PROVE  Inv'
<1> DEFINE copy == [data |-> Default, scope |-> 0]
<1>1. /\ level \in Level /\ 0 \in Level /\ level \in Nat
      /\ chain \in [Level -> SUBSET Version] /\ Next
  BY LevelStep, ContextAssumption DEF Inv, TypeOK, Level, Next
<1>2. \A l \in Level :
        chain'[l] = IF l = 0 THEN chain[l] \cup {<<o, 1>>}
                    ELSE IF l = level THEN chain[l] \cup {<<o, 2>>}
                    ELSE chain[l]
  <2>1. CASE level = 0
    BY <1>1, <2>1 DEF ConstructWith, Linked
  <2>2. CASE level # 0
    <3> DEFINE c == Linked(chain, 0, <<o, 1>>)
    <3>1. chain' = [c EXCEPT ![level] = c[level] \cup {<<o, 2>>}]
      BY <2>2 DEF ConstructWith, Linked
    <3>2. c = [chain EXCEPT ![0] = chain[0] \cup {<<o, 1>>}]
      BY DEF Linked
    <3> HIDE DEF c
    <3> QED  BY <1>1, <2>2, <3>1, <3>2
  <2> QED  BY <2>1, <2>2
<1>3. \A l \in Level : l > level => chain'[l] = chain[l]
  <2>1. \A l \in Level : l > level => l # level /\ l # 0
    BY <1>1, ContextAssumption DEF Level
  <2> QED  BY <1>2, <2>1
<1>3a. ASSUME NEW l \in Level, NEW p \in Obj, NEW i \in Nat \ {0}
      PROVE  <<p, i>> \in chain'[l] <=>
               \/ <<p, i>> \in chain[l]
               \/ p = o /\ i = 1 /\ l = 0
               \/ p = o /\ i = 2 /\ l = level /\ l # 0
  <2>1. CASE l = 0
    <3>1. chain'[l] = chain[l] \cup {<<o, 1>>}
      BY <1>2, <2>1
    <3> QED  BY <2>1, <3>1
  <2>2. CASE l # 0 /\ l = level
    <3>1. chain'[l] = chain[l] \cup {<<o, 2>>}
      BY <1>2, <2>2
    <3> QED  BY <2>2, <3>1
  <2>3. CASE l # 0 /\ l # level
    BY <1>2, <2>3
  <2> QED  BY <2>1, <2>2, <2>3
<1>4. /\ TypeOK /\ TypeOK' /\ PopState' /\ TopLevel' = level /\ TopLevel = level
      /\ \A p \in Obj : ObjInv(p)
      /\ \A l \in 0..level : /\ l \in Level
                             /\ Listed(l) = chain[l]
                             /\ Listed(l)' = chain'[l]
  BY <1>1, <1>3, ClientStep DEF ConstructWith
<1>5. ASSUME NEW p \in Obj, p # o PROVE ObjInv(p)'
  <2>1. saved'[p] = saved[p] /\ scope'[p] = scope[p] /\ storage'[p] = storage[p]
    BY <1>4, <1>5 DEF ConstructWith, TypeOK
  <2>2. \A l \in Level : \A i \in Nat \ {0} :
           <<p, i>> \in chain'[l] <=> <<p, i>> \in chain[l]
    BY <1>3a, <1>5
  <2> QED  BY <1>1, <1>3, <1>5, <2>1, <2>2, OthersKept DEF ConstructWith
<1>6. ObjInv(o)'
  <2>1. /\ ~Constructed(o) /\ saved[o] = <<>> /\ scope'[o] = level
        /\ storage'[o] = "heap" /\ Constructed(o)'
    BY <1>4 DEF ConstructWith, ObjInv, Constructed, TypeOK
  <2>2. \A l \in 0..level : \A i \in Nat \ {0} : <<o, i>> \notin chain[l]
    BY <1>4, <2>1 DEF ObjInv
  <2>3. CASE level = 0
    <3>1. Last(o)' = 1 /\ ScopeOf(o, 1)' = 0
      BY <2>1, <2>3 DEF ConstructWith, Last, ScopeOf
    <3>2. ASSUME NEW i \in Nat \ {0}, NEW l \in 0..level
          PROVE  <<o, i>> \in Listed(l)' <=> i <= 1 /\ ScopeOf(o, i)' = l
      <4>1. <<o, i>> \in Listed(l)' <=> i = 1 /\ l = 0
        BY <1>3a, <1>4, <2>2, <2>3
      <4>2. i <= 1 <=> i = 1
        OBVIOUS
      <4> QED  BY <3>1, <4>1, <4>2
    <3> QED  BY <1>4, <2>1, <2>3, <3>1, <3>2 DEF ObjInv
  <2>4. CASE level # 0
    <3>1. saved'[o] = <<copy>>
      BY <1>4, <2>4 DEF ConstructWith, TypeOK
    <3>2. Len(saved'[o]) = 1 /\ saved'[o][1].scope = 0
      BY <3>1
    <3>3. Last(o)' = 2 /\ ScopeOf(o, 1)' = 0 /\ ScopeOf(o, 2)' = level
      BY <2>1, <3>2 DEF Last, ScopeOf
    <3>4. ASSUME NEW i \in Nat \ {0}, NEW l \in 0..level
          PROVE  <<o, i>> \in Listed(l)' <=> i <= 2 /\ ScopeOf(o, i)' = l
      <4>1. <<o, i>> \notin chain[l] /\ Listed(l)' = chain'[l] /\ l \in Level
        BY <1>4, <2>2
      <4>2. <<o, i>> \in Listed(l)' <=> (l = 0 /\ i = 1) \/ (l = level /\ i = 2)
        BY <1>3a, <2>4, <4>1
      <4> QED  BY <1>1, <2>4, <3>3, <4>2
    <3>5. \A i \in 1..2 : ScopeOf(o, i)' <= level
      BY <1>1, <3>3
    <3>6. \A i, j \in 1..2 : i < j => ScopeOf(o, i)' < ScopeOf(o, j)'
      <4>1. \A i, j \in 1..2 : i < j => i = 1 /\ j = 2
        OBVIOUS
      <4> QED  BY <1>1, <2>4, <3>3, <4>1
    <3> QED  BY <1>4, <2>1, <3>3, <3>4, <3>5, <3>6 DEF ObjInv
  <2> QED  BY <2>3, <2>4
<1> QED  BY <1>4, <1>5, <1>6, InvByObject

\* Destroying an object with all its versions preserves it.
LEMMA DestroyInv == ASSUME Inv, NEW o \in Obj, Destroy(o) PROVE Inv'
<1>1. Next /\ level \in Nat /\ chain \in [Level -> SUBSET Version]
  BY ContextAssumption DEF Inv, TypeOK, Level, Next
<1>2. \A l \in Level : chain'[l] = chain[l] \ {<<o, i>> : i \in 1..Last(o)}
  BY DEF Destroy
<1>3. \A l \in Level : l > level => chain'[l] = chain[l]
  BY <1>2 DEF Inv, PopState
<1>4. /\ TypeOK /\ TypeOK' /\ PopState' /\ TopLevel' = level /\ TopLevel = level
      /\ \A p \in Obj : ObjInv(p)
      /\ \A l \in 0..level : /\ l \in Level
                             /\ Listed(l) = chain[l]
                             /\ Listed(l)' = chain'[l]
  BY <1>1, <1>3, ClientStep DEF Destroy
<1>5. ASSUME NEW p \in Obj, p # o PROVE ObjInv(p)'
  <2>1. saved'[p] = saved[p] /\ scope'[p] = scope[p] /\ storage'[p] = storage[p]
    BY <1>4, <1>5 DEF Destroy, TypeOK
  <2>2. \A l \in Level : \A i \in Nat \ {0} :
           <<p, i>> \in chain'[l] <=> <<p, i>> \in chain[l]
    BY <1>2, <1>5
  <2> QED  BY <1>1, <1>3, <1>5, <2>1, <2>2, OthersKept DEF Destroy
<1>6. ObjInv(o)'
  <2>1. ~Constructed(o)' /\ saved'[o] = <<>> /\ storage'[o] = "none"
    BY <1>4 DEF Destroy, Constructed, TypeOK
  <2>2. ASSUME NEW i \in Nat \ {0}, NEW l \in 0..level
        PROVE  <<o, i>> \notin Listed(l)'
    <3>1. <<o, i>> \in chain[l] => i \in 1..Last(o)
      BY <1>4, VersionType DEF ObjInv
    <3> QED  BY <1>2, <1>4, <3>1
  <2> QED  BY <1>4, <2>1, <2>2 DEF ObjInv
<1> QED  BY <1>4, <1>5, <1>6, InvByObject

\* Every step preserves the invariant.
LEMMA NextInv == Inv /\ [Next]_vars => Inv'
<1> SUFFICES ASSUME Inv, [Next]_vars PROVE Inv'
  OBVIOUS
<1>1. CASE UNCHANGED vars
  <2>1. TypeOK /\ TypeOK' /\ (\A p \in Obj : ObjInv(p))
    BY NextType, InvByObject
  <2>2. TopLevel' = TopLevel /\ \A l : Listed(l)' = Listed(l)
    BY <1>1 DEF vars, TopLevel, Listed
  <2>3. PopState'
    BY <1>1 DEF vars, PopState, Inv
  <2>4. ASSUME NEW p \in Obj PROVE ObjInv(p)'
    BY <1>1, <2>1, <2>2, OtherObject DEF vars
  <2> QED  BY <2>1, <2>3, <2>4, InvByObject
<1>2. CASE Next
  BY <1>2, PushInv, PopToInv, ScopeDeletedInv, RestoreInv, ConstructInv,
     ConstructWithInv, DestroyInv, SetInv DEF Next
<1> QED  BY <1>1, <1>2

\* The invariant implies the properties of the scope lists.
LEMMA InvImplies == Inv => ListsExact /\ OneVersionPerScope /\ NoDanglingScope
<1> SUFFICES ASSUME Inv PROVE ListsExact /\ NoDanglingScope
  BY DEF Inv
<1>1. level \in Nat /\ TypeOK
  BY ContextAssumption DEF Inv, TypeOK, Level
<1>2. NoDanglingScope
  <2> SUFFICES ASSUME phase = "run", NEW o \in Obj, Constructed(o)
               PROVE  scope[o] <= level
    BY DEF NoDanglingScope
  <2>1. scope[o] = ScopeOf(o, Last(o)) /\ Last(o) \in 1..Last(o)
    BY <1>1, VersionType DEF ScopeOf
  <2> QED  BY <2>1 DEF Inv, BelowTop, TopLevel
<1>3. \A l \in 0..TopLevel : \A v \in Listed(l) : v \in Version
  <2>1. \A l \in 0..TopLevel : l # level + 1 \/ phase # "restore" => l \in Level
    BY <1>1, ContextAssumption DEF TopLevel, TypeOK, Level
  <2> QED  BY <1>1, <2>1 DEF Listed, TypeOK
<1>4. ASSUME NEW l \in 0..TopLevel, NEW v \in Listed(l)
      PROVE  Constructed(v[1]) /\ v[2] \in 1..Last(v[1])
  <2>1. PICK o \in Obj, i \in Nat \ {0} : v = <<o, i>>
    BY <1>3 DEF Version
  <2>2. Constructed(o) /\ i <= Last(o) /\ Last(o) \in Nat
    BY <1>1, <2>1, VersionType DEF Inv, Exact
  <2> QED  BY <2>1, <2>2
<1>5. ASSUME NEW o \in Obj, Constructed(o), NEW i \in 1..Last(o), NEW l \in 0..TopLevel
      PROVE  <<o, i>> \in Listed(l) <=> ScopeOf(o, i) = l
  BY <1>1, <1>5, VersionType DEF Inv, Exact
<1> QED  BY <1>2, <1>4, <1>5 DEF ListsExact

\* Every version of every object is listed in exactly the scope it belongs to,
\* while scopes are pushed and deleted and objects come and go
\* (ContextObj::update, ::restoreAndContinue, ::destroy and ~Scope).
THEOREM ScopeListsCorrect == Spec => []ListsExact
<1>1. Inv => ListsExact
  BY InvImplies
<1> QED  BY <1>1, InitInv, NextInv, PTL DEF Spec

\* The versions of an object belong to ever newer scopes, and outside pop() no
\* object points to a deleted scope (ContextObj::makeCurrent and ::update).
THEOREM VersionsCorrect == Spec => []VersionsRight
<1>1. Inv => VersionsRight
  BY InvImplies DEF VersionsRight
<1> QED  BY <1>1, InitInv, NextInv, PTL DEF Spec

-----------------------------------------------------------------------------
(***************************************************************************)
(* Context implements Snapshots: every step of the scopes, lists and saved *)
(* copies is a step of the stack of snapshots, or none.                    *)
(***************************************************************************)

(* The newest of a set of versions. *)

\* The order of the naturals is well-founded: a non-empty set of naturals
\* has a least element, and one that is bounded has a greatest.
LEMMA NatMin ==
  ASSUME NEW T, T \subseteq Nat, T # {}
  PROVE  \E x \in T : \A y \in T : x <= y
<1> DEFINE R == {ss \in Nat \X Nat : ss[1] < ss[2]}
<1>1. IsWellFoundedOn(R, Nat)
  BY NatLessThanWellFounded, Zenon DEF OpToRel
<1>2. ASSUME NEW x \in Nat, NEW y \in Nat
      PROVE  <<y, x>> \in R <=> y < x
  OBVIOUS
<1> HIDE DEF R
<1>3. PICK x \in T : \A y \in T : ~ (<<y, x>> \in R)
  BY <1>1, WFMin, Zenon
<1>4. ASSUME NEW y \in T
      PROVE  x <= y
  <2>1. x \in Nat /\ y \in Nat /\ <<y, x>> \notin R
    BY <1>3
  <2> QED  BY <1>2, <2>1
<1> QED  BY <1>4

\* A non-empty bounded set of versions has a newest one.
LEMMA NewestIn ==
  ASSUME NEW n \in Nat, NEW T, T \subseteq 1..n, T # {}
  PROVE  Newest(T) \in T /\ \A y \in T : y <= Newest(T)
<1> DEFINE U == {d \in Nat : \E x \in T : x + d = n}
<1>1. \A x \in T : x \in Nat /\ n - x \in U
  OBVIOUS
<1>2. U \subseteq Nat /\ U # {}
  BY <1>1
<1> HIDE DEF U
<1>3. PICK u \in U : \A y \in U : u <= y
  BY <1>2, NatMin
<1>4. PICK x \in T : x + u = n
  BY DEF U
<1>5. ASSUME NEW y \in T
      PROVE  y <= x
  <2>1. u <= n - y /\ u \in Nat /\ x \in Nat /\ y \in Nat
    BY <1>1, <1>2, <1>3
  <2> QED  BY <1>4, <2>1
<1> QED  BY <1>5 DEF Newest

\* The newest of the first n versions is the n-th: the object itself, if n is Last.
LEMMA NewestOfAll ==
  ASSUME NEW n \in Nat \ {0}
  PROVE  Newest(1..n) = n
<1>1. n \in 1..n /\ n \in Nat
  OBVIOUS
<1>2. Newest(1..n) \in 1..n /\ \A y \in 1..n : y <= Newest(1..n)
  BY <1>1, NewestIn, Zenon
<1> QED  BY <1>1, <1>2

\* An object whose versions up to some level stay the same keeps its value
\* there.
LEMMA SameValue ==
  ASSUME TypeOK, NEW o \in Obj, NEW l, NEW m,
         Constructed(o)' = Constructed(o),
         Visible(o, m)' = Visible(o, l),
         \A i \in Visible(o, l) : DataOf(o, i)' = DataOf(o, i)
  PROVE  ValueAt(o, m)' = ValueAt(o, l)
<1>1. CASE Constructed(o) /\ Visible(o, l) # {}
  <2>1. Visible(o, l) \subseteq 1..Last(o) /\ Last(o) \in Nat
    BY VersionType DEF Visible
  <2>2. Newest(Visible(o, l)) \in Visible(o, l)
    BY <1>1, <2>1, NewestIn
  <2> QED  BY <1>1, <2>2 DEF ValueAt
<1>2. CASE ~(Constructed(o) /\ Visible(o, l) # {})
  BY <1>2 DEF ValueAt
<1> QED  BY <1>1, <1>2

\* Between pops the current value of an object is its data.
LEMMA CurrentValue ==
  ASSUME Inv, phase = "run", NEW o \in Obj, Constructed(o)
  PROVE  ValueAt(o, level) = data[o] /\ data[o] # Absent
<1>1. Last(o) \in Nat \ {0} /\ data[o] \in Val
  BY VersionType DEF Inv, TypeOK
<1>2. Visible(o, level) = 1..Last(o)
  BY NoneAbove DEF Visible, Inv, PopState
<1>3. Newest(Visible(o, level)) = Last(o) /\ Visible(o, level) # {}
  BY <1>1, <1>2, NewestOfAll
<1> QED  BY <1>1, <1>3, ContextAssumption DEF ValueAt, DataOf
-----------------------------------------------------------------------------
(* The steps. *)

\* The abstract state, seen one entry at a time.
LEMMA StateEntry ==
  /\ \A l \in Level : \A o \in Obj :
       absState[l][o] = IF l <= level THEN ValueAt(o, l) ELSE Absent
  /\ \A l \in Level : \A o \in Obj :
       absState'[l][o] = (IF l <= level THEN ValueAt(o, l) ELSE Absent)'
  BY DEF absState

\* The initial state maps to the initial state of the snapshots.
LEMMA InitRefines == Init => Abs!SInit
<1> SUFFICES ASSUME Init PROVE Abs!SInit
  OBVIOUS
<1>1. \A l : \A o \in Obj : ValueAt(o, l) = Absent
  BY DEF Init, ValueAt, Constructed
<1> QED  BY <1>1 DEF Init, Abs!SInit, Abs!Nothing, absState, Level

\* Context::push is a push of the snapshots.
LEMMA PushRefines == Inv /\ Push => Abs!Push
<1> SUFFICES ASSUME Inv, Push PROVE Abs!Push
  OBVIOUS
<1>1. /\ TypeOK /\ level \in Nat /\ level \in Level /\ level + 1 \in Level
      /\ level' = level + 1 /\ dying = {}
  BY LevelStep, ContextAssumption DEF Push, Inv, TypeOK, Level, PopState
<1>2. \A o \in Obj : /\ Last(o)' = Last(o) /\ Constructed(o)' = Constructed(o)
                     /\ \A i : ScopeOf(o, i)' = ScopeOf(o, i)
                     /\ \A i : DataOf(o, i)' = DataOf(o, i)
  BY DEF Push, Last, ScopeOf, DataOf, Constructed
<1>3. ASSUME NEW o \in Obj, NEW l \in Level
      PROVE  ValueAt(o, l)' = ValueAt(o, l)
  <2>1. Visible(o, l)' = Visible(o, l)
    BY <1>2 DEF Visible
  <2> QED  BY <1>1, <1>2, <2>1, SameValue
<1>4. ASSUME NEW o \in Obj
      PROVE  ValueAt(o, level + 1) = ValueAt(o, level)
  <2>1. CASE Constructed(o)
    <3>1. \A i \in 1..Last(o) : ScopeOf(o, i) <= level /\ ScopeOf(o, i) \in Nat
      BY <1>1, <2>1, NoneAbove, VersionType, ContextAssumption DEF Level
    <3>2. Visible(o, level + 1) = Visible(o, level)
      BY <1>1, <3>1 DEF Visible
    <3> QED  BY <3>2 DEF ValueAt
  <2>2. CASE ~Constructed(o)
    BY <2>2 DEF ValueAt
  <2> QED  BY <2>1, <2>2
<1>5. absState' = [absState EXCEPT ![level + 1] = absState[level]]
  <2>1. ASSUME NEW l \in Level
        PROVE  absState'[l] = IF l = level + 1 THEN absState[level] ELSE absState[l]
    <3>1. CASE l = level + 1
      BY <1>1, <1>3, <1>4, <3>1 DEF absState
    <3>2. CASE l # level + 1
      <4>1. l <= level + 1 <=> l <= level
        BY <1>1, <3>2, ContextAssumption DEF Level
      <4> QED  BY <1>1, <1>3, <3>2, <4>1 DEF absState
    <3> QED  BY <3>1, <3>2
  <2> QED  BY <1>1, <2>1 DEF absState
<1> QED  BY <1>1, <1>5 DEF Push, Abs!Push

\* Deleting a scope takes away the top snapshot; the values the older ones
\* hold are all there, in the copies that are about to be restored.
LEMMA DeleteTopScopeRefines ==
  ASSUME Inv, DeleteTopScope, UNCHANGED <<storage, data, scope, saved>>,
         NEW t \in Level, t < level
  PROVE  Abs!Pop
<1>1. TypeOK /\ level \in Nat /\ level \in Level /\ level' = level - 1 /\ level > 0
  BY LevelStep, ContextAssumption DEF DeleteTopScope, Inv, TypeOK, Level
<1>2. \A o \in Obj : /\ Last(o)' = Last(o) /\ Constructed(o)' = Constructed(o)
                     /\ \A i : ScopeOf(o, i)' = ScopeOf(o, i)
                     /\ \A i : DataOf(o, i)' = DataOf(o, i)
  BY DEF Last, ScopeOf, DataOf, Constructed
<1>3. ASSUME NEW o \in Obj, NEW l \in Level
      PROVE  ValueAt(o, l)' = ValueAt(o, l)
  <2>1. Visible(o, l)' = Visible(o, l)
    BY <1>2 DEF Visible
  <2> QED  BY <1>1, <1>2, <2>1, SameValue
<1>4. ASSUME NEW l \in Level
      PROVE  absState'[l] = IF l <= level - 1 THEN absState[l] ELSE [o \in Obj |-> Absent]
  <2>1. l <= level - 1 => l <= level
    BY <1>1, ContextAssumption DEF Level
  <2> QED  BY <1>1, <1>3, <2>1 DEF absState
<1>5. absState' = [l \in Level |-> IF l <= level - 1 THEN absState[l]
                                   ELSE [o \in Obj |-> Absent]]
  BY <1>4 DEF absState
<1> QED  BY <1>1, <1>5 DEF Abs!Pop, Abs!Cut, Abs!Nothing, Level

\* Restoring an object changes no snapshot: the version it removes belongs to
\* the scope above the current level.
LEMMA RestoreRefines ==
  ASSUME Inv, NEW o \in Obj, Restore(o)
  PROVE  UNCHANGED <<level, absState>>
<1>1. /\ TypeOK /\ level \in Nat /\ level \in Level /\ level' = level /\ ObjInv(o)
      /\ TopLevel = level + 1 /\ Listed(level + 1) = dying /\ Last(o) \in Nat \ {0}
  BY InvByObject, VersionType, ContextAssumption
  DEF Restore, Inv, TypeOK, Level, TopLevel, Listed
<1>2. Constructed(o) /\ ScopeOf(o, Last(o)) = level + 1
  BY <1>1 DEF Restore, ObjInv
<1>3. ASSUME NEW p \in Obj, NEW l \in Level, l <= level
      PROVE  ValueAt(p, l)' = ValueAt(p, l)
  <2>1. CASE p # o
    <3>1. /\ saved'[p] = saved[p] /\ scope'[p] = scope[p] /\ storage'[p] = storage[p]
          /\ data'[p] = data[p]
      BY <1>1, <2>1 DEF Restore, RestoreCopy, RestoreNull, TypeOK
    <3>2. /\ Last(p)' = Last(p) /\ Constructed(p)' = Constructed(p)
          /\ \A i : ScopeOf(p, i)' = ScopeOf(p, i)
          /\ \A i : DataOf(p, i)' = DataOf(p, i)
      BY <3>1 DEF Last, ScopeOf, DataOf, Constructed
    <3>3. Visible(p, l)' = Visible(p, l)
      BY <3>2 DEF Visible
    <3> QED  BY <1>1, <3>2, <3>3, SameValue
  <2>2. CASE p = o /\ RestoreCopy(o)
    <3>1. /\ Last(o) > 1 /\ Last(o)' = Last(o) - 1 /\ Constructed(o)'
          /\ \A i \in 1..(Last(o) - 1) : ScopeOf(o, i)' = ScopeOf(o, i)
          /\ \A i \in 1..(Last(o) - 1) : DataOf(o, i)' = DataOf(o, i)
      BY <1>1, <1>2, <2>2, RestoreVersions DEF RestoreCopy, Constructed
    <3>2. ~(level + 1 <= l)
      BY <1>1, <1>3, ContextAssumption DEF Level
    <3>3. Visible(o, l) = {i \in 1..(Last(o) - 1) : ScopeOf(o, i) <= l}
      BY <1>1, <1>2, <3>2 DEF Visible
    <3>4. Visible(o, l)' = {i \in 1..(Last(o) - 1) : ScopeOf(o, i) <= l}
      BY <3>1 DEF Visible
    <3>5. \A i \in Visible(o, l) : DataOf(o, i)' = DataOf(o, i)
      BY <3>1, <3>3
    <3> QED  BY <1>1, <1>2, <2>2, <3>1, <3>3, <3>4, <3>5, SameValue
  <2>3. CASE p = o /\ RestoreNull(o)
    <3>1. Last(o) = 1 /\ ~Constructed(o)'
      BY <1>1, <2>3 DEF RestoreNull, Last, Constructed, TypeOK
    <3>2. Visible(o, l) = {}
      BY <1>1, <1>2, <1>3, <3>1, ContextAssumption DEF Visible, Level
    <3> QED  BY <2>3, <3>1, <3>2 DEF ValueAt
  <2> QED  BY <2>1, <2>2, <2>3 DEF Restore
<1> QED  BY <1>1, <1>3 DEF absState

\* A client step leaves the values of the objects it does not touch.
LEMMA OtherValues ==
  ASSUME TypeOK, NEW p \in Obj, NEW l,
         saved'[p] = saved[p], scope'[p] = scope[p], storage'[p] = storage[p],
         data'[p] = data[p]
  PROVE  ValueAt(p, l)' = ValueAt(p, l)
<1>1. /\ Last(p)' = Last(p) /\ Constructed(p)' = Constructed(p)
      /\ \A i : ScopeOf(p, i)' = ScopeOf(p, i)
      /\ \A i : DataOf(p, i)' = DataOf(p, i)
  BY DEF Last, ScopeOf, DataOf, Constructed
<1>2. Visible(p, l)' = Visible(p, l)
  BY <1>1 DEF Visible
<1> QED  BY <1>1, <1>2, SameValue

\* A step that gives o the value v at the current level, and changes no other
\* entry, is a write.
LEMMA WriteEntry ==
  ASSUME Inv, phase = "run", level' = level, NEW o \in Obj, NEW v \in Val,
         Constructed(o),
         \A p \in Obj : p # o => \A l \in Level : ValueAt(p, l)' = ValueAt(p, l),
         ValueAt(o, level)' = v,
         \A l \in Level : l < level => ValueAt(o, l)' = ValueAt(o, l)
  PROVE  Abs!Write(o, v)
<1>1. level \in Level /\ level \in Nat
  BY ContextAssumption DEF Inv, TypeOK, Level
<1>2. absState[level][o] # Absent
  BY <1>1, CurrentValue, StateEntry
<1> DEFINE row == [absState[level] EXCEPT ![o] = v]
<1>3. ASSUME NEW l \in Level
      PROVE  absState'[l] = IF l = level THEN row ELSE absState[l]
  <2>1. CASE l = level
    <3>1. \A p \in Obj : absState'[l][p] = IF p = o THEN v ELSE absState[l][p]
      BY <1>1, <2>1, StateEntry
    <3> QED  BY <2>1, <3>1 DEF absState
  <2>2. CASE l # level
    <3>1. l <= level => l < level
      BY <1>1, <2>2, ContextAssumption DEF Level
    <3>2. \A p \in Obj : absState'[l][p] = absState[l][p]
      BY <2>2, <3>1, StateEntry
    <3> QED  BY <2>2, <3>2 DEF absState
  <2> QED  BY <2>1, <2>2
<1> HIDE DEF row
<1>4. absState' = [absState EXCEPT ![level] = row]
  BY <1>1, <1>3 DEF absState
<1> QED  BY <1>2, <1>4 DEF Abs!Write, row

\* An object all of whose n versions are visible has the value of the last.
LEMMA ValueOfLast ==
  ASSUME NEW o \in Obj, NEW l, NEW n \in Nat \ {0},
         Constructed(o)', Last(o)' = n, Visible(o, l)' = 1..n
  PROVE  ValueAt(o, l)' = data'[o]
<1>1. Newest(1..n) = n /\ n \in 1..n
  BY NewestOfAll
<1> QED  BY <1>1 DEF ValueAt, DataOf

\* CDO::set is a write to the live state: the values seen from lower levels
\* are kept in the copy that update() saves.
LEMMA SetRefines ==
  ASSUME Inv, NEW o \in Obj, NEW v \in Val, Set(o, v)
  PROVE  Abs!Write(o, v)
<1>1. /\ TypeOK /\ level \in Nat /\ level \in Level /\ level' = level
      /\ Constructed(o) /\ Constructed(o)' /\ dying = {} /\ phase = "run"
      /\ Last(o) \in Nat \ {0} /\ data'[o] = v
  BY VersionType, ContextAssumption DEF Set, Inv, TypeOK, Level, PopState, Constructed
<1>2. ASSUME NEW p \in Obj, p # o, NEW l
      PROVE  ValueAt(p, l)' = ValueAt(p, l)
  BY <1>1, <1>2, OtherValues DEF Set, MakeCurrent, Update, TypeOK
<1>3. /\ \A i \in 1..Last(o) : ScopeOf(o, i) <= level /\ ScopeOf(o, i) \in Nat
      /\ \A i, j \in 1..Last(o) : i < j => ScopeOf(o, i) < ScopeOf(o, j)
  BY <1>1, NoneAbove, VersionType, ContextAssumption DEF Inv, OneVersionPerScope, Level
<1>4. CASE scope[o] = level /\ UNCHANGED <<saved, scope, chain>>
  <2>1. Last(o)' = Last(o) /\ \A i : ScopeOf(o, i)' = ScopeOf(o, i)
    BY <1>4 DEF Last, ScopeOf
  <2>2. \A l : Visible(o, l)' = Visible(o, l)
    BY <2>1 DEF Visible
  <2>3. ValueAt(o, level)' = v
    <3>1. Visible(o, level) = 1..Last(o)
      BY <1>3 DEF Visible
    <3>2. \A l : l = level => ValueAt(o, l)' = data'[o]
      BY <1>1, <2>1, <2>2, <3>1, ValueOfLast
    <3> QED  BY <1>1, <3>2
  <2>4. ASSUME NEW l \in Level, l < level
        PROVE  ValueAt(o, l)' = ValueAt(o, l)
    <3>1. \A i \in Visible(o, l) : i # Last(o)
      BY <1>1, <1>4, <2>4, ContextAssumption DEF Visible, ScopeOf, Level
    <3>2. \A i \in Visible(o, l) : DataOf(o, i)' = DataOf(o, i)
      BY <1>4, <2>1, <3>1 DEF DataOf
    <3> QED  BY <1>1, <2>2, <3>2, SameValue
  <2> QED  BY <1>1, <1>2, <2>3, <2>4, WriteEntry
<1>5. CASE scope[o] # level /\ Update(o)
  <2>1. /\ Last(o)' = Last(o) + 1
        /\ \A i \in 1..Last(o) : ScopeOf(o, i)' = ScopeOf(o, i) /\ DataOf(o, i)' = DataOf(o, i)
        /\ ScopeOf(o, Last(o))' = level
    BY <1>1, <1>5, UpdateVersions
  <2>2. \A i \in 1..(Last(o) + 1) :
          ScopeOf(o, i)' = IF i = Last(o) + 1 THEN level ELSE ScopeOf(o, i)
    BY <1>1, <2>1
  <2>3. ValueAt(o, level)' = v
    <3>1. \A l : l = level => Visible(o, l)' = 1..(Last(o) + 1)
      BY <1>1, <1>3, <2>1, <2>2 DEF Visible
    <3>2. \A l : l = level => ValueAt(o, l)' = data'[o]
      BY <1>1, <2>1, <3>1, ValueOfLast
    <3> QED  BY <1>1, <3>2
  <2>4. ASSUME NEW l \in Level, l < level
        PROVE  ValueAt(o, l)' = ValueAt(o, l)
    <3>1. ~(level <= l)
      BY <1>1, <2>4, ContextAssumption DEF Level
    <3>2. Visible(o, l)' = Visible(o, l)
      BY <1>1, <2>1, <2>2, <3>1 DEF Visible
    <3>3. \A i \in Visible(o, l) : DataOf(o, i)' = DataOf(o, i)
      BY <2>1 DEF Visible
    <3> QED  BY <1>1, <3>2, <3>3, SameValue
  <2> QED  BY <1>1, <1>2, <2>3, <2>4, WriteEntry
<1> QED  BY <1>4, <1>5 DEF Set, MakeCurrent

\* A step that gives a new object v at the current level and `past' below it,
\* and changes no other entry, is a creation.
LEMMA CreateEntry ==
  ASSUME Inv, level' = level, NEW o \in Obj, NEW past, NEW v \in Val,
         ~Constructed(o),
         \A p \in Obj : p # o => \A l \in Level : ValueAt(p, l)' = ValueAt(p, l),
         ValueAt(o, level)' = v,
         \A l \in Level : l < level => ValueAt(o, l)' = past
  PROVE  Abs!Create(o, past, v)
<1>1. level \in Level /\ level \in Nat
  BY ContextAssumption DEF Inv, TypeOK, Level
<1>2. \A l \in Level : absState[l][o] = Absent
  BY StateEntry DEF ValueAt
<1>3. \A l \in 0..level : l \in Level
  BY <1>1, ContextAssumption DEF Level
<1> DEFINE row(l) == IF l < level THEN [absState[l] EXCEPT ![o] = past]
                     ELSE IF l = level THEN [absState[l] EXCEPT ![o] = v]
                     ELSE absState[l]
<1>4. ASSUME NEW l \in Level
      PROVE  absState'[l] = row(l)
  <2>0. l \in Nat
    BY ContextAssumption DEF Level
  <2>1. CASE l < level
    <3>1. l <= level /\ l <= level'
      BY <1>1, <2>0, <2>1
    <3>2. \A p \in Obj : absState'[l][p] = IF p = o THEN past ELSE absState[l][p]
      BY <2>1, <3>1, StateEntry
    <3> QED  BY <2>1, <3>2 DEF absState
  <2>2. CASE l = level
    <3>1. \A p \in Obj : absState'[l][p] = IF p = o THEN v ELSE absState[l][p]
      BY <1>1, <2>2, StateEntry
    <3>2. ~(l < level)
      BY <1>1, <2>2
    <3> QED  BY <2>2, <3>1, <3>2 DEF absState
  <2>3. CASE ~(l < level) /\ l # level
    <3>1. ~(l <= level) /\ ~(l <= level')
      BY <1>1, <2>0, <2>3
    <3> QED  BY <2>3, <3>1 DEF absState
  <2> QED  BY <2>1, <2>2, <2>3
<1> HIDE DEF row
<1>5. absState' = [l \in Level |-> row(l)]
  BY <1>4 DEF absState
<1> QED  BY <1>2, <1>3, <1>5 DEF Abs!Create, row, Level

\* An object with one version, of the scope k, has its value from k upwards.
LEMMA ValueOfOnly ==
  ASSUME NEW o \in Obj, NEW l \in Nat, NEW k \in Nat,
         Constructed(o)', Last(o)' = 1, ScopeOf(o, 1)' = k
  PROVE  ValueAt(o, l)' = IF k <= l THEN data'[o] ELSE Absent
<1>1. CASE k <= l
  <2>1. Visible(o, l)' = 1..1
    BY <1>1 DEF Visible
  <2>2. 1 \in Nat \ {0}
    OBVIOUS
  <2>3. ValueAt(o, l)' = data'[o]
    BY <2>1, <2>2, ValueOfLast, Zenon
  <2> QED  BY <1>1, <2>3
<1>2. CASE ~(k <= l)
  <2>1. Visible(o, l)' = {}
    BY <1>2 DEF Visible
  <2> QED  BY <1>2, <2>1 DEF ValueAt
<1> QED  BY <1>1, <1>2

\* The constructors create: an ordinary object reads T() in the older scopes,
\* one in context memory is not there in them.
LEMMA ConstructRefines ==
  ASSUME Inv, NEW o \in Obj, NEW w \in {"heap", "cmm"}, Construct(o, w)
  PROVE  \E past \in {Default, Absent} : Abs!Create(o, past, Default)
<1> DEFINE k == IF w = "cmm" THEN level ELSE 0
           past == IF w = "cmm" THEN Absent ELSE Default
<1>1. /\ TypeOK /\ level \in Nat /\ level \in Level /\ level' = level
      /\ ~Constructed(o) /\ Constructed(o)' /\ data'[o] = Default /\ Default \in Val
      /\ k \in Nat /\ k <= level /\ scope'[o] = k /\ saved'[o] = <<>>
  BY InvByObject, ContextAssumption DEF Construct, Inv, TypeOK, Level, Constructed, ObjInv
<1>2. Last(o)' = 1 /\ ScopeOf(o, 1)' = k
  BY <1>1 DEF Last, ScopeOf
<1>3. ASSUME NEW p \in Obj, p # o, NEW l \in Level
      PROVE  ValueAt(p, l)' = ValueAt(p, l)
  BY <1>1, <1>3, OtherValues DEF Construct, TypeOK
<1>4. \A l \in Nat : ValueAt(o, l)' = IF k <= l THEN Default ELSE Absent
  BY <1>1, <1>2, ValueOfOnly
<1>5. ValueAt(o, level)' = Default
  BY <1>1, <1>4
<1>6. ASSUME NEW l \in Level, l < level
      PROVE  ValueAt(o, l)' = past
  <2>1. l \in Nat
    BY ContextAssumption DEF Level
  <2> QED  BY <1>1, <1>4, <1>6, <2>1
<1> HIDE DEF past, k
<1>7. Abs!Create(o, past, Default)
  BY <1>1, <1>3, <1>5, <1>6, CreateEntry
<1> QED  BY <1>7 DEF past

\* Constructing an object with a value creates it with T() in the older
\* snapshots.
LEMMA ConstructWithRefines ==
  ASSUME Inv, NEW o \in Obj, NEW v \in Val, ConstructWith(o, v)
  PROVE  Abs!Create(o, Default, v)
<1> DEFINE copy == [data |-> Default, scope |-> 0]
<1>1. /\ TypeOK /\ level \in Nat /\ level \in Level /\ level' = level
      /\ ~Constructed(o) /\ Constructed(o)' /\ data'[o] = v
      /\ scope'[o] = level /\ saved[o] = <<>>
  BY InvByObject, ContextAssumption DEF ConstructWith, Inv, TypeOK, Level, Constructed, ObjInv
<1>2. ASSUME NEW p \in Obj, p # o, NEW l \in Level
      PROVE  ValueAt(p, l)' = ValueAt(p, l)
  BY <1>1, <1>2, OtherValues DEF ConstructWith, TypeOK
<1>3. CASE level = 0
  <2>1. Last(o)' = 1 /\ ScopeOf(o, 1)' = 0
    BY <1>1, <1>3 DEF ConstructWith, Last, ScopeOf
  <2>2. ValueAt(o, level)' = v
    BY <1>1, <1>3, <2>1, ValueOfOnly
  <2>3. \A l \in Level : ~(l < level)
    BY <1>3, ContextAssumption DEF Level
  <2> QED  BY <1>1, <1>2, <2>2, <2>3, CreateEntry
<1>4. CASE level # 0
  <2>1. saved'[o] = <<copy>>
    BY <1>1, <1>4 DEF ConstructWith, TypeOK
  <2>2. Len(saved'[o]) = 1 /\ saved'[o][1].scope = 0 /\ saved'[o][1].data = Default
    BY <2>1
  <2>3. /\ Last(o)' = 2 /\ ScopeOf(o, 1)' = 0 /\ ScopeOf(o, 2)' = level
        /\ DataOf(o, 1)' = Default
    BY <1>1, <2>2 DEF Last, ScopeOf, DataOf
  <2>4. \A i \in 1..2 : i = 1 \/ i = 2
    OBVIOUS
  <2>5. ValueAt(o, level)' = v
    <3>1. \A l : l = level => Visible(o, l)' = 1..2
      BY <1>1, <2>3, <2>4 DEF Visible
    <3>2. 2 \in Nat \ {0}
      OBVIOUS
    <3>3. \A l : l = level => ValueAt(o, l)' = data'[o]
      BY <1>1, <2>3, <3>1, <3>2, ValueOfLast, Zenon
    <3> QED  BY <1>1, <3>3
  <2>6. ASSUME NEW l \in Level, l < level
        PROVE  ValueAt(o, l)' = Default
    <3>1. l \in Nat /\ ~(level <= l) /\ 0 <= l
      BY <1>1, <2>6, ContextAssumption DEF Level
    <3>2. Visible(o, l)' = 1..1
      BY <2>3, <2>4, <3>1 DEF Visible
    <3>3. Newest(1..1) = 1 /\ 1 \in 1..1
      <4>1. 1 \in Nat \ {0}
        OBVIOUS
      <4>2. Newest(1..1) = 1
        BY <4>1, NewestOfAll, Zenon
      <4> QED  BY <4>2
    <3> QED  BY <1>1, <2>3, <3>2, <3>3 DEF ValueAt
  <2> QED  BY <1>1, <1>2, <2>5, <2>6, CreateEntry
<1> QED  BY <1>3, <1>4

\* ~CDO deletes the object from all snapshots.
LEMMA DestroyRefines == ASSUME Inv, NEW o \in Obj, Destroy(o) PROVE Abs!Delete(o)
<1>1. /\ TypeOK /\ level \in Level /\ level \in Nat /\ level' = level
      /\ Constructed(o) /\ ~Constructed(o)' /\ phase = "run"
  BY ContextAssumption DEF Destroy, Inv, TypeOK, Level, Constructed
<1>2. ASSUME NEW p \in Obj, p # o, NEW l \in Level
      PROVE  ValueAt(p, l)' = ValueAt(p, l)
  BY <1>1, <1>2, OtherValues DEF Destroy, TypeOK
<1>3. \A l : ValueAt(o, l)' = Absent
  BY <1>1 DEF ValueAt
<1>4. absState[level][o] # Absent
  BY <1>1, CurrentValue, StateEntry
<1>5. ASSUME NEW l \in Level
      PROVE  absState'[l] = [absState[l] EXCEPT ![o] = Absent]
  <2>1. \A p \in Obj : absState'[l][p] = IF p = o THEN Absent ELSE absState[l][p]
    BY <1>1, <1>2, <1>3, StateEntry
  <2> QED  BY <2>1 DEF absState
<1>6. absState' = [l \in Level |-> [absState[l] EXCEPT ![o] = Absent]]
  BY <1>5 DEF absState
<1> QED  BY <1>1, <1>4, <1>6 DEF Abs!Delete, Level
-----------------------------------------------------------------------------
\* Every step is a step of the snapshots or changes nothing there.
LEMMA NextRefines == Inv /\ [Next]_vars => [Abs!SNext]_(Abs!svars)
<1> SUFFICES ASSUME Inv, [Next]_vars PROVE Abs!SNext \/ UNCHANGED <<level, absState>>
  BY DEF Abs!svars
<1>1. CASE Push
  BY <1>1, PushRefines DEF Abs!SNext
<1>2. ASSUME NEW t \in Level, PopTo(t) PROVE Abs!SNext
  BY <1>2, DeleteTopScopeRefines DEF PopTo, Abs!SNext
<1>3. CASE ScopeDeleted
  <2>1. CASE target < level /\ DeleteTopScope
    <3>1. target \in Level
      BY DEF Inv, TypeOK
    <3> QED  BY <1>3, <2>1, <3>1, DeleteTopScopeRefines DEF ScopeDeleted, Abs!SNext
  <2>2. CASE UNCHANGED <<level, chain, dying>>
    <3>1. UNCHANGED <<level, storage, data, scope, saved>>
      BY <1>3, <2>2 DEF ScopeDeleted
    <3> QED  BY <3>1 DEF absState, ValueAt, Visible, DataOf, ScopeOf, Last, Constructed
  <2> QED  BY <1>3, <2>1, <2>2 DEF ScopeDeleted
<1>4. ASSUME NEW o \in Obj, Restore(o) PROVE UNCHANGED <<level, absState>>
  BY <1>4, RestoreRefines
<1>5. ASSUME NEW o \in Obj, NEW w \in {"heap", "cmm"}, Construct(o, w) PROVE Abs!SNext
  BY <1>5, ConstructRefines, ContextAssumption DEF Abs!SNext
<1>6. ASSUME NEW o \in Obj, Destroy(o) PROVE Abs!SNext
  BY <1>6, DestroyRefines DEF Abs!SNext
<1>7. ASSUME NEW o \in Obj, NEW v \in Val, Set(o, v) PROVE Abs!SNext
  BY <1>7, SetRefines DEF Abs!SNext
<1>8. ASSUME NEW o \in Obj, NEW v \in Val, ConstructWith(o, v) PROVE Abs!SNext
  BY <1>8, ConstructWithRefines DEF Abs!SNext
<1>9. CASE UNCHANGED vars
  BY <1>9 DEF vars, absState, ValueAt, Visible, DataOf, ScopeOf, Last, Constructed
<1> QED  BY <1>1, <1>2, <1>3, <1>4, <1>5, <1>6, <1>7, <1>8, <1>9 DEF Next

\* Context, Scope and CDO implement the stack of snapshots: whatever is
\* constructed, written, destroyed, pushed and popped, a pop gives every object
\* back the value it had at the matching push (Context::push, ::pop, ::popto).
THEOREM ContextImplementsSnapshots == Spec => ImplementsSnapshots
<1>1. Spec => []Inv
  BY InitInv, NextInv, PTL DEF Spec
<1>2. Init => Abs!SInit
  BY InitRefines
<1>3. Inv /\ [Next]_vars => [Abs!SNext]_(Abs!svars)
  BY NextRefines
<1> QED  BY <1>1, <1>2, <1>3, PTL DEF Spec, ImplementsSnapshots, Abs!SSpec
=============================================================================
