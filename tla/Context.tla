------------------------------- MODULE Context -------------------------------
(***************************************************************************)
(* The backtracking machinery of CVC4: Context, Scope and ContextObj       *)
(* (src/context/context.{h,cpp}) with CDO<T> (src/context/cdo.h) as the    *)
(* context-dependent object.                                               *)
(*                                                                         *)
(* An object carries its data and the level of the scope in which it was   *)
(* last modified (d_pScope).  The first modification in a newer scope      *)
(* saves a copy: saved[o] is the chain of d_pContextObjRestore pointers,   *)
(* oldest copy first.  Every scope lists the versions that were current    *)
(* while it was the top scope; here the version of o number i is the pair  *)
(* <<o, i>> and the list is a set, because the copies take the place of    *)
(* their object in the list and the order of the list does not matter to   *)
(* CDO::restore.  ContextObjList refines the sets to the linked lists.     *)
(*                                                                         *)
(* Deleting a scope restores the listed objects one after the other; each  *)
(* iteration of that loop is an action, during which clients do not run.   *)
(***************************************************************************)
EXTENDS Naturals, Sequences

CONSTANTS Obj, Val, Default, Absent, MaxLevel

ASSUME ContextAssumption ==
  /\ Default \in Val
  /\ Absent \notin Val
  /\ MaxLevel \in Nat

VARIABLES
  level,     \* Context::getLevel(), that is d_scopeList.size() - 1
  storage,   \* where object o lives: "none" (not constructed), "heap", "cmm"
  data,      \* CDO::d_data
  scope,     \* level of d_pScope
  saved,     \* the copies reached through d_pContextObjRestore, oldest first
  chain,     \* chain[l]: versions on the d_pContextObjList of the scope l
  dying,     \* what is left of the list of the scope being deleted
  target,    \* the argument of popto
  phase      \* "run" or, inside pop(), "restore"

vars == <<level, storage, data, scope, saved, chain, dying, target, phase>>

Level   == 0..MaxLevel
Version == Obj \X (Nat \ {0})
Copy    == [data : Val, scope : Level]

Constructed(o) == storage[o] # "none"

\* Number of versions of o: the saved copies and the object itself.
Last(o) == Len(saved[o]) + 1

ScopeOf(o, i) == IF i = Last(o) THEN scope[o] ELSE saved[o][i].scope
DataOf(o, i)  == IF i = Last(o) THEN data[o]  ELSE saved[o][i].data

Init ==
  /\ level = 0
  /\ storage = [o \in Obj |-> "none"]
  /\ data = [o \in Obj |-> Default]
  /\ scope = [o \in Obj |-> 0]
  /\ saved = [o \in Obj |-> <<>>]
  /\ chain = [l \in Level |-> {}]
  /\ dying = {}
  /\ target = 0
  /\ phase = "run"
-----------------------------------------------------------------------------
(* Operations of Context and ContextObj. *)

\* Context::push
Push ==
  /\ phase = "run"
  /\ level < MaxLevel
  /\ level' = level + 1
  /\ UNCHANGED <<storage, data, scope, saved, chain, dying, target, phase>>

\* d_scopeList.pop_back() of Context::pop; ~Scope of the old top begins.
DeleteTopScope ==
  /\ level' = level - 1
  /\ dying' = chain[level]
  /\ chain' = [chain EXCEPT ![level] = {}]

\* Faulty variant of PopTo: pop() without "Cannot pop below level 0".
PopToUnchecked(t) ==
  /\ phase = "run"
  /\ t <= level
  /\ target' = t
  /\ phase' = "restore"
  /\ DeleteTopScope
  /\ UNCHANGED <<storage, data, scope, saved>>

\* Context::pop (t = level - 1) and Context::popto
PopTo(t) ==
  /\ phase = "run"
  /\ t < level
  /\ target' = t
  /\ phase' = "restore"
  /\ DeleteTopScope
  /\ UNCHANGED <<storage, data, scope, saved>>

\* ContextObj::restoreAndContinue on an object that has a saved copy
RestoreCopy(o) ==
  LET n == Len(saved[o]) IN
  /\ n > 0
  /\ data' = [data EXCEPT ![o] = saved[o][n].data]
  /\ scope' = [scope EXCEPT ![o] = saved[o][n].scope]
  /\ saved' = [saved EXCEPT ![o] = SubSeq(saved[o], 1, n - 1)]
  /\ UNCHANGED storage

\* ... and on one that has none: an object of the context memory about to be
\* released, which ceases to exist.
RestoreNull(o) ==
  /\ saved[o] = <<>>
  /\ storage' = [storage EXCEPT ![o] = "none"]
  /\ data' = [data EXCEPT ![o] = Default]
  /\ scope' = [scope EXCEPT ![o] = 0]
  /\ UNCHANGED saved

\* Faulty variant of Restore: restoreAndContinue returns `this', not the next
\* object, where there is no saved copy.
RestoreStuck(o) ==
  /\ phase = "restore"
  /\ <<o, Last(o)>> \in dying
  /\ \/ /\ dying' = dying \ {<<o, Last(o)>>}
        /\ RestoreCopy(o)
     \/ /\ saved[o] = <<>>
        /\ UNCHANGED <<storage, data, scope, saved, dying>>
  /\ UNCHANGED <<level, chain, target, phase>>

\* One iteration of the loop of ~Scope.
Restore(o) ==
  /\ phase = "restore"
  /\ <<o, Last(o)>> \in dying
  /\ dying' = dying \ {<<o, Last(o)>>}
  /\ RestoreCopy(o) \/ RestoreNull(o)
  /\ UNCHANGED <<level, chain, target, phase>>

\* The list is empty: pop() returns, and popto() goes on to the next scope.
ScopeDeleted ==
  /\ phase = "restore"
  /\ dying = {}
  /\ \/ /\ target < level
        /\ DeleteTopScope
        /\ UNCHANGED phase
     \/ /\ target >= level
        /\ phase' = "run"
        /\ UNCHANGED <<level, chain, dying>>
  /\ UNCHANGED <<storage, data, scope, saved, target>>

\* Scope::addToChain on the scope l
Linked(ch, l, version) == [ch EXCEPT ![l] = ch[l] \cup {version}]

\* ContextObj::update: save a copy and move o to the list of the top scope.
Update(o) ==
  /\ saved' = [saved EXCEPT ![o] =
                 Append(saved[o], [data |-> data[o], scope |-> scope[o]])]
  /\ scope' = [scope EXCEPT ![o] = level]
  /\ chain' = Linked(chain, level, <<o, Last(o) + 1>>)

\* Faulty variant of MakeCurrent: no isCurrent() test.
MakeCurrentAlways(o) == Update(o)

\* ContextObj::makeCurrent
MakeCurrent(o) ==
  \/ /\ scope[o] = level
     /\ UNCHANGED <<saved, scope, chain>>
  \/ /\ scope[o] # level
     /\ Update(o)

\* CDO::set
Set(o, v) ==
  /\ phase = "run"
  /\ Constructed(o)
  /\ MakeCurrent(o)
  /\ data' = [data EXCEPT ![o] = v]
  /\ UNCHANGED <<level, storage, dying, target, phase>>

\* CDO(context) and CDO(allocatedInCMM, context): the object is linked to the
\* bottom scope or, if it lives in context memory, to the top one.
Construct(o, where) ==
  LET l == IF where = "cmm" THEN level ELSE 0 IN
  /\ phase = "run"
  /\ ~Constructed(o)
  /\ storage' = [storage EXCEPT ![o] = where]
  /\ data' = [data EXCEPT ![o] = Default]
  /\ scope' = [scope EXCEPT ![o] = l]
  /\ chain' = Linked(chain, l, <<o, 1>>)
  /\ UNCHANGED <<level, saved, dying, target, phase>>

\* Faulty variant of ConstructWith: no makeCurrent() before the assignment.
ConstructWithNotCurrent(o, v) ==
  /\ phase = "run"
  /\ ~Constructed(o)
  /\ storage' = [storage EXCEPT ![o] = "heap"]
  /\ data' = [data EXCEPT ![o] = v]
  /\ scope' = [scope EXCEPT ![o] = 0]
  /\ chain' = Linked(chain, 0, <<o, 1>>)
  /\ UNCHANGED <<level, saved, dying, target, phase>>

\* CDO(context, data): linked to the bottom scope with T(), then makeCurrent()
\* and the assignment, so that the value holds in the current scope only.
ConstructWith(o, v) ==
  /\ phase = "run"
  /\ ~Constructed(o)
  /\ storage' = [storage EXCEPT ![o] = "heap"]
  /\ data' = [data EXCEPT ![o] = v]
  /\ scope' = [scope EXCEPT ![o] = level]
  /\ IF level = 0
       THEN /\ chain' = Linked(chain, 0, <<o, 1>>)
            /\ UNCHANGED saved
       ELSE /\ chain' = Linked(Linked(chain, 0, <<o, 1>>), level, <<o, 2>>)
            /\ saved' = [saved EXCEPT ![o] = <<[data |-> Default, scope |-> 0]>>]
  /\ UNCHANGED <<level, dying, target, phase>>

\* Faulty variant of Destroy: unlinks the current version only.
DestroyNewest(o) ==
  /\ phase = "run"
  /\ storage[o] = "heap"
  /\ storage' = [storage EXCEPT ![o] = "none"]
  /\ data' = [data EXCEPT ![o] = Default]
  /\ scope' = [scope EXCEPT ![o] = 0]
  /\ saved' = [saved EXCEPT ![o] = <<>>]
  /\ chain' = [l \in Level |-> chain[l] \ {<<o, Last(o)>>}]
  /\ UNCHANGED <<level, dying, target, phase>>

\* ~CDO: ContextObj::destroy unlinks every version of o from its scope.
\* Objects of the context memory are never deleted this way.
Destroy(o) ==
  /\ phase = "run"
  /\ storage[o] = "heap"
  /\ storage' = [storage EXCEPT ![o] = "none"]
  /\ data' = [data EXCEPT ![o] = Default]
  /\ scope' = [scope EXCEPT ![o] = 0]
  /\ saved' = [saved EXCEPT ![o] = <<>>]
  /\ chain' = [l \in Level |-> chain[l] \ {<<o, i>> : i \in 1..Last(o)}]
  /\ UNCHANGED <<level, dying, target, phase>>

Next ==
  \/ Push
  \/ \E t \in Level : PopTo(t)
  \/ ScopeDeleted
  \/ \E o \in Obj :
        \/ Restore(o)
        \/ Construct(o, "heap")
        \/ Construct(o, "cmm")
        \/ Destroy(o)
        \/ \E v \in Val : Set(o, v) \/ ConstructWith(o, v)

\* Pop is straight-line code: once begun it runs to its end.
PopStep == ScopeDeleted \/ \E o \in Obj : Restore(o)

Spec == Init /\ [][Next]_vars

FairSpec == Spec /\ WF_vars(PopStep)
-----------------------------------------------------------------------------
(* Properties. *)

\* The fields of Context, Scope and ContextObj have their types; in particular
\* pop() never takes the level below 0.
TypeOK ==
  /\ level \in Level
  /\ storage \in [Obj -> {"none", "heap", "cmm"}]
  /\ data \in [Obj -> Val]
  /\ scope \in [Obj -> Level]
  /\ saved \in [Obj -> Seq(Copy)]
  /\ chain \in [Level -> SUBSET Version]
  /\ dying \in SUBSET Version
  /\ target \in Level
  /\ phase \in {"run", "restore"}

\* The top-most level at which a version can be listed: inside pop() the
\* scope that is being deleted is one above the context's level.
TopLevel == IF phase = "restore" THEN level + 1 ELSE level

Listed(l) == IF l = level + 1 /\ phase = "restore" THEN dying ELSE chain[l]

\* Every version of every constructed object is on the list of its own scope
\* and on no other, so no modification can miss being undone and none is
\* undone twice (Scope::addToChain, ContextObj::update, ::destroy).
ListsExact ==
  /\ \A o \in Obj : Constructed(o) =>
       \A i \in 1..Last(o) : \A l \in 0..TopLevel :
          <<o, i>> \in Listed(l) <=> ScopeOf(o, i) = l
  /\ \A l \in 0..TopLevel : \A v \in Listed(l) :
       Constructed(v[1]) /\ v[2] \in 1..Last(v[1])

\* The versions of an object belong to ever newer scopes: at most one copy
\* is saved per scope, however often the object is modified in it, and the
\* copy restored by a pop is the one the scope below must see.
OneVersionPerScope ==
  \A o \in Obj : Constructed(o) =>
    \A i, j \in 1..Last(o) : i < j => ScopeOf(o, i) < ScopeOf(o, j)

\* d_pScope never dangles: when clients run, no object belongs to a scope
\* that has been popped and deleted.
NoDanglingScope ==
  phase = "run" => \A o \in Obj : Constructed(o) => scope[o] <= level

\* A pop finds one copy per scope to restore, and leaves no object in a scope
\* that is gone.
VersionsRight == OneVersionPerScope /\ NoDanglingScope

\* The versions of o that are not above the level l, and the newest of them:
\* what a client at level l read, and will read again after a pop to it.
Visible(o, l) == {i \in 1..Last(o) : ScopeOf(o, i) <= l}

Newest(S) == CHOOSE i \in S : \A j \in S : j <= i

ValueAt(o, l) ==
  IF Constructed(o) /\ Visible(o, l) # {}
    THEN DataOf(o, Newest(Visible(o, l)))
    ELSE Absent

absState ==
  [l \in Level |-> [o \in Obj |-> IF l <= level THEN ValueAt(o, l) ELSE Absent]]

Abs == INSTANCE Snapshots WITH state <- absState

\* The context implements the stack of snapshots: a pop gives back exactly
\* what was there at the matching push, for objects written, constructed or
\* destroyed in between, and at any nesting of scopes.
ImplementsSnapshots == Abs!SSpec

\* A pop that has begun ends (the loops of popto and of ~Scope terminate).
PopTerminates == (phase = "restore") ~> (phase = "run")
=============================================================================
