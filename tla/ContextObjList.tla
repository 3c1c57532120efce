---------------------------- MODULE ContextObjList ----------------------------
(***************************************************************************)
(* The linked lists behind Context: ContextObj, Scope and their pointers,  *)
(* as src/context/context.{h,cpp} manipulates them.                        *)
(*                                                                         *)
(* A node is a ContextObj in memory: <<o, 0>> is the object o itself and   *)
(* <<o, i>>, i > 0, the i-th copy that update() saved of it.  The list of  *)
(* a scope runs through d_pContextObjNext; d_ppContextObjPrev is the       *)
(* address of the pointer that points to the node, either the head of a    *)
(* scope or the next field of another node.  A copy takes over the place   *)
(* of its object in the list of the older scope, and gives it back when    *)
(* the object is restored; in between its neighbours come and go.          *)
(*                                                                         *)
(* Each operation is a function on memories, a memory being the nodes and  *)
(* the heads of the scope lists; statements are composed in the order of   *)
(* the code.                                                               *)
(***************************************************************************)
EXTENDS Naturals, Sequences, FiniteSets, Functions

CONSTANTS
  Obj, Val, Default, Absent, MaxLevel,   \* as in Context; Val: what is written
  Null

ASSUME ContextObjAssumption == Null \notin Obj \X Nat /\ MaxLevel \in Nat

VARIABLES
  level,     \* Context::getLevel()
  storage,   \* "none", "heap" or "cmm", as in Context
  node,      \* the nodes in memory
  head,      \* head[l]: d_pContextObjList of the scope l
  target,    \* the argument of popto
  phase      \* "run" or, inside pop(), "restore"

vars == <<level, storage, node, head, target, phase>>

Level == 0..MaxLevel

\* Addresses of pointers: &d_pContextObjList of a scope, &next() of a node.
HeadOf(l) == [kind |-> "head", of |-> l]
NextOf(n) == [kind |-> "next", of |-> n]

Mem == [node |-> node, head |-> head]

\* *p = n
SetAt(m, p, n) ==
  IF p.kind = "head" THEN [m EXCEPT !.head[p.of] = n]
                     ELSE [m EXCEPT !.node[p.of].next = n]

\* if(n != NULL) { n->prev() = p; }
SetPrev(m, n, p) == IF n = Null THEN m ELSE [m EXCEPT !.node[n].prev = p]

Store(m, n, record) ==
  [m EXCEPT !.node = [k \in DOMAIN m.node \cup {n} |->
                        IF k = n THEN record ELSE m.node[k]]]

Drop(m, ns) ==
  [m EXCEPT !.node = [k \in DOMAIN m.node \ ns |-> m.node[k]]]

Init ==
  /\ level = 0
  /\ storage = [o \in Obj |-> "none"]
  /\ node = <<>>
  /\ head = [l \in Level |-> Null]
  /\ target = 0
  /\ phase = "run"
-----------------------------------------------------------------------------
(* The operations on memories. *)

\* Scope::addToChain
AddToChain(m, n, l) ==
  LET m1 == SetPrev(m, m.head[l], NextOf(n))
      m2 == [m1 EXCEPT !.node[n].next = m.head[l], !.node[n].prev = HeadOf(l)]
  IN  [m2 EXCEPT !.head[l] = n]

\* ContextObj::ContextObj: a node of the scope l
NewNode(m, o, l) ==
  AddToChain(Store(m, <<o, 0>>,
                   [data |-> Default, scope |-> l, restore |-> Null,
                    next |-> Null, prev |-> HeadOf(l)]),
             <<o, 0>>, l)

\* The node that the next save() of o returns.
FreshCopy(m, o) ==
  <<o, 1 + Cardinality({n \in DOMAIN m.node : n[1] = o /\ n[2] > 0})>>

\* Faulty variant of UpdateObj: the successor keeps pointing back to the
\* object, which leaves the list.
UpdateObjStaleNeighbour(m, o) ==
  LET n  == <<o, 0>>
      c  == FreshCopy(m, o)
      m1 == Store(m, c, m.node[n])
      m2 == SetAt(m1, m1.node[n].prev, c)
      m3 == [m2 EXCEPT !.node[n].scope = level, !.node[n].restore = c]
  IN  AddToChain(m3, n, level)

\* ContextObj::update: save() copies the node, the copy takes its place in the
\* list it is on, and the object moves to the list of the top scope.
UpdateObj(m, o) ==
  LET n  == <<o, 0>>
      c  == FreshCopy(m, o)
      m1 == Store(m, c, m.node[n])
      m2 == SetPrev(m1, m1.node[n].next, NextOf(c))
      m3 == SetAt(m2, m2.node[n].prev, c)
      m4 == [m3 EXCEPT !.node[n].scope = level, !.node[n].restore = c]
  IN  AddToChain(m4, n, level)

\* ContextObj::makeCurrent
MakeCurrent(m, o) ==
  IF m.node[<<o, 0>>].scope = level THEN m ELSE UpdateObj(m, o)

\* ContextObj::restoreAndContinue with a copy to restore: the object gets the
\* data and the links of the copy and is linked again where the copy was.
RestoreObj(m, o) ==
  LET n  == <<o, 0>>
      c  == m.node[n].restore
      m1 == [m EXCEPT !.node[n] = m.node[c]]
      m2 == SetPrev(m1, m1.node[n].next, NextOf(n))
      m3 == SetAt(m2, m2.node[n].prev, n)
  IN  Drop(m3, {c})

\* Taking a node off the list it is on.
Unlink(m, n) ==
  SetAt(SetPrev(m, m.node[n].next, m.node[n].prev), m.node[n].prev, m.node[n].next)

\* Number of copies of o.
Copies(m, o) == Cardinality({n \in DOMAIN m.node : n[1] = o /\ n[2] > 0})

\* ContextObj::destroy: unlink, and as long as there is a copy restore it and
\* unlink again.
DestroyObj(m, o) ==
  LET d[k \in 0..Copies(m, o)] ==
        IF k = 0 THEN Unlink(m, <<o, 0>>)
                 ELSE Unlink(RestoreObj(d[k - 1], o), <<o, 0>>)
  IN  Drop(d[Copies(m, o)], {<<o, 0>>})

Becomes(m) == node' = m.node /\ head' = m.head
-----------------------------------------------------------------------------
(* The operations of Context and CDO. *)

Constructed(o) == storage[o] # "none"

\* Context::push: a new Scope with an empty list
Push ==
  /\ phase = "run"
  /\ level < MaxLevel
  /\ level' = level + 1
  /\ head' = [head EXCEPT ![level + 1] = Null]
  /\ UNCHANGED <<storage, node, target, phase>>

\* Context::pop and Context::popto: ~Scope of the top scope begins.
PopTo(t) ==
  /\ phase = "run"
  /\ t < level
  /\ target' = t
  /\ phase' = "restore"
  /\ level' = level - 1
  /\ UNCHANGED <<storage, node, head>>

\* Faulty variant of Restore: next() is read after restore() has overwritten it.
RestoreNextLate ==
  LET n == head[level + 1]
      o == n[1]
      m == IF node[n].restore # Null THEN RestoreObj(Mem, o) ELSE Drop(Mem, {n})
  IN  /\ phase = "restore"
      /\ n # Null
      /\ node' = m.node
      /\ head' = [m.head EXCEPT ![level + 1] =
                    IF node[n].restore # Null THEN m.node[n].next ELSE node[n].next]
      /\ storage' = [storage EXCEPT ![o] = IF node[n].restore # Null THEN @ ELSE "none"]
      /\ UNCHANGED <<level, target, phase>>

\* The loop of ~Scope advances its list head to what restoreAndContinue
\* returns.  Objects in context memory that have no copy vanish with it.
Restore ==
  LET n == head[level + 1]
      o == n[1]
      m == IF node[n].restore # Null THEN RestoreObj(Mem, o) ELSE Drop(Mem, {n})
  IN  /\ phase = "restore"
      /\ n # Null
      /\ node' = m.node
      /\ head' = [m.head EXCEPT ![level + 1] = node[n].next]
      /\ storage' = [storage EXCEPT ![o] = IF node[n].restore # Null THEN @ ELSE "none"]
      /\ UNCHANGED <<level, target, phase>>

\* The list is empty: pop() returns, and popto() goes on to the next scope.
ScopeDeleted ==
  /\ phase = "restore"
  /\ head[level + 1] = Null
  /\ \/ target < level /\ level' = level - 1 /\ UNCHANGED phase
     \/ target >= level /\ phase' = "run" /\ UNCHANGED level
  /\ UNCHANGED <<storage, node, head, target>>

\* CDO::set
Set(o, v) ==
  /\ phase = "run"
  /\ Constructed(o)
  /\ Becomes([MakeCurrent(Mem, o) EXCEPT !.node[<<o, 0>>].data = v])
  /\ UNCHANGED <<level, storage, target, phase>>

\* CDO(context) and CDO(allocatedInCMM, context)
Construct(o, where) ==
  /\ phase = "run"
  /\ ~Constructed(o)
  /\ storage' = [storage EXCEPT ![o] = where]
  /\ Becomes(NewNode(Mem, o, IF where = "cmm" THEN level ELSE 0))
  /\ UNCHANGED <<level, target, phase>>

\* CDO(context, data)
ConstructWith(o, v) ==
  /\ phase = "run"
  /\ ~Constructed(o)
  /\ storage' = [storage EXCEPT ![o] = "heap"]
  /\ Becomes([MakeCurrent(NewNode(Mem, o, 0), o) EXCEPT !.node[<<o, 0>>].data = v])
  /\ UNCHANGED <<level, target, phase>>

\* ~CDO
Destroy(o) ==
  /\ phase = "run"
  /\ storage[o] = "heap"
  /\ storage' = [storage EXCEPT ![o] = "none"]
  /\ Becomes(DestroyObj(Mem, o))
  /\ UNCHANGED <<level, target, phase>>

Next ==
  \/ Push
  \/ \E t \in Level : PopTo(t)
  \/ Restore
  \/ ScopeDeleted
  \/ \E o \in Obj :
        \/ Construct(o, "heap")
        \/ Construct(o, "cmm")
        \/ Destroy(o)
        \/ \E v \in Val : Set(o, v) \/ ConstructWith(o, v)

Spec == Init /\ [][Next]_vars
-----------------------------------------------------------------------------
(* Properties. *)

\* The scopes whose lists are in use: inside pop() the one being deleted too.
OpenScopes == 0..(IF phase = "restore" THEN level + 1 ELSE level)

\* The nodes from n on, and Null where the list ends.
Walk(n) ==
  LET after   == [m \in DOMAIN node \cup {Null} |-> IF m = Null THEN Null ELSE node[m].next]
      visited[k \in 0..Cardinality(DOMAIN node)] ==
        IF k = 0 THEN n ELSE after[visited[k - 1]]
  IN  {visited[k] : k \in DOMAIN visited}

OnList(l) == Walk(head[l]) \ {Null}

\* No pointer that will be followed refers to a node that is gone: neither the
\* lists nor the copies outlive what they point to.  (~Scope does not look at
\* the d_ppContextObjPrev of the list it consumes.)
NoDanglingPointer ==
  /\ \A n \in DOMAIN node :
       /\ {node[n].next, node[n].restore} \subseteq DOMAIN node \cup {Null}
       /\ node[n].prev.kind = "next" /\ node[n].scope <= level =>
            node[n].prev.of \in DOMAIN node
       /\ node[n].scope \in OpenScopes
  /\ \A l \in OpenScopes : head[l] \in DOMAIN node \cup {Null}

\* The assertions of operator<<(ostream&, const Scope&): the list of a scope
\* ends, each node on it belongs to the scope and is pointed back to by its
\* successor, the first one by the scope itself.  While ~Scope consumes the
\* list of a scope, its first node is no longer pointed to by the head.
WellLinked ==
  \A l \in OpenScopes :
    /\ Null \in Walk(head[l])
    /\ \A n \in OnList(l) :
         /\ node[n].scope = l
         /\ node[n].next # Null => node[node[n].next].prev = NextOf(n)
    /\ head[l] # Null /\ l <= level => node[head[l]].prev = HeadOf(l)

\* Every node is on the list of its scope, so that deleting the scope finds it.
NothingLost == \A n \in DOMAIN node : n \in OnList(node[n].scope)

\* The lists are sound: this is what every walk over them relies on.
ListsSound == NoDanglingPointer /\ WellLinked /\ NothingLost

\* The saved copies of each object.
Saves == [o \in Obj |-> Cardinality({n \in DOMAIN node : n[1] = o /\ n[2] > 0})]

\* The copies of o, oldest first: the chain of d_pContextObjRestore.
CopyChain(o, n) ==
  LET c[k \in 0..n] == IF k = 0 THEN <<o, 0>> ELSE node[c[k - 1]].restore
  IN  [i \in 1..n |-> c[n + 1 - i]]

\* The place of a node among the versions of its object.
VersionOf(n, saves) == <<n[1], IF n[2] = 0 THEN saves[n[1]] + 1 ELSE n[2]>>

absData  == [o \in Obj |-> IF Constructed(o) THEN node[<<o, 0>>].data ELSE Default]
absScope == [o \in Obj |-> IF Constructed(o) THEN node[<<o, 0>>].scope ELSE 0]
absSaved ==
  LET saves == Saves
  IN  [o \in Obj |-> LET copies == CopyChain(o, saves[o]) IN
                     [i \in DOMAIN copies |-> [data  |-> node[copies[i]].data,
                                               scope |-> node[copies[i]].scope]]]
absChain ==
  LET saves == Saves
  IN  [l \in Level |-> IF l <= level THEN {VersionOf(n, saves) : n \in OnList(l)} ELSE {}]
absDying ==
  LET saves == Saves
  IN  IF phase = "restore" THEN {VersionOf(n, saves) : n \in OnList(level + 1)} ELSE {}

Sets == INSTANCE Context WITH
          Val <- Val \cup {Default},
          data <- absData, scope <- absScope, saved <- absSaved,
          chain <- absChain, dying <- absDying

\* The linked lists implement the sets of versions of Context: relinking never
\* loses a version, restores one twice, or puts one back on the wrong list.
ImplementsContext == Sets!Spec
=============================================================================
