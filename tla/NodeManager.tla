---------------------------- MODULE NodeManager ----------------------------
(***************************************************************************)
(* Reference counts and garbage collection of expressions (expr/           *)
(* node_value.h, node_manager.h, node_manager.cpp, node_builder.h).        *)
(*                                                                         *)
(* A NodeValue is shared by all expressions of the same kind and children  *)
(* through a pool.  One whose count falls to 0 becomes a zombie; it stays  *)
(* in the pool and may come back to life.  When there are many zombies,    *)
(* the dec() that made the last one reclaims them.  A count that reaches   *)
(* its maximum is no longer changed, and such values live as long as the   *)
(* manager, whose destructor takes them apart from the top down.           *)
(*                                                                         *)
(* Memory is a set of addresses, which are used again after free().  The   *)
(* kinds and the kinds of their children are given by Shape.  Attributes   *)
(* stand in for all tables whose values are Nodes: one attribute per node. *)
(***************************************************************************)
EXTENDS Naturals, Sequences, FiniteSets, SequencesExt

CONSTANTS Addr,        \* the memory
          None,        \* no node
          Kind, Shape, \* Shape[k]: the kinds of the children of a node of kind k
          Variable,    \* kinds that are not put in the pool
          Annotated,   \* kinds of the nodes that clients give an attribute
          Parameterized, \* kinds whose first child is their operator
          MaxRc,       \* NodeValue::MAX_RC, 2^20 - 1 in the code
          ZombieLimit, \* the 5000 of markForDeletion
          MaxHeld      \* bound on the Nodes of the clients per NodeValue

\* Where a Node is stored that an operation makes.
Places == {"handle", "attribute"}

NodeManagerAssumption ==
  /\ IsFiniteSet(Addr) /\ Shape \in [Kind -> Seq(Kind)]
  /\ None \notin Addr \cup [kind : Kind, kids : Seq(Addr), rc : Nat]
  /\ None \notin [kind : Kind, kids : Seq(Addr)] \cup [place : Places, key : Addr, nv : Addr]
  /\ Variable \subseteq Kind /\ Annotated \subseteq Kind /\ Parameterized \subseteq Kind
  /\ \A k \in Variable : Shape[k] = <<>>
  /\ \A k \in Parameterized : Shape[k] # <<>>
  /\ MaxRc \in Nat \ {0} /\ ZombieLimit \in Nat /\ MaxHeld \in Nat \ {0}

VARIABLES
  mem,       \* mem[a]: kind, children and d_rc of the NodeValue at a, or None
  pool,      \* d_nodeValuePool
  d_zombies, d_maxedOut,
  attr,      \* the attribute tables: attr[a] is the value for key a, or None
  held,      \* held[a]: how many Nodes of the clients point to a
  builder,   \* the NodeBuilder under construction, or None
  todo,      \* calls of dec() that the current operation has still to make
  result,    \* where a Node is stored when they are made, or None
  zombies,   \* reclaimZombies: the part of the copied vector still to be visited
  phase,     \* "open", and in the destructor "sort", "force", "gone"
  topo       \* TopologicalSort: index, stack, visited, order

vars == <<mem, pool, d_zombies, d_maxedOut, attr, held, builder, todo, result, zombies, phase, topo>>

Live == {a \in Addr : mem[a] # None}

\* How often a occurs in the sequence s.
At(a, s) == {i \in DOMAIN s : s[i] = a}
Times(a, s) == Cardinality(At(a, s))

-----------------------------------------------------------------------------
(* NodeValue::inc and dec, on the memory m and the lists they append to. *)

Rc(m, a) == m[a].rc

inc(m, a) == [m EXCEPT ![a].rc = IF @ < MaxRc THEN @ + 1 ELSE @]

\* markRefCountMaxedOut, called by inc.
MaxedBy(m, a) == IF Rc(m, a) = MaxRc - 1 THEN <<a>> ELSE <<>>

\* Faulty variant of Lowered: a count that is at its maximum is decremented too.
LoweredNotSticky(rc, n) == (rc + n * MaxRc) % (MaxRc + 1)

\* d_rc after n calls of dec.  It is a bit field, and wraps below 0.
Lowered(rc, n) == IF rc = MaxRc \/ n > rc THEN MaxRc ELSE rc - n

\* NodeValue::decrRefCounts: n[a] calls of dec for every a, in any order, each
\* with the first half of markForDeletion.
decrRefCounts(s, n) ==
  [mem |-> [a \in Addr |-> IF s.mem[a] = None THEN None
                          ELSE [s.mem[a] EXCEPT !.rc = Lowered(@, n[a])]],
   zs  |-> s.zs \cup {a \in Addr : s.mem[a] # None /\ Rc(s.mem, a) \in (1 .. n[a]) \ {MaxRc}}]

dec(s, a) == decrRefCounts(s, [b \in Addr |-> IF b = a THEN 1 ELSE 0])

-----------------------------------------------------------------------------
Idle == phase = "open" /\ todo = <<>> /\ result = None /\ zombies = {}

NodesInit ==
  /\ mem = [a \in Addr |-> None] /\ pool = {} /\ d_zombies = {} /\ d_maxedOut = <<>>
  /\ attr = [a \in Addr |-> None] /\ held = [a \in Addr |-> 0]
  /\ builder = None /\ todo = <<>> /\ result = None /\ zombies = {}
  /\ phase = "open" /\ topo = [index |-> 1, stack |-> <<>>, visited |-> {}, order |-> <<>>]

-----------------------------------------------------------------------------
(* Clients: Nodes are copied, dropped and assigned. *)

\* The copy constructor of Node.
CopyNode(a) ==
  /\ Idle /\ held[a] \in 1 .. MaxHeld - 1
  /\ held' = [held EXCEPT ![a] = @ + 1]
  /\ mem' = inc(mem, a) /\ d_maxedOut' = d_maxedOut \o MaxedBy(mem, a)
  /\ UNCHANGED <<pool, d_zombies, attr, builder, todo, result, zombies, phase, topo>>

\* ~Node
DropNode(a) ==
  /\ Idle /\ held[a] > 0
  /\ held' = [held EXCEPT ![a] = @ - 1] /\ todo' = <<a>>
  /\ UNCHANGED <<mem, pool, d_zombies, d_maxedOut, attr, builder, result, zombies, phase, topo>>

\* operator= of a Node at a from a TNode to one of a's children: the old value is
\* decremented before the new one is incremented.
AssignChild(a, b) ==
  /\ Idle /\ held[a] > 0 /\ b \in Range(mem[a].kids) /\ held[b] < MaxHeld
  /\ held' = [held EXCEPT ![a] = @ - 1]
  /\ todo' = <<a>> /\ result' = [place |-> "handle", key |-> b, nv |-> b]
  /\ UNCHANGED <<mem, pool, d_zombies, d_maxedOut, attr, builder, zombies, phase, topo>>

\* AttributeManager::setAttribute, which assigns to an entry of the table.
setAttribute(a, b) ==
  /\ Idle /\ held[a] > 0 /\ held[b] > 0 /\ attr[a] # b /\ mem[a].kind \in Annotated
  /\ todo' = IF attr[a] = None THEN <<>> ELSE <<attr[a]>>
  /\ attr' = [attr EXCEPT ![a] = None]
  /\ result' = [place |-> "attribute", key |-> a, nv |-> b]
  /\ UNCHANGED <<mem, pool, d_zombies, d_maxedOut, held, builder, zombies, phase, topo>>

-----------------------------------------------------------------------------
(* NodeBuilder. *)

NewBuilder(k) ==
  /\ Idle /\ builder = None
  /\ builder' = [kind |-> k, kids |-> <<>>]
  /\ UNCHANGED <<mem, pool, d_zombies, d_maxedOut, attr, held, todo, result, zombies, phase, topo>>

append(a) ==
  /\ Idle /\ builder # None /\ held[a] > 0
  /\ Len(builder.kids) < Len(Shape[builder.kind])
  /\ mem[a].kind = Shape[builder.kind][Len(builder.kids) + 1]
  /\ mem' = inc(mem, a) /\ d_maxedOut' = d_maxedOut \o MaxedBy(mem, a)
  /\ builder' = [builder EXCEPT !.kids = Append(@, a)]
  /\ UNCHANGED <<pool, d_zombies, attr, held, todo, result, zombies, phase, topo>>

\* ~NodeBuilder of one that was not used.
DropBuilder ==
  /\ Idle /\ builder # None
  /\ builder' = None /\ todo' = builder.kids
  /\ UNCHANGED <<mem, pool, d_zombies, d_maxedOut, attr, held, result, zombies, phase, topo>>

\* NodeManager::poolLookup
poolLookup(b) == {p \in pool : mem[p].kind = b.kind /\ mem[p].kids = b.kids}

\* constructNV when the node is in the pool: the builder's own references are
\* given up before the Node that is returned takes one.
ConstructKnown ==
  /\ Idle /\ builder # None /\ Len(builder.kids) = Len(Shape[builder.kind])
  /\ \E p \in poolLookup(builder) :
       /\ held[p] < MaxHeld
       /\ result' = [place |-> "handle", key |-> p, nv |-> p]
  /\ todo' = builder.kids /\ builder' = None
  /\ UNCHANGED <<mem, pool, d_zombies, d_maxedOut, attr, held, zombies, phase, topo>>

\* constructNV (and mkConst) when it is new: the builder's references are taken over.
ConstructNew ==
  /\ Idle /\ builder # None /\ Len(builder.kids) = Len(Shape[builder.kind])
  /\ poolLookup(builder) = {}
  /\ \E a \in Addr \ Live :
       /\ mem' = [mem EXCEPT ![a] = [kind |-> builder.kind, kids |-> builder.kids, rc |-> 0]]
       /\ pool' = IF builder.kind \in Variable THEN pool ELSE pool \cup {a}
       /\ result' = [place |-> "handle", key |-> a, nv |-> a]
  /\ builder' = None
  /\ UNCHANGED <<d_zombies, d_maxedOut, attr, held, todo, zombies, phase, topo>>

-----------------------------------------------------------------------------
(* The calls of dec() that an operation makes, and the Node it stores then. *)

\* remove_copy_if: the vector that reclaimZombies copies from the set s of zombies.
ToReclaim(m, s) == {z \in s : Rc(m, z) = 0}

\* dec outside reclaimZombies: markForDeletion may call reclaimZombies.
Dec ==
  /\ phase = "open" /\ zombies = {} /\ todo # <<>>
  /\ LET a == Head(todo)
         s == dec([mem |-> mem, zs |-> d_zombies], a)
         full == Rc(s.mem, a) = 0 /\ Cardinality(s.zs) > ZombieLimit
     IN /\ mem' = s.mem
        /\ zombies'   = IF full THEN ToReclaim(s.mem, s.zs) ELSE {}
        /\ d_zombies' = IF full THEN {} ELSE s.zs
  /\ todo' = Tail(todo)
  /\ UNCHANGED <<pool, d_maxedOut, attr, held, builder, result, phase, topo>>

\* The constructor of the Node that is returned, or the second half of operator=.
Store ==
  /\ phase = "open" /\ zombies = {} /\ todo = <<>> /\ result # None
  /\ mem' = inc(mem, result.nv) /\ d_maxedOut' = d_maxedOut \o MaxedBy(mem, result.nv)
  /\ held' = IF result.place = "handle" THEN [held EXCEPT ![result.nv] = @ + 1] ELSE held
  /\ attr' = IF result.place = "attribute" THEN [attr EXCEPT ![result.key] = result.nv] ELSE attr
  /\ result' = None
  /\ UNCHANGED <<pool, d_zombies, builder, todo, zombies, phase, topo>>

-----------------------------------------------------------------------------
(* Garbage collection. *)

\* An iteration of reclaimZombiesUntil.
reclaimZombiesUntil ==
  /\ Idle /\ d_zombies # {}
  /\ zombies' = ToReclaim(mem, d_zombies) /\ d_zombies' = {}
  /\ UNCHANGED <<mem, pool, d_maxedOut, attr, held, builder, todo, result, phase, topo>>

\* The references that the value at a and its attribute give up.
GivenUpBy(a) == [b \in Addr |-> Times(b, mem[a].kids) + IF attr[a] = b THEN 1 ELSE 0]

\* Faulty variant of Reclaim: children that become zombies are not recorded.
ReclaimLosesChildren(a) ==
  LET s == decrRefCounts([mem |-> mem, zs |-> d_zombies], GivenUpBy(a))
  IN /\ pool' = pool \ {a} /\ attr' = [attr EXCEPT ![a] = None]
     /\ mem' = [s.mem EXCEPT ![a] = None] /\ d_zombies' = d_zombies

\* The body of the loop of reclaimZombies: the pool, the attributes, the children.
Reclaim(a) ==
  LET s == decrRefCounts([mem |-> mem, zs |-> d_zombies], GivenUpBy(a))
  IN /\ pool' = pool \ {a} /\ attr' = [attr EXCEPT ![a] = None]
     /\ mem' = [s.mem EXCEPT ![a] = None] /\ d_zombies' = s.zs

\* One iteration: a zombie is collected only if its count is still zero.
reclaimZombie(a) ==
  /\ a \in zombies /\ zombies' = zombies \ {a}
  /\ IF Rc(mem, a) = 0 THEN Reclaim(a) ELSE UNCHANGED <<mem, pool, attr, d_zombies>>
  /\ UNCHANGED <<d_maxedOut, held, builder, todo, result, phase, topo>>

-----------------------------------------------------------------------------
(* ~NodeManager. *)

\* The nodes whose attribute is a.
Keys(a) == {k \in Addr : attr[k] = a}

\* The attributes are deleted without garbage collection, then the values with a
\* full count are sorted.  The clients have given up their Nodes.
Destroy ==
  /\ Idle /\ builder = None /\ \A a \in Addr : held[a] = 0
  /\ LET s == decrRefCounts([mem |-> mem, zs |-> d_zombies], [a \in Addr |-> Cardinality(Keys(a))])
     IN mem' = s.mem /\ d_zombies' = s.zs
  /\ attr' = [a \in Addr |-> None]
  /\ phase' = "sort"
  /\ UNCHANGED <<pool, d_maxedOut, held, builder, todo, result, zombies, topo>>

\* The children that NodeValue::getNumChildren and getChild give.
Children(a) == IF mem[a].kind \in Parameterized THEN Tail(mem[a].kids) ELSE mem[a].kids

\* TopologicalSort: the next root that has not been visited.
SortRoot ==
  /\ phase = "sort" /\ topo.stack = <<>> /\ topo.index <= Len(d_maxedOut)
  /\ LET root == d_maxedOut[topo.index]
     IN topo' = [topo EXCEPT !.index = @ + 1,
                             !.stack = IF root \in topo.visited THEN <<>>
                                       ELSE <<[done |-> FALSE, nv |-> root]>>]
  /\ UNCHANGED <<mem, pool, d_zombies, d_maxedOut, attr, held, builder, todo, result, zombies, phase>>

\* TopologicalSort: one turn of the inner loop.
SortStep ==
  /\ phase = "sort" /\ topo.stack # <<>>
  /\ LET top == topo.stack[Len(topo.stack)]
         new == SelectSeq(Children(top.nv), LAMBDA c : c \notin topo.visited \cup {top.nv})
     IN topo' = IF top.done
                THEN [topo EXCEPT !.stack = Front(@),
                                  !.order = IF top.nv \in Range(d_maxedOut) THEN Append(@, top.nv) ELSE @]
                ELSE [topo EXCEPT !.visited = @ \cup {top.nv},
                                  !.stack = Append(Front(@), [top EXCEPT !.done = TRUE])
                                            \o [i \in 1 .. Len(new) |-> [done |-> FALSE, nv |-> new[i]]]]
  /\ UNCHANGED <<mem, pool, d_zombies, d_maxedOut, attr, held, builder, todo, result, zombies, phase>>

SortDone ==
  /\ phase = "sort" /\ topo.stack = <<>> /\ topo.index > Len(d_maxedOut)
  /\ phase' = "force" /\ d_maxedOut' = <<>>
  /\ UNCHANGED <<mem, pool, d_zombies, attr, held, builder, todo, result, zombies, topo>>

\* The loop of the destructor: reclaimZombies as long as there are zombies ...
ReclaimAll ==
  /\ phase = "force" /\ zombies = {} /\ d_zombies # {}
  /\ zombies' = ToReclaim(mem, d_zombies) /\ d_zombies' = {}
  /\ UNCHANGED <<mem, pool, d_maxedOut, attr, held, builder, todo, result, phase, topo>>

\* ... and when there are none, the greatest value with a full count is made one.
ForceZombie ==
  /\ phase = "force" /\ zombies = {} /\ d_zombies = {} /\ topo.order # <<>>
  /\ LET greatest == topo.order[Len(topo.order)]
     IN mem' = [mem EXCEPT ![greatest].rc = 0] /\ d_zombies' = {greatest}
  /\ topo' = [topo EXCEPT !.order = Front(@)]
  /\ UNCHANGED <<pool, d_maxedOut, attr, held, builder, todo, result, zombies, phase>>

Gone ==
  /\ phase = "force" /\ zombies = {} /\ d_zombies = {} /\ topo.order = <<>>
  /\ phase' = "gone"
  /\ UNCHANGED <<mem, pool, d_zombies, d_maxedOut, attr, held, builder, todo, result, zombies, topo>>

-----------------------------------------------------------------------------
Client == \/ \E a \in Addr : CopyNode(a) \/ DropNode(a) \/ append(a)
          \/ \E a, b \in Addr : AssignChild(a, b) \/ setAttribute(a, b)
          \/ \E k \in Kind : NewBuilder(k)
          \/ DropBuilder \/ ConstructKnown \/ ConstructNew

Manager == \/ Dec \/ Store \/ reclaimZombiesUntil
           \/ \E a \in Addr : reclaimZombie(a)

Destructor == Destroy \/ SortRoot \/ SortStep \/ SortDone \/ ReclaimAll \/ ForceZombie \/ Gone

NodesNext == Client \/ Manager \/ Destructor

NodesSpec == NodesInit /\ [][NodesNext]_vars

-----------------------------------------------------------------------------
NodeValueType == [kind : Kind, kids : Seq(Addr), rc : 0 .. MaxRc]

\* Type invariant of the memory, the pool, the lists and the control state.
NodesTypeOK ==
  /\ mem \in [Addr -> NodeValueType \cup {None}]
  /\ pool \subseteq Addr /\ d_zombies \subseteq Addr /\ zombies \subseteq Addr
  /\ d_maxedOut \in Seq(Addr) /\ IsInjective(d_maxedOut)
  /\ attr \in [Addr -> Addr \cup {None}] /\ held \in [Addr -> 0 .. MaxHeld]
  /\ todo \in Seq(Addr)
  /\ builder = None \/ builder \in [kind : Kind, kids : Seq(Addr)]
  /\ result = None \/ result \in [place : Places, key : Addr, nv : Addr]
  /\ phase \in {"open", "sort", "force", "gone"} /\ topo.order \in Seq(Addr)

\* The children that are a: the parent, and the place among its children.
Uses(a) == UNION {{p} \X At(a, mem[p].kids) : p \in Live}

InBuilder(a) == IF builder = None THEN 0 ELSE Times(a, builder.kids)

\* The counted references to a.
References(a) ==
  held[a] + Times(a, todo) + InBuilder(a) + Cardinality(Keys(a)) + Cardinality(Uses(a))

\* Nothing points to a NodeValue that has been freed: no Node of a client, no
\* child of another NodeValue, no builder, no key or value of an attribute, none
\* of the manager's own lists, and not the result of an operation that has given
\* up references, and so may have started a collection, before it takes its own.
NoDangling ==
  /\ \A a \in Addr : held[a] > 0 => a \in Live
  /\ \A a \in Live : Range(mem[a].kids) \subseteq Live
  /\ \A a \in Addr : attr[a] # None => a \in Live /\ attr[a] \in Live
  /\ Range(todo) \subseteq Live
  /\ builder # None => Range(builder.kids) \subseteq Live
  /\ result # None => result.key \in Live /\ result.nv \in Live
  /\ d_zombies \cup zombies \cup pool \subseteq Live
  /\ Range(d_maxedOut) \cup Range(topo.order) \subseteq Live

\* d_rc is the number of references until it is full; from then on the value is
\* listed in d_maxedOut and keeps a full count until the destructor forces it.
CountsRight ==
  \A a \in Live :
    IF a \in Range(d_maxedOut) \cup Range(topo.order) THEN Rc(mem, a) = MaxRc
    ELSE Rc(mem, a) = References(a) \/ (phase = "force" /\ Rc(mem, a) = 0)

\* The references and their counts are right together.
ReferencesRight == NodesTypeOK /\ NoDangling /\ CountsRight

\* Equal expressions share one NodeValue, zombies included: a comparison of two
\* Nodes by address is a comparison of the expressions.
HashConsed ==
  \A a, b \in Live : /\ a # b /\ mem[a].kind \notin Variable
                     => mem[a].kind # mem[b].kind \/ mem[a].kids # mem[b].kids

\* No garbage is lost: a value that nothing refers to waits for collection, or is
\* about to be returned to a client.
NothingLost ==
  \A a \in Live : Rc(mem, a) = 0 => \/ a \in d_zombies \cup zombies
                                    \/ result # None /\ result.nv = a

\* When the destructor ends, all memory has been freed.
AllFreed == phase = "gone" => Live = {} /\ pool = {}

\* Collection takes what it must, and no more.
CollectionRight == HashConsed /\ NothingLost /\ AllFreed
=============================================================================
