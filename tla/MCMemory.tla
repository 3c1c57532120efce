------------------------------ MODULE MCMemory ------------------------------
(***************************************************************************)
(* The memory of contexts and the memory of terms. A behaviour is one of   *)
(* one part; the other stays in its initial state.                         *)
(*   context    ContextMemoryManager: chunks of three units, a free list   *)
(*              of one                                                     *)
(*   chain      NodeManager: terms x, f(x), g(f(x)) with attributes on g,  *)
(*              and a destructor that finds full counts                    *)
(*   and        NodeManager: variables v, and(v, v) with attributes on it; *)
(*              the destructor is called when no count is full             *)
(***************************************************************************)
EXTENDS ContextMemoryManager, NodeManager

VARIABLE part

ASSUME NodeManagerAssumption

KindsOf == [chain |-> {"x", "f", "g"}, and |-> {"v", "and"}]

Kinds == UNION {KindsOf[p] : p \in DOMAIN KindsOf}
Shapes == [k \in Kinds |-> CASE k \in {"x", "v"} -> <<>>
                             [] k = "f" -> <<"x">>
                             [] k = "g" -> <<"f">>
                             [] k = "and" -> <<"v", "v">>]

MemoryInit == part \in {"context", "chain", "and"} /\ Init /\ NodesInit

\* The sort is wrong about a value that is a child twice (node_manager.cpp:388).
NodesStep ==
  /\ NodesNext
  /\ builder' # None => builder'.kind \in KindsOf[part]
  /\ part = "and" /\ phase' # "open" => d_maxedOut' = <<>>

MemoryNext ==
  \/ part = "context" /\ Next /\ UNCHANGED <<part, vars>>
  \/ part # "context" /\ NodesStep /\ UNCHANGED <<part, mmvars>>

MemorySpec == MemoryInit /\ [][MemoryNext]_<<part, mmvars, vars>>

Symmetry == Permutations(Chunk) \cup Permutations(Addr)
=============================================================================
