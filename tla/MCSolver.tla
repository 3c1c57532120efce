------------------------------ MODULE MCSolver ------------------------------
(***************************************************************************)
(* Small problems for Solver.                                              *)
(***************************************************************************)
EXTENDS Solver

(* An atom that comes from the theories only, lemmas that are sent when    *)
(* atoms are registered, restarts and clean-ups.                           *)
Lemmas ==
  [input |-> {{1, 2}}, theory |-> {{-1, 3}, {2, -3}}, removable |-> {{2, -3}},
   levels |-> 1, checks |-> 0, restarts |-> TRUE, registering |-> TRUE, interrupts |-> FALSE]

(* One more clause, without restarts, for termination; with checks that    *)
(* are given up, and with both lemmas at registration and interrupts.      *)
Ends == [Lemmas EXCEPT !.input = {{1, 2}, {-1, -2}}, !.restarts = FALSE]
Interrupted == [Ends EXCEPT !.registering = FALSE, !.interrupts = TRUE]
Pending == [Ends EXCEPT !.interrupts = TRUE]

(* Two user levels, a removable lemma that propagates at decision level 0, *)
(* or is false there.                                                      *)
Units ==
  [input |-> {{-1, 2}, {1}, {3}}, theory |-> {{-1, -2, -3}}, removable |-> {{-1, -2, -3}},
   levels |-> 2, checks |-> 1, restarts |-> TRUE, registering |-> FALSE, interrupts |-> FALSE]

(* A conflict over two decision levels, from which a binary clause is      *)
(* learnt.                                                                 *)
Learn ==
  [input |-> {{-1, -2, 3}, {-1, -2, -3}, {1}}, theory |-> {{-1, 2}}, removable |-> {{-1, 2}},
   levels |-> 1, checks |-> 1, restarts |-> FALSE, registering |-> FALSE, interrupts |-> FALSE]

(* A learnt clause from which litRedundant removes a literal.              *)
Minimise ==
  [Learn EXCEPT !.input = {{-1, 2, -3}, {-1, -2, -4}, {-4, 3}}, !.theory = {}, !.removable = {}]

SearchProblems == {Lemmas, Ends, Interrupted, Units}
LearnProblems == {Learn, Minimise}
PendingProblems == {Pending}

\* Every check ends (Solver.cc:1260), if the search does not restart at will and the
\* theories do not send for ever a lemma that is a unit at decision level 0.
ChecksEnd == (problem = Ends) /\ Fairness => SolveEnds
=============================================================================
