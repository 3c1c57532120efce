------------------------------ MODULE SmtEngine ------------------------------
(***************************************************************************)
(* The assertion stack of SmtEngine (src/smt/smt_engine.cpp): commands of  *)
(* the user, the queue of assertions that are not preprocessed yet, the    *)
(* user context, the levels of the SAT solver, and the pops that are       *)
(* deferred so that the model of the last check can still be read.         *)
(*                                                                         *)
(* Preprocessing is the identity on formulas, which are opaque: what       *)
(* matters is where a formula ends up and when it leaves.  Commands run    *)
(* to their end, and are one action per way in which they may end.         *)
(***************************************************************************)
EXTENDS Naturals, Sequences

CONSTANTS
  Formulas,
  NoFormula,      \* the argument of a plain check-sat
  Sessions,       \* what runs of the engine are like, see the variable session
  MaxPushes,      \* bound on the depth of the user's pushes
  MaxLevels       \* bound on the levels, of which exceptions leave some open

EngineAssumption ==
  /\ NoFormula \notin Formulas
  /\ \A s \in Sessions :
       /\ s.incremental \in BOOLEAN /\ s.resets \in BOOLEAN
       /\ s.queries \subseteq Formulas \cup {NoFormula}
       /\ s.faults \subseteq {"refused", "thrown"}
  /\ MaxPushes \in Nat /\ MaxLevels \in Nat

VARIABLES
  session,   \* the options, and what the run meets; it does not change
  smt,       \* the fields of SmtEngine, the contexts and the SAT solver
  stack,     \* history: what the user has asserted, by push
  asked,     \* history: what the last check that was answered was about
  decided,   \* history: what the SAT solver held when it answered
  extended   \* history: something was asserted, pushed or popped since then

vars == <<session, smt, stack, asked, decided, extended>>
history == <<stack, asked, decided, extended>>

Incremental == session.incremental   \* --incremental
Queries == session.queries           \* the arguments of checks, NoFormula or formulas
Resets == session.resets             \* whether the user resets the assertions
\* "refused": a cumulative limit is spent when a check begins; "thrown": a hard limit
\* throws while a command works.
Faults == session.faults
-----------------------------------------------------------------------------
Top(seq) == seq[Len(seq)]
AddToTop(seq, set) == [seq EXCEPT ![Len(seq)] = @ \cup set]
Prefix(seq, n) == SubSeq(seq, 1, n)
All(seq) == UNION {seq[i] : i \in 1..Len(seq)}

\* After finishInit: one level of the user context around everything.  The levels
\* of the SAT solver follow the user context.
Fresh ==
  [sat |-> << {} >>,              \* the formulas given to the SAT solver, by level
   d_assertionList |-> << {} >>,  \* the list on the user context, by level
   d_assertions |-> {},           \* the queue of SmtEnginePrivate
   d_userLevels |-> << >>,
   d_pendingPops |-> 0,
   d_status |-> "none",
   d_problemExtended |-> FALSE,
   d_queryMade |-> FALSE,
   d_needPostsolve |-> FALSE,
   presolved |-> FALSE,           \* the theories are between presolve and postsolve
   asserts |-> TRUE]              \* no assertion in the code has failed

getLevel(e) == Len(e.d_assertionList)

doPendingPops(e) ==
  [e EXCEPT !.sat = Prefix(@, Len(@) - e.d_pendingPops),
            !.d_assertionList = Prefix(@, Len(@) - e.d_pendingPops),
            !.d_pendingPops = 0]

processAssertions(e) ==
  [e EXCEPT !.asserts = @ /\ e.d_pendingPops = 0,
            !.sat = AddToTop(@, e.d_assertions),
            !.d_assertions = {}]

\* Faulty variant of Throws: the queue is cleared.
ThrowsClears(e, some) == [e EXCEPT !.sat = AddToTop(@, some), !.d_assertions = {}]

\* A hard limit throws in processAssertions: some formulas have reached the SAT
\* solver, and the queue is not cleared.
Throws(e, some) ==
  [e EXCEPT !.asserts = @ /\ e.d_pendingPops = 0, !.sat = AddToTop(@, some)]

postsolve(e) ==
  IF e.d_needPostsolve THEN [e EXCEPT !.d_needPostsolve = FALSE, !.presolved = FALSE] ELSE e

internalPush(e) ==
  LET e1 == processAssertions(doPendingPops(e)) IN
  IF ~Incremental THEN doPendingPops(e)
  ELSE [e1 EXCEPT !.sat = Append(@, {}), !.d_assertionList = Append(@, {})]

internalPop(e) == [e EXCEPT !.d_pendingPops = IF Incremental THEN @ + 1 ELSE 0]

\* The loop of pop(): the first round also performs the pops that were pending.
PopToUserLevel(e) ==
  LET e1 == doPendingPops(internalPop(e))
      n  == Top(e.d_userLevels)
  IN  IF Top(e.d_userLevels) >= getLevel(e1) THEN e1
      ELSE [e1 EXCEPT !.sat = Prefix(@, n), !.d_assertionList = Prefix(@, n)]

notifyPop(e) == [e EXCEPT !.d_assertions = {}]

addFormula(e, f) ==
  [e EXCEPT !.d_assertions = @ \cup {f}, !.d_assertionList = AddToTop(@, {f})]
-----------------------------------------------------------------------------
Init ==
  /\ session \in Sessions
  /\ smt = Fresh
  /\ stack = << {} >>
  /\ asked = {} /\ decided = {}
  /\ extended = TRUE

assertFormula(f) ==
  /\ smt' = addFormula(doPendingPops(smt), f)
  /\ stack' = AddToTop(stack, {f})
  /\ extended' = TRUE
  /\ UNCHANGED <<asked, decided>>

\* checkSatisfiability up to the call of check(), with the level of its own.
Prepared(q) ==
  LET e == internalPush(postsolve(doPendingPops(smt))) IN
  IF q = NoFormula THEN [e EXCEPT !.d_queryMade = TRUE]
  ELSE [addFormula(e, q) EXCEPT !.d_queryMade = TRUE, !.d_problemExtended = TRUE]

\* Several checks need incremental mode; otherwise a ModalException is thrown.
MayCheck == smt.d_queryMade => Incremental

\* What checkSatisfiability does with the result of check().
Finished(e, result) ==
  [internalPop([e EXCEPT !.d_needPostsolve = TRUE])
     EXCEPT !.d_status = result, !.d_problemExtended = FALSE]

\* query() and checkSat() are answered.
checkSat(q, result) ==
  LET e == processAssertions(Prepared(q)) IN
  /\ MayCheck
  /\ smt' = Finished([e EXCEPT !.asserts = @ /\ Prepared(q).d_pendingPops = 0,
                               !.presolved = TRUE], result)
  /\ asked' = All(stack) \cup ({q} \ {NoFormula})
  /\ decided' = All(e.sat)
  /\ extended' = FALSE
  /\ UNCHANGED stack

\* A check that check() refuses since there is nothing left to spend.
checkSatRefused(q) ==
  /\ "refused" \in Faults
  /\ MayCheck
  /\ smt' = Finished(Prepared(q), "unknown")
  /\ extended' = FALSE
  /\ UNCHANGED <<stack, asked, decided>>

\* An UnsafeInterruptException ends a check: while the queue is processed before
\* the level of the check is opened, or behind that, or in the search.  The catch
\* in checkSatisfiability returns; the level stays open.
checkSatThrown(q) ==
  LET e1 == postsolve(doPendingPops(smt))
      e2 == Prepared(q)
  IN
  /\ "thrown" \in Faults
  /\ MayCheck
  /\ getLevel(e1) < MaxLevels
  /\ \/ /\ Incremental
        /\ \E some \in SUBSET e1.d_assertions : smt' = Throws(e1, some)
     \/ \E some \in SUBSET e2.d_assertions : smt' = Throws(e2, some)
     \/ smt' = [processAssertions(e2) EXCEPT !.presolved = TRUE]
  /\ UNCHANGED history

\* Faulty variant of push: the pops are left to internalPush.
pushPending ==
  LET e == postsolve(processAssertions(smt)) IN
  /\ Incremental
  /\ Len(stack) <= MaxPushes
  /\ smt' = internalPush([e EXCEPT !.d_problemExtended = TRUE,
                                   !.d_userLevels = Append(@, getLevel(e) - e.d_pendingPops)])
  /\ stack' = Append(stack, {})
  /\ extended' = TRUE
  /\ UNCHANGED <<asked, decided>>

push ==
  LET e == postsolve(processAssertions(doPendingPops(smt))) IN
  /\ Incremental
  /\ Len(stack) <= MaxPushes
  /\ smt' = internalPush([e EXCEPT !.d_problemExtended = TRUE,
                                   !.d_userLevels = Append(@, getLevel(e))])
  /\ stack' = Append(stack, {})
  /\ extended' = TRUE
  /\ UNCHANGED <<asked, decided>>

\* push() out of incremental mode is an error, but has processed the queue.
pushModal ==
  /\ ~Incremental
  /\ smt' = processAssertions(doPendingPops(smt))
  /\ UNCHANGED history

Popped(e) ==
  LET e1 == notifyPop(PopToUserLevel([postsolve(e) EXCEPT !.d_problemExtended = TRUE])) IN
  [e1 EXCEPT !.d_userLevels = Prefix(@, Len(@) - 1),
             !.asserts = @ /\ Top(e.d_userLevels) < getLevel(e)]

\* pop() does not call doPendingPops first.  Without a level to pop it throws.
pop ==
  /\ Incremental
  /\ smt.d_userLevels # << >>
  /\ smt' = Popped(smt)
  /\ stack' = Prefix(stack, Len(stack) - 1)
  /\ extended' = TRUE
  /\ UNCHANGED <<asked, decided>>

\* simplify() processes the queue.
simplify ==
  /\ smt' = processAssertions(doPendingPops(smt))
  /\ UNCHANGED history

\* push() or simplify() thrown out of.
WorkThrown ==
  LET e == doPendingPops(smt) IN
  /\ "thrown" \in Faults
  /\ \E some \in SUBSET e.d_assertions : smt' = Throws(e, some)
  /\ UNCHANGED history

\* getAssertions, defineFunction, declarations, expandDefinitions, addToAssignment:
\* of the state here they change the pending pops only.
Touch ==
  /\ smt' = doPendingPops(smt)
  /\ UNCHANGED history

\* resetAssertions pops the user's levels, then both contexts to the bottom; the
\* clauses of the SAT solver and the queue are left alone.
PoppedAll(e) ==
  IF e.d_userLevels = << >> THEN e
  ELSE [notifyPop(postsolve(e)) EXCEPT
          !.sat = Prefix(@, Head(e.d_userLevels)),
          !.d_assertionList = Prefix(@, Head(e.d_userLevels)),
          !.d_pendingPops = 0, !.d_userLevels = << >>, !.d_problemExtended = TRUE]

resetAssertions ==
  LET e == PoppedAll(smt) IN
  /\ Resets
  /\ smt' = [e EXCEPT !.asserts = @ /\ getLevel(e) = 1, !.d_assertionList = << {} >>]
  /\ stack' = << {} >>
  /\ extended' = TRUE
  /\ UNCHANGED <<asked, decided>>

\* reset() destroys the engine and constructs a new one.
reset ==
  /\ smt' = Fresh
  /\ stack' = << {} >>
  /\ asked' = {} /\ decided' = {}
  /\ extended' = TRUE

Command ==
  \/ \E f \in Formulas : assertFormula(f)
  \/ \E q \in Queries :
       \/ \E result \in {"sat", "unsat", "unknown"} : checkSat(q, result)
       \/ checkSatRefused(q)
       \/ checkSatThrown(q)
  \/ push
  \/ pushModal
  \/ pop
  \/ simplify
  \/ WorkThrown
  \/ Touch
  \/ resetAssertions
  \/ reset

Next == Command /\ UNCHANGED session

Spec == Init /\ [][Next]_vars
-----------------------------------------------------------------------------
EngineStates ==
  [sat : Seq(SUBSET Formulas), d_assertionList : Seq(SUBSET Formulas),
   d_assertions : SUBSET Formulas, d_userLevels : Seq(Nat),
   d_pendingPops : Nat, d_status : {"none", "sat", "unsat", "unknown"},
   d_problemExtended : BOOLEAN, d_queryMade : BOOLEAN,
   d_needPostsolve : BOOLEAN, presolved : BOOLEAN, asserts : BOOLEAN]

TypeOK ==
  /\ session \in Sessions
  /\ smt \in EngineStates
  /\ stack \in Seq(SUBSET Formulas)
  /\ asked \subseteq Formulas /\ decided \subseteq Formulas
  /\ extended \in BOOLEAN

\* What the engine holds for the user, once the pending pops are done.
Kept(seq) == All(Prefix(seq, Len(seq) - smt.d_pendingPops))

\* Every check is about what the user has asserted and not popped, and the formula
\* that is checked: pops may be late and preprocessing lazy, but the SAT solver
\* holds neither more nor less when it answers.  (After resetAssertions it holds
\* more, see README.md.)
AnswersAboutAssertions == Resets \/ decided = asked

\* In between too: in incremental mode what is with the SAT solver or waits in the
\* queue is what the user has asserted and not popped, and getAssertions() returns
\* the same: the list is never extended while a pop is pending.
HeldIsAsserted ==
  Incremental /\ ~Resets =>
  /\ Kept(smt.d_assertionList) = All(stack)
  /\ Faults = {} => Kept(smt.sat) \cup smt.d_assertions = All(stack)

\* The levels that pop() goes back to exist, and the user context and the SAT
\* solver move together; a level left open by an exception is popped with the
\* level of the user around it.
LevelsMatch ==
  smt.asserts =>
  /\ Len(smt.sat) = getLevel(smt)
  /\ Len(smt.d_userLevels) = Len(stack) - 1
  /\ \A i \in 1..Len(smt.d_userLevels) :
       /\ smt.d_userLevels[i] < getLevel(smt) - smt.d_pendingPops
       /\ i > 1 => smt.d_userLevels[i - 1] < smt.d_userLevels[i]

\* No assertion of the code fails: the pending pops are done before the queue is
\* processed and before a check, and pop() finds a level to pop.  The assertion of
\* resetAssertions does fail, see README.md.
NoAssertFails == Resets \/ smt.asserts

\* The theories get one postsolve for each check that has run, and before the next.
PostsolveOnce == Faults = {} => smt.presolved = smt.d_needPostsolve

\* The engine, its context and the SAT solver agree between commands, whatever
\* pops are pending and whatever an exception has left behind.
EngineInStep == TypeOK /\ HeldIsAsserted /\ LevelsMatch /\ NoAssertFails /\ PostsolveOnce
=============================================================================
