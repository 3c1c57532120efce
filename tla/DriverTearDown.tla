--------------------------- MODULE DriverTearDown ---------------------------
(***************************************************************************)
(* The command loop of the driver under --tear-down-incremental=N          *)
(* (main/driver_unified.cpp): push, pop and repeated queries are had by    *)
(* destroying the SmtEngine every N queries and giving a new one the       *)
(* commands that are still in force, which allCommands keeps, one list per *)
(* open level.  The engine is the stack of assertions that its commands    *)
(* make; no command fails.                                                 *)
(***************************************************************************)
EXTENDS Naturals, Sequences, SequencesExt

CONSTANTS Formulas,           \* what can be asserted
          tearDownIncremental,\* N
          Mixed,              \* whether a (pop k) may close other than one (push k)
          MaxCommands         \* bound: the length of the script

OptionAssumption == tearDownIncremental \in Nat \ {0}
ScriptAssumption == Mixed \in BOOLEAN /\ MaxCommands \in Nat

VARIABLES
  allCommands, \* the commands to replay: a list for every open level
  needReset,   \* the queries that the driver has counted
  engine,      \* the assertions of the engine, a list for every open level
  script,      \* the assertions that the script has made and not popped
  opened,      \* the arguments of the script's open pushes
  length       \* how many commands the script has had

vars == <<allCommands, needReset, engine, script, opened, length>>

NewEngine == << << >> >>

\* What one command does to a stack of assertions.
Effect(stack, cmd) ==
  CASE cmd = "push" -> Append(stack, << >>)
    [] cmd = "push 2" -> stack \o << << >>, << >> >>
    [] cmd = "pop" -> Front(stack)
    [] cmd = "pop 2" -> Front(Front(stack))
    [] OTHER -> [stack EXCEPT ![Len(stack)] = Append(@, cmd)]

\* pExecutor->reset() and the two loops that clone and run allCommands.
Replayed(commands) == FoldLeft(Effect, NewEngine, FlattenSeq(commands))

Init ==
  /\ allCommands = << << >> >> /\ needReset = 0
  /\ engine = NewEngine
  /\ script = NewEngine /\ opened = << >> /\ length = 0

Reads(cmd) ==
  /\ length < MaxCommands /\ length' = length + 1
  /\ script' = Effect(script, cmd)

Opens(k) == opened' = Append(opened, k)
Closes(k) == /\ Len(script) > k
             /\ Mixed \/ Last(opened) = k
             /\ opened' = IF opened = << >> THEN opened ELSE Front(opened)

Due == needReset >= tearDownIncremental

\* allCommands.back().push_back(cmd->clone())
Recorded(commands, cmd) == [commands EXCEPT ![Len(commands)] = Append(@, cmd)]

PushCommand ==
  /\ Reads("push") /\ Opens(1)
  /\ LET e == IF Due THEN Replayed(allCommands) ELSE engine
     IN  engine' = Effect(e, "push")
  /\ needReset' = IF Due THEN 0 ELSE needReset
  /\ allCommands' = Recorded(Append(allCommands, << >>), "push")

\* Faulty variant of PopCommand: the new engine is given the pop as well.
PopCommandTwice ==
  /\ Closes(1) /\ Reads("pop")
  /\ allCommands' = Front(allCommands)
  /\ LET e == IF Due THEN Replayed(Front(allCommands)) ELSE engine
     IN  engine' = IF Len(e) > 1 THEN Effect(e, "pop") ELSE e
  /\ needReset' = IF Due THEN 0 ELSE needReset

\* A new engine is made without the popped level; an old one is popped.
PopCommand ==
  /\ Closes(1) /\ Reads("pop")
  /\ allCommands' = Front(allCommands)
  /\ engine' = IF Due THEN Replayed(Front(allCommands)) ELSE Effect(engine, "pop")
  /\ needReset' = IF Due THEN 0 ELSE needReset

\* The query itself is not recorded.
CheckSatCommand ==
  /\ length < MaxCommands /\ length' = length + 1
  /\ engine' = IF Due THEN Replayed(allCommands) ELSE engine
  /\ needReset' = IF Due THEN 0 ELSE needReset + 1
  /\ UNCHANGED <<allCommands, script, opened>>

ResetCommand ==
  /\ length < MaxCommands /\ length' = length + 1
  /\ allCommands' = << << >> >>
  /\ engine' = NewEngine
  /\ script' = NewEngine /\ opened' = << >>
  /\ UNCHANGED needReset

\* Any other command is recorded and run.  (push 2) is one of them: the parser
\* makes a CommandSequence of it, which is not a PushCommand.
OtherCommand(cmd) ==
  /\ allCommands # << >>
  /\ Reads(cmd)
  /\ allCommands' = Recorded(allCommands, cmd)
  /\ engine' = Effect(engine, cmd)
  /\ UNCHANGED needReset

AssertCommand == \E f \in Formulas : OtherCommand(f) /\ UNCHANGED opened
PushTwo == OtherCommand("push 2") /\ Opens(2)
PopTwo == Closes(2) /\ OtherCommand("pop 2")

Next == \/ PushCommand \/ PopCommand \/ CheckSatCommand \/ ResetCommand
        \/ AssertCommand \/ PushTwo \/ PopTwo

Spec == Init /\ [][Next]_vars

-----------------------------------------------------------------------------
Stacks == Seq(Seq(Formulas))

TypeOK ==
  /\ allCommands \in Seq(Seq(Formulas \cup {"push", "push 2", "pop 2"}))
  /\ needReset \in 0..tearDownIncremental
  /\ engine \in Stacks /\ script \in Stacks
  /\ opened \in Seq({1, 2}) /\ length \in 0..MaxCommands

\* Tearing the engine down is not noticed: the engine that answers a query
\* holds the assertions that the script has made and not popped, each at its
\* level; and at every point of the script the recorded commands are what a
\* new engine would have to be given.
SameStack == TypeOK /\ engine = script /\ Replayed(allCommands) = script
=============================================================================
