---------------------- MODULE CommandExecutorPortfolio ----------------------
(***************************************************************************)
(* How the portfolio keeps its engines in step                             *)
(* (main/command_executor_portfolio.cpp).  A query is raced by all         *)
(* engines; any other command is run by the winner of the last race only,  *)
(* and saved in d_seq for the others, which run it before their next       *)
(* query.  A race is one step here (its threads are the subject of         *)
(* Portfolio); all threads are joined before it ends.                      *)
(***************************************************************************)
EXTENDS Naturals, Sequences

CONSTANTS d_numThreads, \* the engines are 0..d_numThreads-1
          Statuses,     \* what a command may come to: "success", "unsupported"
          MaxCommands   \* bound: the length of the script

EnginesAssumption == d_numThreads \in Nat \ {0, 1}
StatusAssumption == Statuses \subseteq {"success", "unsupported"} /\ MaxCommands \in Nat

Engines == 0..(d_numThreads - 1)

VARIABLES
  d_seq,        \* the commands that all engines but the last winner have to run
  d_lastWinner, \* the engine that answered the last query
  ran,          \* ran[i]: the commands that engine i has run
  script,       \* the commands that were read, but for the get-... commands
  asked         \* history: at the last get-..., what its engine had run, and the script

executorVars == <<d_seq, d_lastWinner, ran, script, asked>>

\* A command is its place in the script, its kind and what it comes to.
Command(kind, status) == [place |-> Len(script) + 1, kind |-> kind, status |-> status]

ExecutorInit ==
  /\ d_seq = << >> /\ d_lastWinner = 0
  /\ ran = [i \in Engines |-> << >>]
  /\ script = << >> /\ asked = [ran |-> << >>, script |-> << >>]

Reads(cmd) == Len(script) < MaxCommands /\ script' = Append(script, cmd)

\* CommandSequence::invoke: a command that does not succeed ends the sequence.
Invoked(seq) ==
  LET stops == {k \in DOMAIN seq : seq[k].status # "success"}
  IN  IF stops = {} THEN seq
      ELSE SubSeq(seq, 1, CHOOSE k \in stops : \A j \in stops : k <= j)

\* mode 0: run by the last winner, saved for the others.
mode0(cmd) ==
  /\ Reads(cmd)
  /\ d_seq' = Append(d_seq, cmd)
  /\ ran' = [ran EXCEPT ![d_lastWinner] = Append(@, cmd)]
  /\ UNCHANGED <<d_lastWinner, asked>>

\* Faulty variant of Seqs: all engines are given the whole sequence.
SeqsAll(cmd) == [i \in Engines |-> Append(d_seq, cmd)]

\* What the engines are given for a race: the last winner has run the rest.
Seqs(cmd) == [i \in Engines |-> IF i = d_lastWinner THEN <<cmd>> ELSE Append(d_seq, cmd)]

\* mode 1: the race.  Any engine may come first.
mode1(cmd) ==
  /\ Reads(cmd)
  /\ ran' = [i \in Engines |-> ran[i] \o Invoked(Seqs(cmd)[i])]
  /\ d_lastWinner' \in Engines
  /\ d_seq' = << >>
  /\ UNCHANGED asked

\* mode 2: get-value and the like, put to the last winner.
mode2 ==
  /\ asked' = [ran |-> ran[d_lastWinner], script |-> script]
  /\ UNCHANGED <<d_seq, d_lastWinner, ran, script>>

ExecutorNext == \/ \E s \in Statuses : mode0(Command("other", s))
        \/ mode1(Command("query", "success"))
        \/ mode2

ExecutorSpec == ExecutorInit /\ [][ExecutorNext]_executorVars

-----------------------------------------------------------------------------
IsCommand(c) == /\ c.place \in 1..MaxCommands
                /\ c.kind \in {"other", "query"} /\ c.status \in Statuses \cup {"success"}

ExecutorTypeOK ==
  /\ d_lastWinner \in Engines
  /\ DOMAIN ran = Engines
  /\ \A s \in {d_seq, script, asked.ran} \cup {ran[i] : i \in Engines} :
        \A k \in DOMAIN s : IsCommand(s[k])

\* Every engine runs every command once and in order: what an engine has run,
\* followed by what is saved for it, is the script.  The answer to a query is
\* then the same whichever thread wins, the winner has run the query, and a
\* get-value is answered by an engine that has run the whole script.
EnginesInStep ==
  /\ ExecutorTypeOK
  /\ \A i \in Engines : ran[i] \o (IF i = d_lastWinner THEN << >> ELSE d_seq) = script
  /\ asked.ran = asked.script
=============================================================================
