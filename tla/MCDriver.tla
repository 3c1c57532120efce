------------------------------ MODULE MCDriver ------------------------------
(***************************************************************************)
(* The models of the driver (src/main and util/channel.h) on small         *)
(* instances. A behaviour is one of one part; the others stay in their     *)
(* initial states.                                                         *)
(*   channel    two threads at each end of a SharedChannel                 *)
(*   pair       its use in the portfolio: one writer, one reader           *)
(*   leave      Portfolio: two threads share up to two lemmas each; only   *)
(*              the first one's query ends by itself, and main does not    *)
(*              wait for the threads to join                               *)
(*   quiet      two threads that share nothing, main waits for them        *)
(*   executor   CommandExecutorPortfolio with three engines                *)
(*   tear_down  scripts under --tear-down-incremental=2                    *)
(***************************************************************************)
EXTENDS SharedChannel, Portfolio, CommandExecutorPortfolio

CONSTANTS p1, p2, c1, c2

VARIABLES part, allCommands, needReset, engine, read, opened, length \* DriverTearDown

tearDownVars == <<allCommands, needReset, engine, read, opened, length>>

\* The part leave is the Portfolio of the cfg.
Quiet == INSTANCE Portfolio WITH optionWaitToJoin <- TRUE, MaxLemmas <- 0, Finishing <- {0, 1}
TearDown == INSTANCE DriverTearDown WITH
          Formulas <- {"a", "b"}, tearDownIncremental <- 2, Mixed <- FALSE, MaxCommands <- 7,
          script <- read

ASSUME WorkersAssumption /\ OptionsAssumption /\ SharingAssumption
ASSUME Quiet!OptionsAssumption /\ Quiet!SharingAssumption
ASSUME EnginesAssumption /\ StatusAssumption
ASSUME TearDown!OptionAssumption /\ TearDown!ScriptAssumption

PairNext == ProducerStep(p1) \/ ConsumerStep(c1) \/ WakesAlone(p1) \/ WakesAlone(c1)
PairFairness == WF_vars(pc[p1] # "out" /\ ProducerStep(p1)) /\ WF_vars(ConsumerStep(c1))

DriverInit ==
  /\ part \in {"channel", "pair", "executor", "tear_down", "leave", "quiet"}
  /\ Init /\ RaceInit /\ ExecutorInit /\ TearDown!Init

ChannelStep ==
  /\ (part = "channel" /\ Next) \/ (part = "pair" /\ PairNext)
  /\ UNCHANGED <<part, raceVars, executorVars, tearDownVars>>

RaceStep ==
  /\ (part = "quiet" /\ Quiet!RaceNext) \/ (part = "leave" /\ RaceNext)
  /\ UNCHANGED <<part, vars, executorVars, tearDownVars>>

ExecutorStep ==
  /\ part = "executor" /\ ExecutorNext
  /\ UNCHANGED <<part, vars, raceVars, tearDownVars>>

TearDownStep ==
  /\ part = "tear_down" /\ TearDown!Next
  /\ UNCHANGED <<part, vars, raceVars, executorVars>>

DriverNext == ChannelStep \/ RaceStep \/ ExecutorStep \/ TearDownStep

driverVars == <<part, vars, raceVars, executorVars, tearDownVars>>

DriverSpec == DriverInit /\ [][DriverNext]_driverVars
-----------------------------------------------------------------------------
\* The engine holds the assertions of the script, each at its level.
SameStack == TearDown!SameStack

\* Waiting ends: push() on a full channel returns as long as the other end is
\* read; main returns from a race of threads that share nothing, and from any race
\* if it does not wait for the threads to join.
WaitingEnds ==
  /\ part = "pair" /\ PairFairness => PushReturns
  /\ part = "quiet" /\ Quiet!RaceFairness => MainReturns
  /\ part = "leave" /\ RaceFairness => MainReturns
-----------------------------------------------------------------------------
\* A race of two threads that share lemmas, where main waits for them: see README.md.
Blocked == INSTANCE Portfolio WITH optionWaitToJoin <- TRUE, Finishing <- {0, 1}

BlockedStep ==
  /\ Blocked!RaceNext
  /\ UNCHANGED <<part, vars, executorVars, tearDownVars>>

BlockedSpec ==
  /\ part = "blocked" /\ Init /\ RaceInit /\ ExecutorInit /\ TearDown!Init
  /\ [][BlockedStep]_driverVars
  /\ Blocked!RaceFairness

\* runPortfolio returns once a thread has won.
BlockedReturns == MainReturns
=============================================================================
