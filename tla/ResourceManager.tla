--------------------------- MODULE ResourceManager ---------------------------
(***************************************************************************)
(* The limits on time and resources (src/util/resource_manager.{h,cpp})    *)
(* and how a check obeys them: SmtEngine::check, PropEngine::checkSat and  *)
(* Solver::solve_, which call the manager, and the interruption that it    *)
(* causes through the soft listener.                                       *)
(*                                                                         *)
(* The manager is one record rm; its operations are functions on such      *)
(* records, composed in the order of the code.  Time is a number of ticks  *)
(* on two clocks, wall and CPU; the CPU clock may stand while the wall     *)
(* clock goes.  A limit of 0 means that there is none.                     *)
(***************************************************************************)
EXTENDS Naturals

CONSTANTS
  CumulativeUnits, PerCallUnits,      \* the resource limits that users set
  CumulativeMillis, PerCallMillis,    \* the time limits that users set
  Amount,             \* what a step spends
  satConflictStep,    \* what Solver::withinBudget spends
  MaxUsed,            \* bound on the resources spent in all; the tests of a search
                      \* that stops may go beyond it
  MaxTime,            \* bound on the clocks
  HardLimits, CpuTimes   \* the values of --hard-limit and --cpu-time

LimitAssumption ==
  /\ CumulativeUnits \cup PerCallUnits \subseteq Nat
  /\ CumulativeMillis \cup PerCallMillis \subseteq Nat
  /\ Amount \subseteq Nat \ {0} /\ satConflictStep \in Amount
  /\ {MaxUsed, MaxTime} \subseteq Nat
  /\ HardLimits \cup CpuTimes \subseteq BOOLEAN

VARIABLES
  now,                \* [wall, cpu]
  rm,                 \* the fields of ResourceManager
  asynch_interrupt,   \* the flag of the SAT solver
  pc,                 \* "user"; in a check "process", "search", "again", "last";
                      \* "thrown", and "failed" for an assertion that does not hold
  answer,             \* of the last check
  hist                \* what was asked for and what was really used, see ManagerInit

managerVars == <<now, rm, asynch_interrupt, pc, answer, hist>>
-----------------------------------------------------------------------------
(* Timer *)

Off == [d_ms |-> 0, clock |-> "wall", limit |-> 0]

\* Timer::set
TimerSet(ms, wallTime) ==
  LET clock == IF wallTime THEN "wall" ELSE "cpu" IN
  [d_ms |-> ms, clock |-> clock, limit |-> now[clock] + ms]

\* Timer::elapsed and Timer::expired
elapsed(timer) == now[timer.clock] - (timer.limit - timer.d_ms)
expired(timer) == timer.d_ms # 0 /\ now[timer.clock] >= timer.limit
-----------------------------------------------------------------------------
(* ResourceManager *)

Manager(hard, cpu) ==
  [d_cumulativeTimer |-> Off, d_perCallTimer |-> Off,
   d_timeBudgetCumulative |-> 0, d_timeBudgetPerCall |-> 0,
   d_resourceBudgetCumulative |-> 0, d_resourceBudgetPerCall |-> 0,
   d_cumulativeTimeUsed |-> 0, d_cumulativeResourceUsed |-> 0,
   d_thisCallResourceUsed |-> 0,
   d_thisCallTimeBudget |-> 0, d_thisCallResourceBudget |-> 0,
   d_isHardLimit |-> hard, d_on |-> FALSE, d_cpuTime |-> cpu]

setResourceLimit(r, units, cumulative) ==
  IF cumulative
    THEN LET budget == IF units = 0 THEN 0 ELSE r.d_cumulativeResourceUsed + units IN
         [r EXCEPT !.d_on = TRUE, !.d_resourceBudgetCumulative = budget,
                   !.d_thisCallResourceBudget = budget]
    ELSE [r EXCEPT !.d_on = TRUE, !.d_resourceBudgetPerCall = units]

setTimeLimit(r, millis, cumulative) ==
  IF cumulative
    THEN [r EXCEPT !.d_on = TRUE,
                   !.d_timeBudgetCumulative =
                       IF millis = 0 THEN 0 ELSE r.d_cumulativeTimeUsed + millis,
                   !.d_cumulativeTimer = TimerSet(millis, ~r.d_cpuTime)]
    ELSE [r EXCEPT !.d_on = TRUE, !.d_timeBudgetPerCall = millis]

cumulativeLimitOn(r) == r.d_timeBudgetCumulative # 0 \/ r.d_resourceBudgetCumulative # 0

outOfResources(r) ==
  /\ r.d_resourceBudgetPerCall # 0 \/ r.d_resourceBudgetCumulative # 0
  /\ r.d_thisCallResourceBudget <= r.d_thisCallResourceUsed

outOfTime(r) ==
  /\ r.d_timeBudgetPerCall # 0 \/ r.d_timeBudgetCumulative # 0
  /\ expired(r.d_cumulativeTimer) \/ expired(r.d_perCallTimer)

out(r) == r.d_on /\ (outOfResources(r) \/ outOfTime(r))

\* The bookkeeping of spendResource.
spend(r, amount) ==
  [r EXCEPT !.d_cumulativeResourceUsed = @ + amount,
            !.d_thisCallResourceUsed = IF r.d_on THEN @ + amount ELSE @]

LeftOver(budget, used) == IF budget <= used THEN 0 ELSE budget - used

\* beginCall, what is left of the cumulative limits
ResourcesLeft(r) ==
  IF r.d_resourceBudgetCumulative = 0 THEN r
  ELSE [r EXCEPT !.d_thisCallResourceBudget =
                     LeftOver(r.d_resourceBudgetCumulative, r.d_cumulativeResourceUsed)]

TimeLeft(r) ==
  IF r.d_timeBudgetCumulative = 0 THEN r
  ELSE LET used == elapsed(r.d_cumulativeTimer)
           left == LeftOver(r.d_timeBudgetCumulative, used)
       IN  [r EXCEPT !.d_cumulativeTimeUsed = used, !.d_thisCallTimeBudget = left,
                     !.d_cumulativeTimer = TimerSet(left, r.d_cpuTime)]

\* beginCall, the smaller of what is left and the limit per call
Smaller(budget, perCall) ==
  IF perCall = 0 \/ (budget < perCall /\ budget # 0) THEN budget ELSE perCall

PerCallBudgets(r) ==
  [r EXCEPT !.d_thisCallResourceBudget = Smaller(@, r.d_resourceBudgetPerCall),
            !.d_thisCallTimeBudget = Smaller(@, r.d_timeBudgetPerCall)]

\* Faulty variant of beginCall: the resources used by the last call still count.
beginCallNoReset(r) ==
  LET r1 == [r EXCEPT !.d_perCallTimer = TimerSet(r.d_timeBudgetPerCall, ~r.d_cpuTime)]
  IN  IF ~r.d_on THEN r1
      ELSE IF cumulativeLimitOn(r1) THEN TimeLeft(ResourcesLeft(r1))
      ELSE PerCallBudgets(r1)

\* ResourceManager::beginCall.  d_thisCallResourceUsed is 0 at the test for
\* being out of resources, which therefore always holds.
beginCall(r) ==
  LET r1 == [r EXCEPT !.d_perCallTimer = TimerSet(r.d_timeBudgetPerCall, ~r.d_cpuTime),
                      !.d_thisCallResourceUsed = 0]
      r2 == TimeLeft(ResourcesLeft(r1))
  IN  IF ~r.d_on THEN r1
      ELSE IF ~cumulativeLimitOn(r1) THEN PerCallBudgets(r1)
      ELSE IF r2.d_thisCallTimeBudget = 0 \/ r2.d_thisCallResourceUsed = 0 THEN r2
      ELSE PerCallBudgets(r2)

\* AlwaysAssert(d_cumulativeTimer.on()) of beginCall
BeginAsserts(r) == r.d_on /\ r.d_timeBudgetCumulative # 0 => r.d_cumulativeTimer.d_ms # 0

endCall(r) ==
  [r EXCEPT !.d_cumulativeTimeUsed = @ + elapsed(r.d_perCallTimer),
            !.d_perCallTimer = TimerSet(0, TRUE)]

\* Why a check ends without an answer: PropEngine::checkSat, SmtEngine::check
Why(r) ==
  IF outOfResources(r) THEN "resourceout" ELSE IF outOfTime(r) THEN "timeout"
  ELSE "interrupted"
-----------------------------------------------------------------------------
ManagerInit ==
  /\ now = [wall |-> 0, cpu |-> 0]
  /\ \E hard \in HardLimits, cpu \in CpuTimes : rm = Manager(hard, cpu)
  /\ asynch_interrupt = FALSE
  /\ pc = "user"
  /\ answer = "none"
  /\ hist = [units |-> 0,           \* the cumulative resource limit
             usedAtSet |-> 0,       \* resources used when it was set
             usedAtBegin |-> 0,     \* and when the last check began
             millis |-> 0,          \* the cumulative time limit
             ticks |-> 0,           \* CPU time in checks since it was set
             ticksAtBegin |-> 0,    \* the same when the last check began
             begun |-> now]         \* when the last check began

\* Time goes by.
Tick ==
  /\ now.wall < MaxTime
  /\ \E c \in {now.cpu, now.cpu + 1} : now' = [wall |-> now.wall + 1, cpu |-> c]
  /\ hist' = [hist EXCEPT !.ticks = IF pc \in {"user", "thrown"} THEN @
                                    ELSE @ + now'.cpu - now.cpu]
  /\ UNCHANGED <<rm, asynch_interrupt, pc, answer>>

SetResourceLimit(units, cumulative) ==
  /\ pc = "user"
  /\ rm' = setResourceLimit(rm, units, cumulative)
  /\ hist' = IF ~cumulative THEN hist
             ELSE [hist EXCEPT !.units = units, !.usedAtSet = rm.d_cumulativeResourceUsed]
  /\ UNCHANGED <<now, asynch_interrupt, pc, answer>>

SetTimeLimit(millis, cumulative) ==
  /\ pc = "user"
  /\ rm' = setTimeLimit(rm, millis, cumulative)
  /\ hist' = IF ~cumulative THEN hist
             ELSE [hist EXCEPT !.millis = millis, !.ticks = 0, !.ticksAtBegin = 0]
  /\ UNCHANGED <<now, asynch_interrupt, pc, answer>>

\* spendResource.  A manager that is out throws, or tells the soft listener, whose
\* SmtEngine::interrupt reaches the SAT solver inside PropEngine::checkSat only.
\* Without an exception the program goes on at `next'.
Spends(r, next) ==
  /\ rm' = r
  /\ asynch_interrupt' =
       (asynch_interrupt \/ (out(r) /\ ~r.d_isHardLimit /\ pc \notin {"user", "process"}))
  /\ IF out(r) /\ r.d_isHardLimit
       THEN pc' = "thrown" /\ answer' = IF pc = "user" THEN "none" ELSE Why(r)
       ELSE pc' = next /\ UNCHANGED answer
  /\ UNCHANGED <<now, hist>>

\* SmtEngine::check begins.  A check that has nothing to spend ends at once.
BeginCheck ==
  LET r == beginCall(rm) IN
  /\ pc = "user"
  /\ hist' = [hist EXCEPT !.ticksAtBegin = hist.ticks, !.begun = now,
                          !.usedAtBegin = rm.d_cumulativeResourceUsed]
  /\ IF BeginAsserts(rm)
       THEN /\ rm' = r
            /\ IF cumulativeLimitOn(r) /\ out(r)
                 THEN pc' = "user" /\ answer' = Why(r)
                 ELSE pc' = "process" /\ answer' = "none"
       ELSE pc' = "failed" /\ UNCHANGED <<rm, answer>>
  /\ UNCHANGED <<now, asynch_interrupt>>

\* What is spent outside checkSat, in preprocessing and in other commands.
Process(amount) ==
  LET r == spend(rm, amount) IN
  /\ pc \in {"user", "process"}
  /\ r.d_cumulativeResourceUsed <= MaxUsed
  /\ Spends(r, pc)

\* PropEngine::checkSat, which has its answer at once when the clauses are refuted.
Solve ==
  /\ pc = "process"
  /\ \/ pc' = "search" /\ UNCHANGED <<rm, answer>>
     \/ pc' = "user" /\ answer' = "solved" /\ rm' = endCall(rm)
  /\ UNCHANGED <<now, asynch_interrupt, hist>>

\* Lemmas and rewriting spend in the search.
SearchSpends(amount) ==
  LET r == spend(rm, amount) IN
  /\ pc = "search"
  /\ r.d_cumulativeResourceUsed <= MaxUsed
  /\ Spends(r, "search")

\* The bound leaves room for the three tests between the last spending and the end.
TestsToStop == 3 * satConflictStep

\* Solver::withinBudget: spends, then reads the flag.
WithinBudget(yes, no) ==
  LET r == spend(rm, satConflictStep) IN
  /\ r.d_cumulativeResourceUsed <= MaxUsed + TestsToStop
  /\ Spends(r, IF asynch_interrupt' THEN no ELSE yes)

\* After each propagation the search goes on unless the budget is spent.
SearchTest == pc = "search" /\ WithinBudget("search", "again")

\* search() returns an answer, or without one: the bound on conflicts is reached.
SearchReturns ==
  /\ pc = "search"
  /\ pc' \in {"again", "found"}
  /\ UNCHANGED <<now, rm, asynch_interrupt, answer, hist>>

\* Faulty variant of SearchAgain: the loop restarts whatever is left.
SearchAgainAlways ==
  \/ pc = "again" /\ WithinBudget("search", "search")
  \/ pc = "found" /\ WithinBudget("last", "gaveup")

\* The loop of solve_ tests the budget after each restart, and after the answer.
SearchAgain ==
  \/ pc = "again" /\ WithinBudget("search", "gaveup")
  \/ pc = "found" /\ WithinBudget("last", "gaveup")

\* solve_ tests it once more and forgets an answer that comes too late; checkSat
\* says why there is none, and check() ends the call.
SolveReturns ==
  LET r == spend(rm, satConflictStep)
      stopped == asynch_interrupt \/ out(r)
  IN
  /\ pc \in {"last", "gaveup"}
  /\ r.d_cumulativeResourceUsed <= MaxUsed + TestsToStop
  /\ IF out(r) /\ r.d_isHardLimit
       THEN Spends(r, "thrown")
       ELSE /\ pc' = "user"
            /\ asynch_interrupt' = stopped
            /\ answer' = IF stopped THEN Why(r) ELSE "solved"
            /\ rm' = endCall(r)
            /\ UNCHANGED <<now, hist>>

\* checkSatisfiability catches the exception, other commands pass it on to the
\* user; endCall is not reached.
Caught ==
  /\ pc = "thrown"
  /\ pc' = "user"
  /\ UNCHANGED <<now, rm, asynch_interrupt, answer, hist>>

ManagerNext ==
  \/ Tick
  \/ \E units \in CumulativeUnits : SetResourceLimit(units, TRUE)
  \/ \E units \in PerCallUnits : SetResourceLimit(units, FALSE)
  \/ \E millis \in CumulativeMillis : SetTimeLimit(millis, TRUE)
  \/ \E millis \in PerCallMillis : SetTimeLimit(millis, FALSE)
  \/ BeginCheck
  \/ \E amount \in Amount : Process(amount) \/ SearchSpends(amount)
  \/ Solve
  \/ SearchTest
  \/ SearchReturns
  \/ SearchAgain
  \/ SolveReturns
  \/ Caught

ManagerSpec == ManagerInit /\ [][ManagerNext]_managerVars

\* The search loop keeps coming back to its test and solve_ ends: this is what
\* spending a resource in every loop is for.
ManagerFairness == WF_managerVars(SearchTest) /\ WF_managerVars(SearchAgain) /\ WF_managerVars(SolveReturns) /\ WF_managerVars(Caught)
-----------------------------------------------------------------------------
InCheck == pc \in {"process", "search", "again", "found", "last", "gaveup"}

UsedSince(mark) == rm.d_cumulativeResourceUsed - mark

\* What has really been used reaches the cumulative limit; the limit per call,
\* where that is the only one.
CumulativeSpent == hist.units # 0 /\ UsedSince(hist.usedAtSet) >= hist.units
PerCallSpent ==
  /\ rm.d_resourceBudgetPerCall # 0 /\ ~cumulativeLimitOn(rm)
  /\ UsedSince(hist.usedAtBegin) >= rm.d_resourceBudgetPerCall

Timers == [d_ms : Nat, clock : {"wall", "cpu"}, limit : Nat]

Managers ==
  [d_cumulativeTimer : Timers, d_perCallTimer : Timers,
   d_timeBudgetCumulative : Nat, d_timeBudgetPerCall : Nat,
   d_resourceBudgetCumulative : Nat, d_resourceBudgetPerCall : Nat,
   d_cumulativeTimeUsed : Nat, d_cumulativeResourceUsed : Nat,
   d_thisCallResourceUsed : Nat, d_thisCallTimeBudget : Nat,
   d_thisCallResourceBudget : Nat,
   d_isHardLimit : BOOLEAN, d_on : BOOLEAN, d_cpuTime : BOOLEAN]

ManagerTypeOK ==
  /\ now \in [{"wall", "cpu"} -> 0..MaxTime] /\ now.cpu <= now.wall
  /\ rm \in Managers
  /\ asynch_interrupt \in BOOLEAN
  /\ pc \in {"user", "process", "search", "again", "found", "last", "gaveup",
             "thrown", "failed"}
  /\ answer \in {"none", "solved", "resourceout", "timeout", "interrupted"}
  /\ hist.ticksAtBegin <= hist.ticks

\* With --hard-limit no check goes on once the resources that were granted are
\* spent, however they were spread over earlier checks and the commands between
\* them: beginCall hands each check what is left, and spendResource throws.
LimitsObeyed == rm.d_isHardLimit /\ InCheck => ~CumulativeSpent /\ ~PerCallSpent

\* Without --hard-limit a check may overrun, but an answer that the search finds
\* after the limit is forgotten: solve_ tests the budget after search() returns.
LateAnswerForgotten ==
  pc = "last" /\ answer' = "solved" => ~(CumulativeSpent \/ PerCallSpent)'

\* A check ends with "resourceout" only if a limit that the user set is spent; what
\* earlier calls used does not count against the limit per call.
StoppedOnlyWhenSpent ==
  answer' = "resourceout" /\ answer # "resourceout" =>
    \/ CumulativeSpent'
    \/ (/\ rm.d_resourceBudgetPerCall # 0
        /\ UsedSince(hist.usedAtBegin) >= rm.d_resourceBudgetPerCall)'

\* Without a cumulative time limit a check ends with "timeout" only if it has lasted
\* as long as the limit per call, on the clock that --cpu-time chose: beginCall
\* starts the timer of every call anew.
TimeoutOnlyWhenExpired ==
  answer' = "timeout" /\ answer # "timeout" /\ rm.d_timeBudgetCumulative = 0 =>
    LET clock == IF rm.d_cpuTime THEN "cpu" ELSE "wall" IN
    now[clock] - hist.begun[clock] >= rm.d_timeBudgetPerCall

\* With --hard-limit no check goes on beyond its limits; without it a check ends
\* without an answer if its limit is spent when search() returns; and either way it
\* ends for lack of resources or time only if they are really spent.
StopsRight ==
  /\ []LimitsObeyed
  /\ [][LateAnswerForgotten /\ StoppedOnlyWhenSpent /\ TimeoutOnlyWhenExpired]_managerVars

\* A search that has spent its resources ends, in either mode: every loop of the
\* search comes to withinBudget, and solve_ does not restart then.
ExpiredSearchStops == pc = "search" /\ (CumulativeSpent \/ PerCallSpent) ~> pc = "user"
=============================================================================
