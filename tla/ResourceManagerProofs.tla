------------------------ MODULE ResourceManagerProofs ------------------------
(***************************************************************************)
(* Proofs about ResourceManager, for any limits, in units and in time, set *)
(* in any order between checks: what a check may use, and why it may stop. *)
(***************************************************************************)
EXTENDS ResourceManager, TLAPS

\* A timer was set some time ago.
TimerOK(timer) ==
  timer.d_ms <= timer.limit /\ timer.limit - timer.d_ms <= now[timer.clock]

HistOK ==
  hist \in [units : Nat, usedAtSet : Nat, usedAtBegin : Nat, millis : Nat, ticks : Nat,
            ticksAtBegin : Nat, begun : [{"wall", "cpu"} -> Nat]]

\* The clock on which the limit per call is measured.
CallClock == IF rm.d_cpuTime THEN "cpu" ELSE "wall"

\* The budgets are the limits that the user set last, and the manager is on as
\* soon as one was.
BudgetsSet ==
  /\ rm.d_resourceBudgetCumulative = IF hist.units = 0 THEN 0 ELSE hist.usedAtSet + hist.units
  /\ hist.usedAtSet <= rm.d_cumulativeResourceUsed
  /\ hist.usedAtBegin <= rm.d_cumulativeResourceUsed
  /\ rm.d_timeBudgetCumulative = 0 => rm.d_cumulativeTimer.d_ms = 0
  /\ ~rm.d_on => /\ rm.d_resourceBudgetCumulative = 0 /\ rm.d_resourceBudgetPerCall = 0
                 /\ rm.d_timeBudgetCumulative = 0 /\ rm.d_timeBudgetPerCall = 0

\* In a check: the budget of this call is what was left of the cumulative limit,
\* or no more than the limit per call, what was used is counted from the
\* beginning of the call, and with a hard limit there is something left.
CallBudget ==
  /\ answer = "none"
  /\ rm.d_on => rm.d_thisCallResourceUsed = UsedSince(hist.usedAtBegin)
  /\ rm.d_resourceBudgetCumulative # 0 =>
       rm.d_thisCallResourceBudget = LeftOver(rm.d_resourceBudgetCumulative, hist.usedAtBegin)
  /\ ~cumulativeLimitOn(rm) /\ rm.d_resourceBudgetPerCall # 0 =>
       rm.d_thisCallResourceBudget <= rm.d_resourceBudgetPerCall
  /\ rm.d_isHardLimit => ~outOfResources(rm)

\* The timer of the call was started when the check began.
CallTimer ==
  /\ rm.d_perCallTimer.d_ms = rm.d_timeBudgetPerCall
  /\ rm.d_perCallTimer.clock = CallClock
  /\ rm.d_perCallTimer.limit = hist.begun[CallClock] + rm.d_timeBudgetPerCall

Inv ==
  /\ ManagerTypeOK /\ HistOK
  /\ TimerOK(rm.d_cumulativeTimer) /\ TimerOK(rm.d_perCallTimer)
  /\ BudgetsSet
  /\ InCheck => CallBudget /\ CallTimer

\* One limit per call is used, which is not combined with a cumulative time limit.
OneLimit ==
  /\ \A m, n \in PerCallUnits \ {0} : m = n
  /\ PerCallUnits \subseteq {0} \/ CumulativeMillis \subseteq {0}

\* Then what is left from earlier calls is that limit or nothing.
BudgetKept ==
  /\ rm.d_resourceBudgetPerCall \in {0} \cup PerCallUnits
  /\ rm.d_timeBudgetCumulative # 0 => ~(CumulativeMillis \subseteq {0})
  /\ rm.d_resourceBudgetCumulative = 0 => rm.d_thisCallResourceBudget \in {0} \cup PerCallUnits
  /\ InCheck /\ rm.d_resourceBudgetCumulative = 0 /\ rm.d_resourceBudgetPerCall # 0 =>
       rm.d_thisCallResourceBudget = rm.d_resourceBudgetPerCall

-----------------------------------------------------------------------------
(* The operations of the manager. *)

\* The clocks are numbers, and a timer set now is one.
LEMMA TimerFacts ==
  ASSUME LimitAssumption, ManagerTypeOK, NEW ms \in Nat, NEW w \in BOOLEAN
  PROVE  /\ now["wall"] \in Nat /\ now["cpu"] \in Nat
         /\ TimerSet(ms, w) \in Timers /\ TimerOK(TimerSet(ms, w))
         /\ TimerSet(ms, w).d_ms = ms
         /\ TimerSet(ms, w).clock = IF w THEN "wall" ELSE "cpu"
         /\ TimerSet(ms, w).limit = now[IF w THEN "wall" ELSE "cpu"] + ms
<1>1. now["wall"] \in Nat /\ now["cpu"] \in Nat
  BY DEF ManagerTypeOK, LimitAssumption
<1>2. now[IF w THEN "wall" ELSE "cpu"] \in Nat
  BY <1>1
<1>3. QED
  BY <1>1, <1>2 DEF TimerSet, Timers, TimerOK

\* How long a timer has run.
LEMMA ElapsedFacts ==
  ASSUME LimitAssumption, ManagerTypeOK, NEW timer \in Timers, TimerOK(timer)
  PROVE  elapsed(timer) \in Nat
<1>1. now[timer.clock] \in Nat /\ timer.limit \in Nat /\ timer.d_ms \in Nat
  BY DEF ManagerTypeOK, Timers, LimitAssumption
<1>2. QED
  BY <1>1 DEF elapsed, TimerOK

\* q and r have the same limits and options,
SameLimits(q, r) ==
  /\ q.d_timeBudgetCumulative = r.d_timeBudgetCumulative
  /\ q.d_timeBudgetPerCall = r.d_timeBudgetPerCall
  /\ q.d_resourceBudgetCumulative = r.d_resourceBudgetCumulative
  /\ q.d_resourceBudgetPerCall = r.d_resourceBudgetPerCall
  /\ q.d_isHardLimit = r.d_isHardLimit /\ q.d_on = r.d_on /\ q.d_cpuTime = r.d_cpuTime

\* and the same timers and budget for the call.
SameCall(q, r) ==
  /\ q.d_cumulativeTimer = r.d_cumulativeTimer /\ q.d_perCallTimer = r.d_perCallTimer
  /\ q.d_thisCallResourceBudget = r.d_thisCallResourceBudget

\* spendResource counts what is used.
LEMMA SpendFacts ==
  ASSUME NEW r \in Managers, NEW amount \in Nat
  PROVE  /\ spend(r, amount) \in Managers
         /\ spend(r, amount).d_cumulativeResourceUsed = r.d_cumulativeResourceUsed + amount
         /\ spend(r, amount).d_thisCallResourceUsed =
              IF r.d_on THEN r.d_thisCallResourceUsed + amount ELSE r.d_thisCallResourceUsed
         /\ SameLimits(spend(r, amount), r) /\ SameCall(spend(r, amount), r)
<1> DEFINE used == r.d_cumulativeResourceUsed + amount
           here == IF r.d_on THEN r.d_thisCallResourceUsed + amount ELSE r.d_thisCallResourceUsed
           q == [r EXCEPT !.d_cumulativeResourceUsed = used, !.d_thisCallResourceUsed = here]
<1>1. used \in Nat /\ here \in Nat
  BY DEF Managers
<1>2. spend(r, amount) = q
  BY DEF spend
<1> HIDE DEF used, here
<1>3. q \in Managers
  BY <1>1 DEF Managers
<1>4. q.d_cumulativeResourceUsed = used /\ q.d_thisCallResourceUsed = here
  BY DEF Managers
<1>5. SameLimits(q, r) /\ SameCall(q, r)
  BY DEF Managers, SameLimits, SameCall
<1>6. QED
  BY <1>2, <1>3, <1>4, <1>5 DEF used, here

\* beginCall, what is left of the cumulative limit on resources.
LEMMA ResourcesLeftFacts ==
  ASSUME NEW r \in Managers
  PROVE  /\ ResourcesLeft(r) \in Managers
         /\ SameLimits(ResourcesLeft(r), r)
         /\ ResourcesLeft(r).d_cumulativeTimer = r.d_cumulativeTimer
         /\ ResourcesLeft(r).d_perCallTimer = r.d_perCallTimer
         /\ ResourcesLeft(r).d_thisCallResourceUsed = r.d_thisCallResourceUsed
         /\ ResourcesLeft(r).d_cumulativeResourceUsed = r.d_cumulativeResourceUsed
         /\ ResourcesLeft(r).d_thisCallResourceBudget =
              IF r.d_resourceBudgetCumulative = 0 THEN r.d_thisCallResourceBudget
              ELSE LeftOver(r.d_resourceBudgetCumulative, r.d_cumulativeResourceUsed)
<1>1. CASE r.d_resourceBudgetCumulative = 0
  BY <1>1 DEF ResourcesLeft, SameLimits
<1>2. CASE r.d_resourceBudgetCumulative # 0
  <2> DEFINE left == LeftOver(r.d_resourceBudgetCumulative, r.d_cumulativeResourceUsed)
             q == [r EXCEPT !.d_thisCallResourceBudget = left]
  <2>1. left \in Nat
    BY DEF LeftOver, Managers
  <2>2. ResourcesLeft(r) = q
    BY <1>2 DEF ResourcesLeft
  <2> HIDE DEF left
  <2>3. q \in Managers
    BY <2>1 DEF Managers
  <2>4. SameLimits(q, r)
    BY DEF Managers, SameLimits
  <2>5. /\ q.d_cumulativeTimer = r.d_cumulativeTimer /\ q.d_perCallTimer = r.d_perCallTimer
        /\ q.d_thisCallResourceUsed = r.d_thisCallResourceUsed
        /\ q.d_cumulativeResourceUsed = r.d_cumulativeResourceUsed
        /\ q.d_thisCallResourceBudget = left
    BY DEF Managers
  <2>6. QED
    BY <1>2, <2>2, <2>3, <2>4, <2>5 DEF left
<1>3. QED
  BY <1>1, <1>2

\* beginCall, what is left of the cumulative limit on time: the timer is set anew.
LEMMA TimeLeftFacts ==
  ASSUME LimitAssumption, ManagerTypeOK, NEW r \in Managers, TimerOK(r.d_cumulativeTimer)
  PROVE  /\ TimeLeft(r) \in Managers
         /\ SameLimits(TimeLeft(r), r)
         /\ TimerOK(TimeLeft(r).d_cumulativeTimer)
         /\ r.d_timeBudgetCumulative = 0 =>
              TimeLeft(r).d_cumulativeTimer = r.d_cumulativeTimer
         /\ TimeLeft(r).d_perCallTimer = r.d_perCallTimer
         /\ TimeLeft(r).d_thisCallResourceUsed = r.d_thisCallResourceUsed
         /\ TimeLeft(r).d_cumulativeResourceUsed = r.d_cumulativeResourceUsed
         /\ TimeLeft(r).d_thisCallResourceBudget = r.d_thisCallResourceBudget
<1>1. CASE r.d_timeBudgetCumulative = 0
  BY <1>1 DEF TimeLeft, SameLimits
<1>2. CASE r.d_timeBudgetCumulative # 0
  <2> DEFINE used == elapsed(r.d_cumulativeTimer)
             left == LeftOver(r.d_timeBudgetCumulative, used)
             timer == TimerSet(left, r.d_cpuTime)
             q == [r EXCEPT !.d_cumulativeTimeUsed = used, !.d_thisCallTimeBudget = left,
                            !.d_cumulativeTimer = timer]
  <2>1. used \in Nat
    <3>1. r.d_cumulativeTimer \in Timers
      BY DEF Managers
    <3>2. QED
      BY <3>1, ElapsedFacts
  <2>2. left \in Nat
    BY <2>1 DEF LeftOver, Managers
  <2>3. timer \in Timers /\ TimerOK(timer)
    <3>1. r.d_cpuTime \in BOOLEAN
      BY DEF Managers
    <3>2. QED
      BY <2>2, <3>1, TimerFacts
  <2>4. TimeLeft(r) = q
    BY <1>2 DEF TimeLeft
  <2> HIDE DEF used, left, timer
  <2>5. q \in Managers
    BY <2>1, <2>2, <2>3 DEF Managers
  <2>6. SameLimits(q, r)
    BY DEF Managers, SameLimits
  <2>7. /\ q.d_cumulativeTimer = timer /\ q.d_perCallTimer = r.d_perCallTimer
        /\ q.d_thisCallResourceUsed = r.d_thisCallResourceUsed
        /\ q.d_cumulativeResourceUsed = r.d_cumulativeResourceUsed
        /\ q.d_thisCallResourceBudget = r.d_thisCallResourceBudget
    BY DEF Managers
  <2>8. QED
    BY <1>2, <2>3, <2>4, <2>5, <2>6, <2>7
<1>3. QED
  BY <1>1, <1>2

\* beginCall, the limits per call.
LEMMA PerCallFacts ==
  ASSUME NEW r \in Managers
  PROVE  /\ PerCallBudgets(r) \in Managers
         /\ SameLimits(PerCallBudgets(r), r)
         /\ PerCallBudgets(r).d_cumulativeTimer = r.d_cumulativeTimer
         /\ PerCallBudgets(r).d_perCallTimer = r.d_perCallTimer
         /\ PerCallBudgets(r).d_thisCallResourceUsed = r.d_thisCallResourceUsed
         /\ PerCallBudgets(r).d_cumulativeResourceUsed = r.d_cumulativeResourceUsed
         /\ PerCallBudgets(r).d_thisCallResourceBudget =
              Smaller(r.d_thisCallResourceBudget, r.d_resourceBudgetPerCall)
<1> DEFINE units == Smaller(r.d_thisCallResourceBudget, r.d_resourceBudgetPerCall)
           millis == Smaller(r.d_thisCallTimeBudget, r.d_timeBudgetPerCall)
           q == [r EXCEPT !.d_thisCallResourceBudget = units, !.d_thisCallTimeBudget = millis]
<1>1. units \in Nat /\ millis \in Nat
  BY DEF Smaller, Managers
<1>2. PerCallBudgets(r) = q
  BY DEF PerCallBudgets
<1> HIDE DEF units, millis
<1>3. q \in Managers
  BY <1>1 DEF Managers
<1>4. SameLimits(q, r)
  BY DEF Managers, SameLimits
<1>5. /\ q.d_cumulativeTimer = r.d_cumulativeTimer /\ q.d_perCallTimer = r.d_perCallTimer
      /\ q.d_thisCallResourceUsed = r.d_thisCallResourceUsed
      /\ q.d_cumulativeResourceUsed = r.d_cumulativeResourceUsed
      /\ q.d_thisCallResourceBudget = units
  BY DEF Managers
<1>6. QED
  BY <1>2, <1>3, <1>4, <1>5 DEF units

\* The budget that beginCall gives to a call: what is left of the cumulative
\* limit; without one, and without a cumulative limit on time, the smaller of
\* the limit per call and the budget of the call before.
BudgetOf(r) ==
  IF ~r.d_on THEN r.d_thisCallResourceBudget
  ELSE IF r.d_resourceBudgetCumulative # 0
         THEN LeftOver(r.d_resourceBudgetCumulative, r.d_cumulativeResourceUsed)
  ELSE IF r.d_timeBudgetCumulative # 0 THEN r.d_thisCallResourceBudget
  ELSE Smaller(r.d_thisCallResourceBudget, r.d_resourceBudgetPerCall)

\* beginCall: nothing is used, and the timer of the call starts.
LEMMA BeginCallFacts ==
  ASSUME LimitAssumption, ManagerTypeOK, NEW r \in Managers, TimerOK(r.d_cumulativeTimer)
  PROVE  /\ beginCall(r) \in Managers
         /\ SameLimits(beginCall(r), r)
         /\ TimerOK(beginCall(r).d_cumulativeTimer)
         /\ r.d_timeBudgetCumulative = 0 =>
              beginCall(r).d_cumulativeTimer = r.d_cumulativeTimer
         /\ beginCall(r).d_perCallTimer = TimerSet(r.d_timeBudgetPerCall, ~r.d_cpuTime)
         /\ beginCall(r).d_thisCallResourceUsed = 0
         /\ beginCall(r).d_cumulativeResourceUsed = r.d_cumulativeResourceUsed
         /\ beginCall(r).d_thisCallResourceBudget = BudgetOf(r)
<1> DEFINE timer == TimerSet(r.d_timeBudgetPerCall, ~r.d_cpuTime)
           r1 == [r EXCEPT !.d_perCallTimer = timer, !.d_thisCallResourceUsed = 0]
           r2 == TimeLeft(ResourcesLeft(r1))
<1>1. timer \in Timers
  <2>1. r.d_timeBudgetPerCall \in Nat
    BY DEF Managers
  <2>2. (~r.d_cpuTime) \in BOOLEAN
    OBVIOUS
  <2>3. QED
    BY <2>1, <2>2, TimerFacts
<1>2. beginCall(r) = IF ~r.d_on THEN r1
                     ELSE IF ~cumulativeLimitOn(r1) THEN PerCallBudgets(r1)
                     ELSE IF r2.d_thisCallTimeBudget = 0 \/ r2.d_thisCallResourceUsed = 0 THEN r2
                     ELSE PerCallBudgets(r2)
  BY DEF beginCall
<1> HIDE DEF timer
<1>3. r1 \in Managers
  BY <1>1 DEF Managers
<1>4. SameLimits(r1, r)
  BY DEF Managers, SameLimits
<1>5. /\ r1.d_cumulativeTimer = r.d_cumulativeTimer /\ r1.d_perCallTimer = timer
      /\ r1.d_thisCallResourceUsed = 0
      /\ r1.d_cumulativeResourceUsed = r.d_cumulativeResourceUsed
      /\ r1.d_thisCallResourceBudget = r.d_thisCallResourceBudget
  BY DEF Managers
<1> HIDE DEF r1
<1>6. CASE ~r.d_on
  BY <1>2, <1>3, <1>4, <1>5, <1>6 DEF BudgetOf, timer
<1>7. CASE r.d_on /\ ~cumulativeLimitOn(r1)
  <2>1. r.d_timeBudgetCumulative = 0 /\ r.d_resourceBudgetCumulative = 0
    BY <1>4, <1>7 DEF cumulativeLimitOn, SameLimits
  <2>2. beginCall(r) = PerCallBudgets(r1)
    BY <1>2, <1>7
  <2>3. SameLimits(PerCallBudgets(r1), r)
    BY <1>3, <1>4, PerCallFacts DEF SameLimits
  <2>4. BudgetOf(r) = Smaller(r1.d_thisCallResourceBudget, r1.d_resourceBudgetPerCall)
    BY <1>4, <1>5, <1>7, <2>1 DEF BudgetOf, SameLimits
  <2>5. QED
    BY <1>3, <1>5, <2>2, <2>3, <2>4, PerCallFacts DEF timer
<1>8. CASE r.d_on /\ cumulativeLimitOn(r1)
  <2>1. /\ ResourcesLeft(r1) \in Managers /\ SameLimits(ResourcesLeft(r1), r)
        /\ ResourcesLeft(r1).d_cumulativeTimer = r.d_cumulativeTimer
        /\ ResourcesLeft(r1).d_perCallTimer = timer
        /\ ResourcesLeft(r1).d_thisCallResourceUsed = 0
        /\ ResourcesLeft(r1).d_cumulativeResourceUsed = r.d_cumulativeResourceUsed
        /\ ResourcesLeft(r1).d_thisCallResourceBudget = BudgetOf(r)
    <3>1. ResourcesLeft(r1) \in Managers /\ SameLimits(ResourcesLeft(r1), r)
      BY <1>3, <1>4, ResourcesLeftFacts DEF SameLimits
    <3>2. ResourcesLeft(r1).d_thisCallResourceBudget = BudgetOf(r)
      <4>1. r.d_timeBudgetCumulative # 0 \/ r.d_resourceBudgetCumulative # 0
        BY <1>4, <1>8 DEF cumulativeLimitOn, SameLimits
      <4>2. r1.d_resourceBudgetCumulative = r.d_resourceBudgetCumulative
        BY <1>4 DEF SameLimits
      <4>3. QED
        BY <1>3, <1>5, <1>8, <4>1, <4>2, ResourcesLeftFacts DEF BudgetOf
    <3>3. QED
      BY <1>3, <1>5, <3>1, <3>2, ResourcesLeftFacts
  <2>2. r2 \in Managers /\ SameLimits(r2, r)
    BY <2>1, TimeLeftFacts DEF SameLimits
  <2>3. /\ TimerOK(r2.d_cumulativeTimer)
        /\ r.d_timeBudgetCumulative = 0 => r2.d_cumulativeTimer = r.d_cumulativeTimer
        /\ r2.d_perCallTimer = timer /\ r2.d_thisCallResourceUsed = 0
        /\ r2.d_cumulativeResourceUsed = r.d_cumulativeResourceUsed
        /\ r2.d_thisCallResourceBudget = BudgetOf(r)
    <3>1. ResourcesLeft(r1).d_timeBudgetCumulative = r.d_timeBudgetCumulative
      BY <2>1 DEF SameLimits
    <3>2. QED
      BY <2>1, <3>1, TimeLeftFacts
  <2> HIDE DEF r2
  <2>4. beginCall(r) = r2
    BY <1>2, <1>8, <2>3
  <2>5. QED
    BY <2>2, <2>3, <2>4 DEF timer
<1>9. QED
  BY <1>6, <1>7, <1>8

\* endCall: only timers change.
LEMMA EndCallFacts ==
  ASSUME LimitAssumption, ManagerTypeOK, NEW r \in Managers, TimerOK(r.d_perCallTimer)
  PROVE  /\ endCall(r) \in Managers
         /\ SameLimits(endCall(r), r)
         /\ TimerOK(endCall(r).d_perCallTimer)
         /\ endCall(r).d_cumulativeTimer = r.d_cumulativeTimer
         /\ endCall(r).d_thisCallResourceUsed = r.d_thisCallResourceUsed
         /\ endCall(r).d_cumulativeResourceUsed = r.d_cumulativeResourceUsed
         /\ endCall(r).d_thisCallResourceBudget = r.d_thisCallResourceBudget
<1> DEFINE used == r.d_cumulativeTimeUsed + elapsed(r.d_perCallTimer)
           timer == TimerSet(0, TRUE)
           q == [r EXCEPT !.d_cumulativeTimeUsed = used, !.d_perCallTimer = timer]
<1>1. used \in Nat
  <2>1. r.d_perCallTimer \in Timers /\ r.d_cumulativeTimeUsed \in Nat
    BY DEF Managers
  <2>2. elapsed(r.d_perCallTimer) \in Nat
    BY <2>1, ElapsedFacts
  <2>3. QED
    BY <2>1, <2>2
<1>2. timer \in Timers /\ TimerOK(timer)
  BY TimerFacts
<1>3. endCall(r) = q
  BY DEF endCall
<1> HIDE DEF used, timer
<1>4. q \in Managers
  BY <1>1, <1>2 DEF Managers
<1>5. SameLimits(q, r)
  BY DEF Managers, SameLimits
<1>6. /\ q.d_cumulativeTimer = r.d_cumulativeTimer /\ q.d_perCallTimer = timer
      /\ q.d_thisCallResourceUsed = r.d_thisCallResourceUsed
      /\ q.d_cumulativeResourceUsed = r.d_cumulativeResourceUsed
      /\ q.d_thisCallResourceBudget = r.d_thisCallResourceBudget
  BY DEF Managers
<1>7. QED
  BY <1>2, <1>3, <1>4, <1>5, <1>6

\* setResourceLimit turns the manager on and sets one of the limits.
LEMMA SetResourceLimitFacts ==
  ASSUME NEW r \in Managers, NEW units \in Nat, NEW c \in BOOLEAN
  PROVE  LET q == setResourceLimit(r, units, c)
             budget == IF units = 0 THEN 0 ELSE r.d_cumulativeResourceUsed + units
         IN  /\ q \in Managers /\ q.d_on
             /\ q.d_resourceBudgetCumulative = IF c THEN budget ELSE r.d_resourceBudgetCumulative
             /\ q.d_resourceBudgetPerCall = IF c THEN r.d_resourceBudgetPerCall ELSE units
             /\ q.d_thisCallResourceBudget = IF c THEN budget ELSE r.d_thisCallResourceBudget
             /\ q.d_timeBudgetCumulative = r.d_timeBudgetCumulative
             /\ q.d_timeBudgetPerCall = r.d_timeBudgetPerCall
             /\ q.d_cumulativeTimer = r.d_cumulativeTimer
             /\ q.d_perCallTimer = r.d_perCallTimer
             /\ q.d_cumulativeResourceUsed = r.d_cumulativeResourceUsed
             /\ q.d_isHardLimit = r.d_isHardLimit /\ q.d_cpuTime = r.d_cpuTime
<1> DEFINE budget == IF units = 0 THEN 0 ELSE r.d_cumulativeResourceUsed + units
           qc == [r EXCEPT !.d_on = TRUE, !.d_resourceBudgetCumulative = budget,
                           !.d_thisCallResourceBudget = budget]
           qp == [r EXCEPT !.d_on = TRUE, !.d_resourceBudgetPerCall = units]
<1>1. budget \in Nat
  BY DEF Managers
<1>2. setResourceLimit(r, units, c) = IF c THEN qc ELSE qp
  BY DEF setResourceLimit
<1> HIDE DEF budget
<1>3. qc \in Managers /\ qp \in Managers
  BY <1>1 DEF Managers
<1>4. /\ qc.d_on /\ qc.d_resourceBudgetCumulative = budget
      /\ qc.d_thisCallResourceBudget = budget
      /\ qc.d_resourceBudgetPerCall = r.d_resourceBudgetPerCall
      /\ qc.d_timeBudgetCumulative = r.d_timeBudgetCumulative
      /\ qc.d_timeBudgetPerCall = r.d_timeBudgetPerCall
      /\ qc.d_cumulativeTimer = r.d_cumulativeTimer /\ qc.d_perCallTimer = r.d_perCallTimer
      /\ qc.d_cumulativeResourceUsed = r.d_cumulativeResourceUsed
      /\ qc.d_isHardLimit = r.d_isHardLimit /\ qc.d_cpuTime = r.d_cpuTime
  BY DEF Managers
<1>5. /\ qp.d_on /\ qp.d_resourceBudgetCumulative = r.d_resourceBudgetCumulative
      /\ qp.d_thisCallResourceBudget = r.d_thisCallResourceBudget
      /\ qp.d_resourceBudgetPerCall = units
      /\ qp.d_timeBudgetCumulative = r.d_timeBudgetCumulative
      /\ qp.d_timeBudgetPerCall = r.d_timeBudgetPerCall
      /\ qp.d_cumulativeTimer = r.d_cumulativeTimer /\ qp.d_perCallTimer = r.d_perCallTimer
      /\ qp.d_cumulativeResourceUsed = r.d_cumulativeResourceUsed
      /\ qp.d_isHardLimit = r.d_isHardLimit /\ qp.d_cpuTime = r.d_cpuTime
  BY DEF Managers
<1> HIDE DEF qc, qp
<1>6. QED
  BY <1>2, <1>3, <1>4, <1>5 DEF budget

\* setTimeLimit turns the manager on and sets one of the limits; the cumulative
\* one starts its timer.
LEMMA SetTimeLimitFacts ==
  ASSUME LimitAssumption, ManagerTypeOK, NEW r \in Managers, TimerOK(r.d_cumulativeTimer),
         NEW millis \in Nat, NEW c \in BOOLEAN
  PROVE  LET q == setTimeLimit(r, millis, c) IN
         /\ q \in Managers /\ q.d_on
         /\ q.d_timeBudgetCumulative =
              IF ~c THEN r.d_timeBudgetCumulative
              ELSE IF millis = 0 THEN 0 ELSE r.d_cumulativeTimeUsed + millis
         /\ q.d_timeBudgetPerCall = IF c THEN r.d_timeBudgetPerCall ELSE millis
         /\ TimerOK(q.d_cumulativeTimer)
         /\ q.d_cumulativeTimer.d_ms = IF c THEN millis ELSE r.d_cumulativeTimer.d_ms
         /\ q.d_perCallTimer = r.d_perCallTimer
         /\ q.d_resourceBudgetCumulative = r.d_resourceBudgetCumulative
         /\ q.d_resourceBudgetPerCall = r.d_resourceBudgetPerCall
         /\ q.d_thisCallResourceBudget = r.d_thisCallResourceBudget
         /\ q.d_cumulativeResourceUsed = r.d_cumulativeResourceUsed
         /\ q.d_isHardLimit = r.d_isHardLimit /\ q.d_cpuTime = r.d_cpuTime
<1> DEFINE budget == IF millis = 0 THEN 0 ELSE r.d_cumulativeTimeUsed + millis
           timer == TimerSet(millis, ~r.d_cpuTime)
           qc == [r EXCEPT !.d_on = TRUE, !.d_timeBudgetCumulative = budget,
                           !.d_cumulativeTimer = timer]
           qp == [r EXCEPT !.d_on = TRUE, !.d_timeBudgetPerCall = millis]
<1>1. budget \in Nat
  BY DEF Managers
<1>2. timer \in Timers /\ TimerOK(timer) /\ timer.d_ms = millis
  <2>1. (~r.d_cpuTime) \in BOOLEAN
    OBVIOUS
  <2>2. QED
    BY <2>1, TimerFacts
<1>3. setTimeLimit(r, millis, c) = IF c THEN qc ELSE qp
  BY DEF setTimeLimit
<1> HIDE DEF budget, timer
<1>4. qc \in Managers /\ qp \in Managers
  BY <1>1, <1>2 DEF Managers
<1>5. /\ qc.d_on /\ qc.d_timeBudgetCumulative = budget /\ qc.d_cumulativeTimer = timer
      /\ qc.d_timeBudgetPerCall = r.d_timeBudgetPerCall
      /\ qc.d_perCallTimer = r.d_perCallTimer
      /\ qc.d_resourceBudgetCumulative = r.d_resourceBudgetCumulative
      /\ qc.d_resourceBudgetPerCall = r.d_resourceBudgetPerCall
      /\ qc.d_thisCallResourceBudget = r.d_thisCallResourceBudget
      /\ qc.d_cumulativeResourceUsed = r.d_cumulativeResourceUsed
      /\ qc.d_isHardLimit = r.d_isHardLimit /\ qc.d_cpuTime = r.d_cpuTime
  BY DEF Managers
<1>6. /\ qp.d_on /\ qp.d_timeBudgetCumulative = r.d_timeBudgetCumulative
      /\ qp.d_cumulativeTimer = r.d_cumulativeTimer
      /\ qp.d_timeBudgetPerCall = millis
      /\ qp.d_perCallTimer = r.d_perCallTimer
      /\ qp.d_resourceBudgetCumulative = r.d_resourceBudgetCumulative
      /\ qp.d_resourceBudgetPerCall = r.d_resourceBudgetPerCall
      /\ qp.d_thisCallResourceBudget = r.d_thisCallResourceBudget
      /\ qp.d_cumulativeResourceUsed = r.d_cumulativeResourceUsed
      /\ qp.d_isHardLimit = r.d_isHardLimit /\ qp.d_cpuTime = r.d_cpuTime
  BY DEF Managers
<1> HIDE DEF qc, qp
<1>7. QED
  BY <1>2, <1>3, <1>4, <1>5, <1>6 DEF budget

-----------------------------------------------------------------------------
(* The invariant. *)

\* The invariant holds at first.
LEMMA InitInv == LimitAssumption /\ ManagerInit => Inv
<1> SUFFICES ASSUME LimitAssumption, ManagerInit PROVE Inv
  OBVIOUS
<1>1. PICK hard \in HardLimits, cpu \in CpuTimes : rm = Manager(hard, cpu)
  BY DEF ManagerInit
<1>2. hard \in BOOLEAN /\ cpu \in BOOLEAN
  BY DEF LimitAssumption
<1>3. Off \in Timers
  BY DEF Off, Timers
<1>4. Manager(hard, cpu) \in Managers
  BY <1>2, <1>3 DEF Manager, Managers
<1>5. now \in [{"wall", "cpu"} -> 0..MaxTime] /\ now["wall"] = 0 /\ now["cpu"] = 0
  BY DEF ManagerInit, LimitAssumption
<1>6. ManagerTypeOK
  <2>1. hist.ticksAtBegin = 0 /\ hist.ticks = 0
    BY DEF ManagerInit
  <2>2. asynch_interrupt \in BOOLEAN /\ pc = "user" /\ answer = "none"
    BY DEF ManagerInit
  <2>3. rm \in Managers
    BY <1>1, <1>4
  <2>4. QED
    BY <1>5, <2>1, <2>2, <2>3 DEF ManagerTypeOK
<1>7. HistOK
  <2>1. now \in [{"wall", "cpu"} -> Nat]
    BY <1>5
  <2>2. QED
    BY <2>1 DEF ManagerInit, HistOK
<1>8. TimerOK(rm.d_cumulativeTimer) /\ TimerOK(rm.d_perCallTimer)
  BY <1>1, <1>5 DEF Manager, Off, TimerOK
<1>9. BudgetsSet
  BY <1>1 DEF ManagerInit, Manager, Off, BudgetsSet
<1>10. ~InCheck
  BY DEF ManagerInit, InCheck
<1>11. QED
  BY <1>6, <1>7, <1>8, <1>9, <1>10 DEF Inv

\* The budgets remain what the user set, as long as no limit is set.
LEMMA BudgetsStay ==
  ASSUME Inv, rm' \in Managers, SameLimits(rm', rm), HistOK',
         rm.d_cumulativeResourceUsed <= rm'.d_cumulativeResourceUsed,
         rm.d_timeBudgetCumulative = 0 => rm'.d_cumulativeTimer = rm.d_cumulativeTimer,
         hist'.units = hist.units, hist'.usedAtSet = hist.usedAtSet,
         hist'.usedAtBegin <= rm'.d_cumulativeResourceUsed
  PROVE  BudgetsSet'
<1>1. /\ hist.usedAtSet \in Nat /\ rm.d_cumulativeResourceUsed \in Nat
      /\ rm'.d_cumulativeResourceUsed \in Nat
  BY DEF Inv, HistOK, ManagerTypeOK, Managers
<1>2. hist'.usedAtSet <= rm'.d_cumulativeResourceUsed
  BY <1>1 DEF Inv, BudgetsSet
<1>3. rm'.d_timeBudgetCumulative = 0 => rm'.d_cumulativeTimer.d_ms = 0
  BY DEF Inv, BudgetsSet, SameLimits
<1>4. QED
  BY <1>2, <1>3 DEF Inv, BudgetsSet, SameLimits

\* The timers go on as long as the clocks stand.
LEMMA TimersStay ==
  ASSUME now' = now, TimerOK(rm'.d_cumulativeTimer), TimerOK(rm'.d_perCallTimer)
  PROVE  TimerOK(rm.d_cumulativeTimer)' /\ TimerOK(rm.d_perCallTimer)'
BY DEF TimerOK

\* What a check has spent is out of resources exactly when the budgets say so; an
\* answer says why.
LEMMA WhyFacts ==
  ASSUME NEW r
  PROVE  /\ Why(r) \in {"resourceout", "timeout", "interrupted"}
         /\ Why(r) = "resourceout" => outOfResources(r)
         /\ Why(r) = "timeout" => outOfTime(r)
BY DEF Why

States == {"user", "process", "search", "again", "found", "last", "gaveup", "thrown"}

\* spendResource, wherever it is called.
LEMMA SpendsInv ==
  ASSUME LimitAssumption, Inv, NEW amount \in Amount, NEW next \in States,
         pc \notin {"thrown", "failed"}, pc = "user" => next = "user",
         Spends(spend(rm, amount), next)
  PROVE  Inv'
<1> DEFINE q == spend(rm, amount)
<1>1. rm \in Managers /\ amount \in Nat /\ HistOK
  BY DEF Inv, ManagerTypeOK, LimitAssumption
<1>2. /\ q \in Managers
      /\ q.d_cumulativeResourceUsed = rm.d_cumulativeResourceUsed + amount
      /\ q.d_thisCallResourceUsed =
           IF rm.d_on THEN rm.d_thisCallResourceUsed + amount ELSE rm.d_thisCallResourceUsed
      /\ SameLimits(q, rm) /\ SameCall(q, rm)
  BY <1>1, SpendFacts
<1> HIDE DEF q
<1>3. rm' = q /\ now' = now /\ hist' = hist
  BY DEF Spends, q
<1>4. ManagerTypeOK'
  <2>1. asynch_interrupt' \in BOOLEAN
    BY DEF Spends
  <2>2. pc' \in States /\ answer' \in {"none", "solved", "resourceout", "timeout", "interrupted"}
    BY WhyFacts DEF Spends, States, Inv, ManagerTypeOK
  <2>3. QED
    BY <1>2, <1>3, <2>1, <2>2 DEF Inv, ManagerTypeOK, States
<1>5. HistOK'
  BY <1>1, <1>3 DEF HistOK
<1>6. TimerOK(rm.d_cumulativeTimer)' /\ TimerOK(rm.d_perCallTimer)'
  BY <1>2, <1>3, TimersStay DEF SameCall, Inv
<1>7. rm.d_cumulativeResourceUsed \in Nat /\ hist.usedAtBegin \in Nat
  BY <1>1 DEF Managers, HistOK
<1>8. BudgetsSet'
  <2>1. hist.usedAtBegin <= rm.d_cumulativeResourceUsed
    BY DEF Inv, BudgetsSet
  <2>2. rm.d_cumulativeResourceUsed <= rm'.d_cumulativeResourceUsed
    BY <1>1, <1>2, <1>3, <1>7
  <2>3. hist'.usedAtBegin <= rm'.d_cumulativeResourceUsed
    BY <1>1, <1>2, <1>3, <1>7, <2>1
  <2>4. rm'.d_cumulativeTimer = rm.d_cumulativeTimer
    BY <1>2, <1>3 DEF SameCall
  <2>5. QED
    BY <1>2, <1>3, <1>5, <2>2, <2>3, <2>4, BudgetsStay
<1>9. ASSUME InCheck' PROVE CallBudget' /\ CallTimer'
  <2>1. InCheck /\ ~(out(q) /\ q.d_isHardLimit) /\ answer' = answer
    BY <1>9 DEF Spends, q, InCheck, Inv, ManagerTypeOK
  <2>2. CallBudget /\ CallTimer
    BY <2>1 DEF Inv
  <2>3. CallTimer'
    BY <1>2, <1>3, <2>2 DEF CallTimer, CallClock, SameLimits, SameCall
  <2>4. answer' = "none"
    BY <2>1, <2>2 DEF CallBudget
  <2>5. rm'.d_on => rm'.d_thisCallResourceUsed = rm'.d_cumulativeResourceUsed - hist'.usedAtBegin
    <3>1. rm.d_on => rm.d_thisCallResourceUsed = rm.d_cumulativeResourceUsed - hist.usedAtBegin
      BY <2>2 DEF CallBudget, UsedSince
    <3>2. QED
      BY <1>1, <1>2, <1>3, <1>7, <3>1 DEF SameLimits
  <2>6. rm'.d_isHardLimit => ~outOfResources(rm')
    <3>1. ASSUME q.d_isHardLimit, outOfResources(q) PROVE FALSE
      <4>1. ~q.d_on
        BY <2>1, <3>1 DEF out
      <4>2. q.d_resourceBudgetCumulative = 0 /\ q.d_resourceBudgetPerCall = 0
        BY <1>2, <4>1 DEF SameLimits, Inv, BudgetsSet
      <4>3. QED
        BY <3>1, <4>2 DEF outOfResources
    <3>2. QED
      BY <1>3, <3>1
  <2>7. CallBudget'
    BY <1>2, <1>3, <2>2, <2>4, <2>5, <2>6
       DEF CallBudget, UsedSince, cumulativeLimitOn, outOfResources, SameLimits, SameCall
  <2>8. QED
    BY <2>3, <2>7
<1>10. QED
  BY <1>4, <1>5, <1>6, <1>8, <1>9 DEF Inv

\* The end of a call, with or without something spent before it.
LEMMA EndInv ==
  ASSUME LimitAssumption, Inv, NEW q \in Managers,
         SameLimits(q, rm), SameCall(q, rm),
         rm.d_cumulativeResourceUsed <= q.d_cumulativeResourceUsed,
         rm' = endCall(q), pc' = "user", asynch_interrupt' \in BOOLEAN,
         answer' \in {"none", "solved", "resourceout", "timeout", "interrupted"},
         UNCHANGED <<now, hist>>
  PROVE  Inv'
<1>1. TimerOK(q.d_perCallTimer)
  BY DEF Inv, SameCall
<1>2. ManagerTypeOK /\ rm \in Managers /\ HistOK
  BY DEF Inv, ManagerTypeOK
<1>3. /\ rm' \in Managers /\ SameLimits(rm', q) /\ TimerOK(rm'.d_perCallTimer)
      /\ rm'.d_cumulativeTimer = q.d_cumulativeTimer
      /\ rm'.d_cumulativeResourceUsed = q.d_cumulativeResourceUsed
  BY <1>1, <1>2, EndCallFacts
<1>4. SameLimits(rm', rm) /\ rm'.d_cumulativeTimer = rm.d_cumulativeTimer
  BY <1>3 DEF SameLimits, SameCall
<1>5. ManagerTypeOK'
  BY <1>2, <1>3 DEF ManagerTypeOK
<1>6. HistOK'
  BY <1>2 DEF HistOK
<1>7. TimerOK(rm.d_cumulativeTimer)' /\ TimerOK(rm.d_perCallTimer)'
  BY <1>3, <1>4, TimersStay DEF Inv
<1>8. BudgetsSet'
  <2>1. /\ rm.d_cumulativeResourceUsed \in Nat /\ rm'.d_cumulativeResourceUsed \in Nat
        /\ hist.usedAtBegin \in Nat
    BY <1>2, <1>3 DEF Managers, HistOK
  <2>2. hist.usedAtBegin <= rm.d_cumulativeResourceUsed
    BY DEF Inv, BudgetsSet
  <2>3. hist'.usedAtBegin <= rm'.d_cumulativeResourceUsed
    BY <1>3, <2>1, <2>2
  <2>4. QED
    BY <1>3, <1>4, <1>6, <2>3, BudgetsStay
<1>9. ~InCheck'
  BY DEF InCheck
<1>10. QED
  BY <1>5, <1>6, <1>7, <1>8, <1>9 DEF Inv

\* Time goes by: what was set some time ago still was.
LEMMA TickInv ==
  ASSUME LimitAssumption, Inv, Tick PROVE Inv'
<1>1. ManagerTypeOK /\ rm \in Managers /\ HistOK /\ MaxTime \in Nat
  BY DEF Inv, ManagerTypeOK, LimitAssumption
<1>2. now["wall"] \in Nat /\ now["cpu"] \in Nat /\ now["cpu"] <= now["wall"]
  BY <1>1 DEF ManagerTypeOK
<1>3. PICK c \in {now.cpu, now.cpu + 1} : now' = [wall |-> now.wall + 1, cpu |-> c]
  BY DEF Tick
<1>4. now'["wall"] = now["wall"] + 1 /\ now'["cpu"] \in {now["cpu"], now["cpu"] + 1}
  BY <1>3
<1>5. now["wall"] < MaxTime
  BY DEF Tick
<1>6. now' \in [{"wall", "cpu"} -> 0..MaxTime] /\ now'["cpu"] <= now'["wall"]
  <2>1. now.wall + 1 \in 0..MaxTime /\ c \in 0..MaxTime
    BY <1>1, <1>2, <1>5
  <2>2. now' \in [{"wall", "cpu"} -> 0..MaxTime]
    BY <1>3, <2>1
  <2>3. QED
    BY <1>2, <1>4, <2>2
<1>7. rm' = rm /\ pc' = pc /\ answer' = answer /\ asynch_interrupt' = asynch_interrupt
  BY DEF Tick
<1>8. /\ HistOK' /\ hist.ticks <= hist'.ticks
      /\ hist'.ticksAtBegin = hist.ticksAtBegin /\ hist'.units = hist.units
      /\ hist'.usedAtSet = hist.usedAtSet /\ hist'.usedAtBegin = hist.usedAtBegin
      /\ hist'.begun = hist.begun
  <2> DEFINE t == IF pc \in {"user", "thrown"} THEN hist.ticks
                  ELSE hist.ticks + now'.cpu - now.cpu
  <2>1. hist.ticks \in Nat
    BY <1>1 DEF HistOK
  <2>2. t \in Nat /\ hist.ticks <= t
    BY <1>2, <1>4, <2>1
  <2>3. hist' = [hist EXCEPT !.ticks = t]
    BY DEF Tick
  <2> HIDE DEF t
  <2>4. HistOK'
    BY <1>1, <2>2, <2>3 DEF HistOK
  <2>5. QED
    BY <1>1, <2>2, <2>3, <2>4 DEF HistOK
<1>9. ManagerTypeOK'
  <2>1. hist'.ticksAtBegin <= hist'.ticks
    <3>1. hist.ticks \in Nat /\ hist'.ticks \in Nat /\ hist.ticksAtBegin \in Nat
      BY <1>1, <1>8 DEF HistOK
    <3>2. QED
      BY <1>1, <1>8, <3>1 DEF ManagerTypeOK
  <2>2. QED
    BY <1>1, <1>6, <1>7, <2>1 DEF ManagerTypeOK
<1>10. TimerOK(rm.d_cumulativeTimer)' /\ TimerOK(rm.d_perCallTimer)'
  <2>1. ASSUME NEW timer \in Timers, TimerOK(timer) 
        PROVE  timer.d_ms <= timer.limit /\ timer.limit - timer.d_ms <= now'[timer.clock]
    <3>1. timer.clock \in {"wall", "cpu"} /\ timer.limit \in Nat /\ timer.d_ms \in Nat
      BY DEF Timers
    <3>2. now[timer.clock] \in Nat /\ now'[timer.clock] \in Nat /\ now[timer.clock] <= now'[timer.clock]
      BY <1>2, <1>4, <3>1
    <3>3. QED
      BY <2>1, <3>1, <3>2 DEF TimerOK
  <2>2. rm.d_cumulativeTimer \in Timers /\ rm.d_perCallTimer \in Timers
    BY <1>1 DEF Managers
  <2>3. QED
    BY <1>7, <2>1, <2>2 DEF TimerOK, Inv
<1>11. BudgetsSet'
  BY <1>7, <1>8 DEF Inv, BudgetsSet
<1>12. InCheck' => CallBudget' /\ CallTimer'
  BY <1>7, <1>8 DEF Inv, InCheck, CallBudget, CallTimer, CallClock, UsedSince,
                    cumulativeLimitOn, outOfResources
<1>13. QED
  BY <1>8, <1>9, <1>10, <1>11, <1>12 DEF Inv

\* setResourceLimit: a new limit counts from what is used now.
LEMMA SetResourceLimitInv ==
  ASSUME LimitAssumption, Inv, NEW units \in Nat, NEW c \in BOOLEAN, SetResourceLimit(units, c)
  PROVE  Inv'
<1>1. ManagerTypeOK /\ rm \in Managers /\ HistOK
  BY DEF Inv, ManagerTypeOK
<1>2. pc = "user" /\ pc' = "user" /\ UNCHANGED <<now, asynch_interrupt, answer>>
  BY DEF SetResourceLimit
<1>3. /\ rm' \in Managers /\ rm'.d_on
      /\ rm'.d_resourceBudgetCumulative =
           IF ~c THEN rm.d_resourceBudgetCumulative
           ELSE IF units = 0 THEN 0 ELSE rm.d_cumulativeResourceUsed + units
      /\ rm'.d_timeBudgetCumulative = rm.d_timeBudgetCumulative
      /\ rm'.d_cumulativeTimer = rm.d_cumulativeTimer
      /\ rm'.d_perCallTimer = rm.d_perCallTimer
      /\ rm'.d_cumulativeResourceUsed = rm.d_cumulativeResourceUsed
  BY <1>1, SetResourceLimitFacts DEF SetResourceLimit
<1>4. /\ HistOK'
      /\ hist'.units = IF c THEN units ELSE hist.units
      /\ hist'.usedAtSet = IF c THEN rm.d_cumulativeResourceUsed ELSE hist.usedAtSet
      /\ hist'.usedAtBegin = hist.usedAtBegin
      /\ hist'.ticks = hist.ticks /\ hist'.ticksAtBegin = hist.ticksAtBegin
  <2> DEFINE h == [hist EXCEPT !.units = units, !.usedAtSet = rm.d_cumulativeResourceUsed]
  <2>1. hist' = IF c THEN h ELSE hist
    BY DEF SetResourceLimit
  <2>2. rm.d_cumulativeResourceUsed \in Nat
    BY <1>1 DEF Managers
  <2>3. c => HistOK'
    BY <1>1, <2>1, <2>2 DEF HistOK
  <2>4. c => /\ hist'.units = units /\ hist'.usedAtSet = rm.d_cumulativeResourceUsed
             /\ hist'.usedAtBegin = hist.usedAtBegin
             /\ hist'.ticks = hist.ticks /\ hist'.ticksAtBegin = hist.ticksAtBegin
    BY <1>1, <2>1 DEF HistOK
  <2> HIDE DEF h
  <2>5. ~c => hist' = hist
    BY <2>1
  <2>6. ~c => HistOK'
    BY <1>1, <2>5 DEF HistOK
  <2>7. QED
    BY <2>3, <2>4, <2>5, <2>6
<1>5. ManagerTypeOK'
  BY <1>1, <1>2, <1>3, <1>4 DEF ManagerTypeOK
<1>6. TimerOK(rm.d_cumulativeTimer)' /\ TimerOK(rm.d_perCallTimer)'
  BY <1>2, <1>3, TimersStay DEF Inv
<1>7. BudgetsSet'
  <2>1. rm.d_cumulativeResourceUsed \in Nat
    BY <1>1 DEF Managers
  <2>2. QED
    BY <1>3, <1>4, <2>1 DEF Inv, BudgetsSet
<1>8. ~InCheck'
  BY <1>2 DEF InCheck
<1>9. QED
  BY <1>4, <1>5, <1>6, <1>7, <1>8 DEF Inv

\* setTimeLimit: the timer of a cumulative limit starts.
LEMMA SetTimeLimitInv ==
  ASSUME LimitAssumption, Inv, NEW millis \in Nat, NEW c \in BOOLEAN, SetTimeLimit(millis, c)
  PROVE  Inv'
<1>1. ManagerTypeOK /\ rm \in Managers /\ HistOK /\ TimerOK(rm.d_cumulativeTimer)
  BY DEF Inv, ManagerTypeOK
<1>2. pc = "user" /\ pc' = "user" /\ UNCHANGED <<now, asynch_interrupt, answer>>
  BY DEF SetTimeLimit
<1>3. /\ rm' \in Managers /\ rm'.d_on
      /\ rm'.d_timeBudgetCumulative =
           IF ~c THEN rm.d_timeBudgetCumulative
           ELSE IF millis = 0 THEN 0 ELSE rm.d_cumulativeTimeUsed + millis
      /\ TimerOK(rm'.d_cumulativeTimer)
      /\ rm'.d_cumulativeTimer.d_ms = IF c THEN millis ELSE rm.d_cumulativeTimer.d_ms
      /\ rm'.d_perCallTimer = rm.d_perCallTimer
      /\ rm'.d_resourceBudgetCumulative = rm.d_resourceBudgetCumulative
      /\ rm'.d_cumulativeResourceUsed = rm.d_cumulativeResourceUsed
  BY <1>1, SetTimeLimitFacts DEF SetTimeLimit
<1>4. /\ HistOK'
      /\ hist'.units = hist.units /\ hist'.usedAtSet = hist.usedAtSet
      /\ hist'.usedAtBegin = hist.usedAtBegin
      /\ hist'.ticksAtBegin <= hist'.ticks
  <2> DEFINE h == [hist EXCEPT !.millis = millis, !.ticks = 0, !.ticksAtBegin = 0]
  <2>1. hist' = IF c THEN h ELSE hist
    BY DEF SetTimeLimit
  <2>2. c => HistOK'
    BY <1>1, <2>1 DEF HistOK
  <2>3. c => /\ hist'.units = hist.units /\ hist'.usedAtSet = hist.usedAtSet
             /\ hist'.usedAtBegin = hist.usedAtBegin
             /\ hist'.ticks = 0 /\ hist'.ticksAtBegin = 0
    BY <1>1, <2>1 DEF HistOK
  <2> HIDE DEF h
  <2>4. ~c => hist' = hist
    BY <2>1
  <2>5. ~c => HistOK' /\ hist'.ticksAtBegin <= hist'.ticks
    BY <1>1, <2>4 DEF HistOK, ManagerTypeOK
  <2>6. QED
    BY <2>2, <2>3, <2>4, <2>5
<1>5. ManagerTypeOK'
  BY <1>1, <1>2, <1>3, <1>4 DEF ManagerTypeOK
<1>6. TimerOK(rm.d_cumulativeTimer)' /\ TimerOK(rm.d_perCallTimer)'
  BY <1>2, <1>3, TimersStay DEF Inv
<1>7. BudgetsSet'
  <2>1. rm'.d_timeBudgetCumulative = 0 => rm'.d_cumulativeTimer.d_ms = 0
    <3>1. rm.d_cumulativeTimeUsed \in Nat
      BY <1>1 DEF Managers
    <3>2. QED
      BY <1>3, <3>1 DEF Inv, BudgetsSet
  <2>2. QED
    BY <1>3, <1>4, <2>1 DEF Inv, BudgetsSet
<1>8. ~InCheck'
  BY <1>2 DEF InCheck
<1>9. QED
  BY <1>4, <1>5, <1>6, <1>7, <1>8 DEF Inv

\* beginCall: the check has a budget that is not spent, or does not begin.
LEMMA BeginCheckInv ==
  ASSUME LimitAssumption, Inv, BeginCheck PROVE Inv'
<1> DEFINE r == beginCall(rm)
<1>1. ManagerTypeOK /\ rm \in Managers /\ HistOK /\ TimerOK(rm.d_cumulativeTimer)
  BY DEF Inv, ManagerTypeOK
<1>2. /\ r \in Managers /\ SameLimits(r, rm) /\ TimerOK(r.d_cumulativeTimer)
      /\ rm.d_timeBudgetCumulative = 0 => r.d_cumulativeTimer = rm.d_cumulativeTimer
      /\ r.d_perCallTimer = TimerSet(rm.d_timeBudgetPerCall, ~rm.d_cpuTime)
      /\ r.d_thisCallResourceUsed = 0
      /\ r.d_cumulativeResourceUsed = rm.d_cumulativeResourceUsed
      /\ r.d_thisCallResourceBudget = BudgetOf(rm)
  BY <1>1, BeginCallFacts
<1> HIDE DEF r
<1>3. now' = now /\ asynch_interrupt' = asynch_interrupt /\ pc = "user"
  BY DEF BeginCheck
<1>4. /\ HistOK'
      /\ hist'.units = hist.units /\ hist'.usedAtSet = hist.usedAtSet
      /\ hist'.usedAtBegin = rm.d_cumulativeResourceUsed /\ hist'.begun = now
      /\ hist'.ticks = hist.ticks /\ hist'.ticksAtBegin = hist.ticks
  <2>1. now \in [{"wall", "cpu"} -> Nat] /\ rm.d_cumulativeResourceUsed \in Nat
    BY <1>1 DEF ManagerTypeOK, Managers, LimitAssumption
  <2>2. hist' = [hist EXCEPT !.ticksAtBegin = hist.ticks, !.begun = now,
                             !.usedAtBegin = rm.d_cumulativeResourceUsed]
    BY DEF BeginCheck
  <2>3. HistOK'
    BY <1>1, <2>1, <2>2 DEF HistOK
  <2>4. QED
    BY <1>1, <2>2, <2>3 DEF HistOK
<1>5. hist'.ticksAtBegin <= hist'.ticks /\ hist.ticks \in Nat /\ rm.d_cumulativeResourceUsed \in Nat
  BY <1>1, <1>4 DEF HistOK, Managers
<1>6. CASE ~BeginAsserts(rm)
  <2>1. rm' = rm /\ answer' = answer /\ pc' = "failed"
    BY <1>6 DEF BeginCheck
  <2>2. ManagerTypeOK'
    BY <1>1, <1>3, <1>5, <2>1 DEF ManagerTypeOK
  <2>3. BudgetsSet'
    BY <1>4, <1>5, <2>1 DEF Inv, BudgetsSet
  <2>4. TimerOK(rm.d_cumulativeTimer)' /\ TimerOK(rm.d_perCallTimer)'
    BY <1>3, <2>1, TimersStay DEF Inv
  <2>5. ~InCheck'
    BY <2>1 DEF InCheck
  <2>6. QED
    BY <1>4, <2>2, <2>3, <2>4, <2>5 DEF Inv
<1>7. CASE BeginAsserts(rm)
  <2>1. /\ rm' = r
        /\ IF cumulativeLimitOn(r) /\ out(r)
             THEN pc' = "user" /\ answer' = Why(r)
             ELSE pc' = "process" /\ answer' = "none"
    BY <1>7 DEF BeginCheck, r
  <2>2. ManagerTypeOK'
    BY <1>1, <1>2, <1>3, <1>5, <2>1, WhyFacts DEF ManagerTypeOK
  <2>3. (~rm.d_cpuTime) \in BOOLEAN /\ rm.d_timeBudgetPerCall \in Nat /\ rm.d_cpuTime \in BOOLEAN
    BY <1>1 DEF Managers
  <2>4. TimerOK(r.d_perCallTimer)
    BY <1>1, <1>2, <2>3, TimerFacts
  <2>5. TimerOK(rm.d_cumulativeTimer)' /\ TimerOK(rm.d_perCallTimer)'
    BY <1>2, <1>3, <2>1, <2>4, TimersStay
  <2>6. BudgetsSet'
    BY <1>2, <1>4, <1>5, <2>1, BudgetsStay
  <2>7. ASSUME InCheck' PROVE CallBudget' /\ CallTimer'
    <3>1. answer' = "none" /\ ~(cumulativeLimitOn(r) /\ out(r))
      BY <2>1, <2>7 DEF InCheck
    <3>2. /\ r.d_perCallTimer.d_ms = rm.d_timeBudgetPerCall
          /\ r.d_perCallTimer.clock = IF rm.d_cpuTime THEN "cpu" ELSE "wall"
          /\ r.d_perCallTimer.limit =
               now[IF rm.d_cpuTime THEN "cpu" ELSE "wall"] + rm.d_timeBudgetPerCall
      <4>1. CASE rm.d_cpuTime
        BY <1>1, <1>2, <2>3, <4>1, TimerFacts
      <4>2. CASE ~rm.d_cpuTime
        BY <1>1, <1>2, <2>3, <4>2, TimerFacts
      <4>3. QED
        BY <4>1, <4>2
    <3>3. CallTimer'
      BY <1>2, <1>4, <2>1, <3>2 DEF CallTimer, CallClock, SameLimits
    <3>4. ~rm.d_on => rm.d_resourceBudgetCumulative = 0 /\ rm.d_resourceBudgetPerCall = 0
      BY DEF Inv, BudgetsSet
    <3>5. rm.d_resourceBudgetPerCall \in Nat /\ rm.d_thisCallResourceBudget \in Nat
      BY <1>1 DEF Managers
    <3>6. rm.d_resourceBudgetCumulative # 0 =>
            BudgetOf(rm) = LeftOver(rm.d_resourceBudgetCumulative, rm.d_cumulativeResourceUsed)
      BY <3>4 DEF BudgetOf
    <3>7. ~cumulativeLimitOn(rm) /\ rm.d_resourceBudgetPerCall # 0 =>
            /\ BudgetOf(rm) = Smaller(rm.d_thisCallResourceBudget, rm.d_resourceBudgetPerCall)
            /\ BudgetOf(rm) <= rm.d_resourceBudgetPerCall
            /\ BudgetOf(rm) \in Nat \ {0}
      BY <3>4, <3>5 DEF BudgetOf, Smaller, cumulativeLimitOn
    <3>8. ~outOfResources(r)
      <4>1. SUFFICES ASSUME outOfResources(r) PROVE FALSE
        OBVIOUS
      <4>2. rm.d_resourceBudgetPerCall # 0 \/ rm.d_resourceBudgetCumulative # 0
        BY <1>2, <4>1 DEF outOfResources, SameLimits
      <4>3. out(r)
        BY <1>2, <3>4, <4>1, <4>2 DEF out, SameLimits
      <4>4. ~cumulativeLimitOn(rm)
        BY <1>2, <3>1, <4>3 DEF cumulativeLimitOn, SameLimits
      <4>5. rm.d_resourceBudgetPerCall # 0
        BY <4>2, <4>4 DEF cumulativeLimitOn
      <4>6. BudgetOf(rm) <= 0
        BY <1>2, <4>1 DEF outOfResources
      <4>7. QED
        BY <3>7, <4>4, <4>5, <4>6
    <3>9. rm'.d_thisCallResourceUsed = rm'.d_cumulativeResourceUsed - hist'.usedAtBegin
      BY <1>2, <1>4, <1>5, <2>1
    <3>10. CallBudget'
      <4>1. rm'.d_resourceBudgetCumulative # 0 =>
              rm'.d_thisCallResourceBudget =
                LeftOver(rm'.d_resourceBudgetCumulative, hist'.usedAtBegin)
        BY <1>2, <1>4, <2>1, <3>6 DEF SameLimits
      <4>2. ~cumulativeLimitOn(rm') /\ rm'.d_resourceBudgetPerCall # 0 =>
              rm'.d_thisCallResourceBudget <= rm'.d_resourceBudgetPerCall
        BY <1>2, <2>1, <3>7 DEF SameLimits, cumulativeLimitOn
      <4>3. ~outOfResources(rm')
        BY <2>1, <3>8
      <4>4. QED
        BY <3>1, <3>9, <4>1, <4>2, <4>3
           DEF CallBudget, UsedSince, LeftOver, cumulativeLimitOn, outOfResources
    <3>11. QED
      BY <3>3, <3>10
  <2>8. QED
    BY <1>4, <2>2, <2>5, <2>6, <2>7 DEF Inv
<1>8. QED
  BY <1>6, <1>7

\* A step that moves on between two parts of a check, or out of it.
LEMMA MoveInv ==
  ASSUME Inv, pc' \in States, InCheck' => InCheck, UNCHANGED <<now, rm, asynch_interrupt, answer, hist>>
  PROVE  Inv'
<1>1. ManagerTypeOK'
  BY DEF Inv, ManagerTypeOK, States
<1>2. HistOK' /\ BudgetsSet'
  BY DEF Inv, HistOK, BudgetsSet
<1>3. TimerOK(rm.d_cumulativeTimer)' /\ TimerOK(rm.d_perCallTimer)'
  BY TimersStay DEF Inv
<1>4. InCheck' => CallBudget' /\ CallTimer'
  BY DEF Inv, CallBudget, CallTimer, CallClock, UsedSince, cumulativeLimitOn, outOfResources
<1>5. QED
  BY <1>1, <1>2, <1>3, <1>4 DEF Inv

\* Solver::withinBudget spends and goes on in one of two ways.
LEMMA WithinBudgetSpends ==
  ASSUME NEW yes, NEW no, WithinBudget(yes, no)
  PROVE  Spends(spend(rm, satConflictStep), yes) \/ Spends(spend(rm, satConflictStep), no)
BY DEF WithinBudget, Spends

\* The end of solve_, where no exception is thrown.
LEMMA SolveReturnsCases ==
  ASSUME SolveReturns
  PROVE  \/ Spends(spend(rm, satConflictStep), "thrown")
         \/ LET r == spend(rm, satConflictStep) IN
            /\ ~(out(r) /\ r.d_isHardLimit) /\ pc \in {"last", "gaveup"}
            /\ pc' = "user" /\ asynch_interrupt' = (asynch_interrupt \/ out(r))
            /\ answer' = IF asynch_interrupt \/ out(r) THEN Why(r) ELSE "solved"
            /\ rm' = endCall(r) /\ UNCHANGED <<now, hist>>
BY DEF SolveReturns

\* Every step keeps the invariant.
LEMMA StepInv == ASSUME LimitAssumption, Inv, [ManagerNext]_managerVars PROVE Inv'
<1>1. CASE Tick
  BY <1>1, TickInv
<1>2. CASE \E units \in CumulativeUnits : SetResourceLimit(units, TRUE)
  BY <1>2, SetResourceLimitInv DEF LimitAssumption
<1>3. CASE \E units \in PerCallUnits : SetResourceLimit(units, FALSE)
  BY <1>3, SetResourceLimitInv DEF LimitAssumption
<1>4. CASE \E millis \in CumulativeMillis : SetTimeLimit(millis, TRUE)
  BY <1>4, SetTimeLimitInv DEF LimitAssumption
<1>5. CASE \E millis \in PerCallMillis : SetTimeLimit(millis, FALSE)
  BY <1>5, SetTimeLimitInv DEF LimitAssumption
<1>6. CASE BeginCheck
  BY <1>6, BeginCheckInv
<1>7. ASSUME NEW amount \in Amount, Process(amount) PROVE Inv'
  <2>1. CASE pc = "user"
    BY <1>7, <2>1, SpendsInv DEF Process, States
  <2>2. CASE pc = "process"
    BY <1>7, <2>2, SpendsInv DEF Process, States
  <2>3. QED
    BY <1>7, <2>1, <2>2 DEF Process
<1>8. ASSUME NEW amount \in Amount, SearchSpends(amount) PROVE Inv'
  BY <1>8, SpendsInv DEF SearchSpends, States
<1>9. CASE Solve
  <2>1. CASE pc' = "search" /\ UNCHANGED <<rm, answer>>
    BY <1>9, <2>1, MoveInv DEF Solve, States, InCheck
  <2>2. CASE pc' = "user" /\ answer' = "solved" /\ rm' = endCall(rm)
    <3>1. rm \in Managers /\ asynch_interrupt' \in BOOLEAN /\ rm.d_cumulativeResourceUsed \in Nat
      BY <1>9 DEF Inv, ManagerTypeOK, Managers, Solve
    <3>2. SameLimits(rm, rm) /\ SameCall(rm, rm)
      BY DEF SameLimits, SameCall
    <3>3. QED
      BY <1>9, <2>2, <3>1, <3>2, EndInv DEF Solve
  <2>3. QED
    BY <1>9, <2>1, <2>2 DEF Solve
<1>10. satConflictStep \in Amount
  BY DEF LimitAssumption
<1>11. CASE SearchTest
  BY <1>10, <1>11, WithinBudgetSpends, SpendsInv DEF SearchTest, States
<1>12. CASE SearchReturns
  BY <1>12, MoveInv DEF SearchReturns, States, InCheck
<1>13. CASE SearchAgain
  BY <1>10, <1>13, WithinBudgetSpends, SpendsInv DEF SearchAgain, States
<1>14. CASE SolveReturns
  <2> DEFINE r == spend(rm, satConflictStep)
  <2>1. CASE Spends(r, "thrown")
    BY <1>10, <1>14, <2>1, SpendsInv DEF SolveReturns, States
  <2>2. CASE ~Spends(r, "thrown")
    <3>1. rm \in Managers /\ satConflictStep \in Nat
      BY <1>10 DEF Inv, ManagerTypeOK, LimitAssumption
    <3>2. /\ r \in Managers /\ SameLimits(r, rm) /\ SameCall(r, rm)
          /\ r.d_cumulativeResourceUsed = rm.d_cumulativeResourceUsed + satConflictStep
      BY <3>1, SpendFacts
    <3>3. rm.d_cumulativeResourceUsed <= r.d_cumulativeResourceUsed
      <4>1. rm.d_cumulativeResourceUsed \in Nat
        BY <3>1 DEF Managers
      <4>2. QED
        BY <3>1, <3>2, <4>1
    <3>4. /\ pc' = "user" /\ rm' = endCall(r) /\ UNCHANGED <<now, hist>>
          /\ asynch_interrupt' \in BOOLEAN
      BY <1>14, <2>2, SolveReturnsCases
    <3>5. answer' \in {"none", "solved", "resourceout", "timeout", "interrupted"}
      BY <1>14, <2>2, SolveReturnsCases, WhyFacts
    <3> HIDE DEF r
    <3>6. QED
      BY <3>2, <3>3, <3>4, <3>5, EndInv
  <2>3. QED
    BY <2>1, <2>2
<1>15. CASE Caught
  BY <1>15, MoveInv DEF Caught, States, InCheck
<1>16. CASE UNCHANGED managerVars
  <2>1. ManagerTypeOK'
    BY <1>16 DEF Inv, ManagerTypeOK, managerVars
  <2>2. HistOK' /\ BudgetsSet'
    BY <1>16 DEF Inv, HistOK, BudgetsSet, managerVars
  <2>3. TimerOK(rm.d_cumulativeTimer)' /\ TimerOK(rm.d_perCallTimer)'
    BY <1>16, TimersStay DEF Inv, managerVars
  <2>4. InCheck' => CallBudget' /\ CallTimer'
    BY <1>16 DEF Inv, InCheck, CallBudget, CallTimer, CallClock, UsedSince,
                 cumulativeLimitOn, outOfResources, managerVars
  <2>5. QED
    BY <2>1, <2>2, <2>3, <2>4 DEF Inv
<1>17. QED
  BY <1>1, <1>2, <1>3, <1>4, <1>5, <1>6, <1>7, <1>8, <1>9, <1>11, <1>12, <1>13, <1>14,
     <1>15, <1>16 DEF ManagerNext

-----------------------------------------------------------------------------
(* How a check ends. *)

\* A limit is set by the user.
LimitIsSet ==
  \/ \E units \in CumulativeUnits : SetResourceLimit(units, TRUE)
  \/ \E units \in PerCallUnits : SetResourceLimit(units, FALSE)
  \/ \E millis \in CumulativeMillis : SetTimeLimit(millis, TRUE)
  \/ \E millis \in PerCallMillis : SetTimeLimit(millis, FALSE)

\* The steps inside a check: the limits and the budget of the call stay.
Inside ==
  /\ SameLimits(rm', rm) /\ rm'.d_thisCallResourceBudget = rm.d_thisCallResourceBudget
  /\ InCheck' => InCheck

\* A check gets its answer after spending something.
Answers(amount) ==
  LET r == spend(rm, amount) IN
  /\ InCheck /\ hist' = hist /\ now' = now
  /\ rm'.d_cumulativeResourceUsed = r.d_cumulativeResourceUsed
  /\ answer' = Why(r) \/ (answer' = "solved" /\ ~out(r))

\* spendResource leaves the answer, or gives one.
LEMMA SpendsAnswers ==
  ASSUME LimitAssumption, Inv, NEW amount \in Amount, NEW next \in States,
         pc \notin {"thrown", "failed"}, pc = "user" => next = "user",
         Spends(spend(rm, amount), next)
  PROVE  Inside /\ (answer' \in {answer, "none"} \/ Answers(amount))
<1>1. rm \in Managers /\ amount \in Nat
  BY DEF Inv, ManagerTypeOK, LimitAssumption
<1>2. Inside
  <2>1. rm' = spend(rm, amount) /\ (InCheck' => InCheck)
    BY DEF Spends, InCheck, Inv, ManagerTypeOK
  <2>2. QED
    BY <1>1, <2>1, SpendFacts DEF Inside, SameCall
<1>3. CASE out(spend(rm, amount)) /\ spend(rm, amount).d_isHardLimit /\ pc # "user"
  <2>1. InCheck
    BY <1>3 DEF InCheck, Inv, ManagerTypeOK
  <2>2. answer' = Why(spend(rm, amount))
    BY <1>3 DEF Spends
  <2>3. QED
    BY <1>2, <2>1, <2>2 DEF Answers, Spends
<1>4. CASE ~(out(spend(rm, amount)) /\ spend(rm, amount).d_isHardLimit /\ pc # "user")
  BY <1>2, <1>4 DEF Spends
<1>5. QED
  BY <1>3, <1>4

\* All the ways to get an answer.
LEMMA StepCases ==
  ASSUME LimitAssumption, Inv, [ManagerNext]_managerVars
  PROVE  \/ LimitIsSet \/ BeginCheck
         \/ /\ Inside
            /\ \/ answer' \in {answer, "none"}
               \/ answer' = "solved" /\ pc # "last"
               \/ \E amount \in Amount : Answers(amount)
<1>1. satConflictStep \in Amount /\ rm \in Managers
  BY DEF LimitAssumption, Inv, ManagerTypeOK
<1>2. CASE UNCHANGED <<rm, answer>> /\ (InCheck' => InCheck)
  BY <1>2 DEF Inside, SameLimits
<1>3. CASE Tick \/ SearchReturns \/ Caught \/ UNCHANGED managerVars
  BY <1>2, <1>3 DEF Tick, SearchReturns, Caught, managerVars, InCheck
<1>4. ASSUME NEW amount \in Amount, Process(amount) \/ SearchSpends(amount)
      PROVE  Inside /\ (answer' \in {answer, "none"} \/ Answers(amount))
  <2>1. CASE Process(amount) /\ pc = "user"
    BY <2>1, SpendsAnswers DEF Process, States
  <2>2. CASE Process(amount) /\ pc = "process"
    BY <2>2, SpendsAnswers DEF Process, States
  <2>3. CASE SearchSpends(amount)
    BY <2>3, SpendsAnswers DEF SearchSpends, States
  <2>4. QED
    BY <1>4, <2>1, <2>2, <2>3 DEF Process
<1>5. CASE Solve
  <2>1. CASE pc' = "search" /\ UNCHANGED <<rm, answer>>
    BY <1>2, <1>5, <2>1 DEF Solve, InCheck
  <2>2. CASE pc' = "user" /\ answer' = "solved" /\ rm' = endCall(rm)
    <3>1. pc # "last" /\ ~InCheck'
      BY <1>5, <2>2 DEF Solve, InCheck
    <3>2. SameLimits(rm', rm) /\ rm'.d_thisCallResourceBudget = rm.d_thisCallResourceBudget
      BY <1>1, <2>2, EndCallFacts DEF Inv
    <3>3. QED
      BY <2>2, <3>1, <3>2 DEF Inside
  <2>3. QED
    BY <1>5, <2>1, <2>2 DEF Solve
<1>6. CASE SearchTest
  BY <1>1, <1>6, WithinBudgetSpends, SpendsAnswers DEF SearchTest, States
<1>7. CASE SearchAgain
  BY <1>1, <1>7, WithinBudgetSpends, SpendsAnswers DEF SearchAgain, States
<1>8. CASE SolveReturns
  <2> DEFINE r == spend(rm, satConflictStep)
  <2>1. CASE Spends(r, "thrown")
    BY <1>1, <1>8, <2>1, SpendsAnswers DEF SolveReturns, States
  <2>2. CASE ~Spends(r, "thrown")
    <3>1. /\ pc \in {"last", "gaveup"} /\ pc' = "user" /\ rm' = endCall(r)
          /\ UNCHANGED <<now, hist>>
          /\ answer' = IF asynch_interrupt \/ out(r) THEN Why(r) ELSE "solved"
      BY <1>8, <2>2, SolveReturnsCases
    <3>2. satConflictStep \in Nat
      BY <1>1 DEF LimitAssumption
    <3>3. r \in Managers /\ SameLimits(r, rm) /\ SameCall(r, rm)
      BY <1>1, <3>2, SpendFacts
    <3>4. ManagerTypeOK /\ TimerOK(r.d_perCallTimer)
      BY <3>3 DEF Inv, SameCall
    <3>5. InCheck /\ ~InCheck'
      BY <3>1 DEF InCheck
    <3> HIDE DEF r
    <3>6. /\ SameLimits(rm', r)
          /\ rm'.d_cumulativeResourceUsed = r.d_cumulativeResourceUsed
          /\ rm'.d_thisCallResourceBudget = r.d_thisCallResourceBudget
      BY <3>1, <3>3, <3>4, EndCallFacts
    <3>7. Inside
      BY <3>3, <3>5, <3>6 DEF Inside, SameLimits, SameCall
    <3>8. Answers(satConflictStep)
      BY <3>1, <3>5, <3>6 DEF Answers, r
    <3>9. QED
      BY <1>1, <3>7, <3>8
  <2>3. QED
    BY <2>1, <2>2
<1>9. QED
  BY <1>3, <1>4, <1>5, <1>6, <1>7, <1>8 DEF ManagerNext, LimitIsSet

\* A check that has used as much as its limit is out of resources.
LEMMA SpentIsOut ==
  ASSUME LimitAssumption, Inv, NEW amount \in Amount, Inside, Answers(amount),
         (CumulativeSpent \/ PerCallSpent)'
  PROVE  out(spend(rm, amount))
<1> DEFINE r == spend(rm, amount)
<1>1. rm \in Managers /\ amount \in Nat /\ HistOK /\ CallBudget /\ BudgetsSet
  BY DEF Inv, ManagerTypeOK, LimitAssumption, Answers
<1>2. /\ r \in Managers /\ SameLimits(r, rm) /\ SameCall(r, rm)
      /\ r.d_cumulativeResourceUsed = rm.d_cumulativeResourceUsed + amount
      /\ r.d_thisCallResourceUsed =
           IF rm.d_on THEN rm.d_thisCallResourceUsed + amount ELSE rm.d_thisCallResourceUsed
  BY <1>1, SpendFacts
<1>3. rm'.d_cumulativeResourceUsed = r.d_cumulativeResourceUsed /\ hist' = hist
  BY DEF Answers
<1> HIDE DEF r
<1>4. /\ rm.d_cumulativeResourceUsed \in Nat /\ rm.d_resourceBudgetPerCall \in Nat
      /\ rm.d_thisCallResourceBudget \in Nat
      /\ hist.units \in Nat /\ hist.usedAtSet \in Nat /\ hist.usedAtBegin \in Nat
  BY <1>1 DEF Managers, HistOK
<1>5. CASE CumulativeSpent'
  <2>1. hist.units # 0 /\ r.d_cumulativeResourceUsed - hist.usedAtSet >= hist.units
    BY <1>3, <1>5 DEF CumulativeSpent, UsedSince
  <2>2. rm.d_resourceBudgetCumulative = hist.usedAtSet + hist.units
    BY <1>1, <2>1 DEF BudgetsSet
  <2>3. rm.d_resourceBudgetCumulative # 0 /\ rm.d_on
    BY <1>1, <1>4, <2>1, <2>2 DEF BudgetsSet
  <2>4. /\ rm.d_thisCallResourceUsed = rm.d_cumulativeResourceUsed - hist.usedAtBegin
        /\ rm.d_thisCallResourceBudget = LeftOver(rm.d_resourceBudgetCumulative, hist.usedAtBegin)
        /\ hist.usedAtBegin <= rm.d_cumulativeResourceUsed
    BY <1>1, <2>3 DEF CallBudget, UsedSince, BudgetsSet
  <2>5. rm.d_thisCallResourceBudget <= rm.d_thisCallResourceUsed + amount
    BY <1>1, <1>2, <1>4, <2>1, <2>2, <2>4 DEF LeftOver
  <2>6. QED
    BY <1>2, <2>3, <2>5 DEF out, outOfResources, SameLimits, SameCall, r
<1>6. CASE PerCallSpent'
  <2>1. /\ rm.d_resourceBudgetPerCall # 0 /\ ~cumulativeLimitOn(rm)
        /\ r.d_cumulativeResourceUsed - hist.usedAtBegin >= rm.d_resourceBudgetPerCall
    BY <1>3, <1>6 DEF PerCallSpent, UsedSince, Inside, SameLimits, cumulativeLimitOn
  <2>2. rm.d_on
    BY <1>1, <2>1 DEF BudgetsSet
  <2>3. /\ rm.d_thisCallResourceUsed = rm.d_cumulativeResourceUsed - hist.usedAtBegin
        /\ rm.d_thisCallResourceBudget <= rm.d_resourceBudgetPerCall
    BY <1>1, <2>1, <2>2 DEF CallBudget, UsedSince
  <2>4. rm.d_thisCallResourceBudget <= rm.d_thisCallResourceUsed + amount
    BY <1>1, <1>2, <1>4, <2>1, <2>3
  <2>5. QED
    BY <1>2, <2>1, <2>2, <2>4 DEF out, outOfResources, SameLimits, SameCall, r
<1>7. QED
  BY <1>5, <1>6

\* An answer that comes too late is forgotten.
LEMMA LateStep ==
  ASSUME LimitAssumption, Inv, [ManagerNext]_managerVars PROVE LateAnswerForgotten
<1> SUFFICES ASSUME pc = "last", answer' = "solved", (CumulativeSpent \/ PerCallSpent)'
             PROVE  FALSE
  BY DEF LateAnswerForgotten
<1>1. InCheck /\ answer = "none"
  BY DEF InCheck, Inv, CallBudget
<1>2. ~LimitIsSet /\ ~BeginCheck
  BY DEF LimitIsSet, SetResourceLimit, SetTimeLimit, BeginCheck
<1>3. PICK amount \in Amount : Inside /\ Answers(amount)
  BY <1>1, <1>2, StepCases
<1>4. out(spend(rm, amount))
  BY <1>3, SpentIsOut
<1>5. answer' = Why(spend(rm, amount))
  BY <1>3, <1>4 DEF Answers
<1>6. QED
  BY <1>5, WhyFacts

\* A check that begins is not out of time per call; a check that ends for lack of
\* time has lasted as long as that.
LEMMA TimeoutStep ==
  ASSUME LimitAssumption, Inv, [ManagerNext]_managerVars PROVE TimeoutOnlyWhenExpired
<1> SUFFICES ASSUME answer' = "timeout", answer # "timeout", rm.d_timeBudgetCumulative = 0
             PROVE  now[CallClock] - hist.begun[CallClock] >= rm.d_timeBudgetPerCall
  BY DEF TimeoutOnlyWhenExpired, CallClock
<1>1. ManagerTypeOK /\ rm \in Managers /\ HistOK /\ BudgetsSet /\ TimerOK(rm.d_cumulativeTimer)
  BY DEF Inv, ManagerTypeOK
<1>2. rm.d_cumulativeTimer.d_ms = 0
  BY <1>1 DEF BudgetsSet
<1>3. ~LimitIsSet
  BY DEF LimitIsSet, SetResourceLimit, SetTimeLimit
<1>4. CASE BeginCheck
  <2> DEFINE r == beginCall(rm)
  <2>1. answer' = Why(r)
    BY <1>4 DEF BeginCheck
  <2>2. outOfTime(r)
    BY <2>1, WhyFacts
  <2>3. /\ r.d_cumulativeTimer = rm.d_cumulativeTimer
        /\ r.d_perCallTimer = TimerSet(rm.d_timeBudgetPerCall, ~rm.d_cpuTime)
    BY <1>1, BeginCallFacts
  <2> HIDE DEF r
  <2>4. expired(r.d_perCallTimer)
    BY <1>2, <2>2, <2>3 DEF outOfTime, expired
  <2> DEFINE timer == TimerSet(rm.d_timeBudgetPerCall, ~rm.d_cpuTime)
  <2>5. rm.d_timeBudgetPerCall \in Nat /\ (~rm.d_cpuTime) \in BOOLEAN
    BY <1>1 DEF Managers
  <2>6. /\ now["wall"] \in Nat /\ now["cpu"] \in Nat /\ timer.d_ms = rm.d_timeBudgetPerCall
        /\ timer.clock \in {"wall", "cpu"} /\ timer.limit = now[timer.clock] + rm.d_timeBudgetPerCall
    BY <1>1, <2>5, TimerFacts
  <2> HIDE DEF timer
  <2>7. timer.d_ms # 0 /\ now[timer.clock] >= timer.limit
    BY <2>3, <2>4 DEF expired, timer
  <2>8. QED
    BY <2>5, <2>6, <2>7
<1>5. CASE ~BeginCheck
  <2>1. PICK amount \in Amount : Answers(amount)
    BY <1>3, <1>5, StepCases
  <2> DEFINE r == spend(rm, amount)
  <2>2. amount \in Nat /\ CallTimer
    BY <2>1 DEF LimitAssumption, Inv, Answers
  <2>3. answer' = Why(r)
    BY <2>1 DEF Answers
  <2>4. outOfTime(r) /\ SameCall(r, rm)
    BY <1>1, <2>2, <2>3, WhyFacts, SpendFacts
  <2> HIDE DEF r
  <2>5. expired(rm.d_perCallTimer)
    BY <1>2, <2>4 DEF outOfTime, expired, SameCall
  <2>6. now[CallClock] >= hist.begun[CallClock] + rm.d_timeBudgetPerCall
    BY <2>2, <2>5 DEF expired, CallTimer
  <2>7. CallClock \in {"wall", "cpu"}
    BY DEF CallClock
  <2>8. now[CallClock] \in Nat /\ hist.begun[CallClock] \in Nat /\ rm.d_timeBudgetPerCall \in Nat
    BY <1>1, <2>7 DEF ManagerTypeOK, HistOK, Managers, LimitAssumption
  <2>9. QED
    BY <2>6, <2>8
<1>6. QED
  BY <1>4, <1>5

\* With a hard limit a check that goes on has something left.
LEMMA LimitsFromInv == ASSUME LimitAssumption, Inv PROVE LimitsObeyed
<1> SUFFICES ASSUME rm.d_isHardLimit, InCheck PROVE ~CumulativeSpent /\ ~PerCallSpent
  BY DEF LimitsObeyed
<1>1. rm \in Managers /\ HistOK /\ CallBudget /\ BudgetsSet
  BY DEF Inv, ManagerTypeOK
<1>2. /\ rm.d_cumulativeResourceUsed \in Nat /\ rm.d_resourceBudgetPerCall \in Nat
      /\ rm.d_thisCallResourceBudget \in Nat
      /\ hist.units \in Nat /\ hist.usedAtSet \in Nat /\ hist.usedAtBegin \in Nat
  BY <1>1 DEF Managers, HistOK
<1>3. ~outOfResources(rm) /\ hist.usedAtBegin <= rm.d_cumulativeResourceUsed
  BY <1>1 DEF CallBudget, BudgetsSet
<1>4. rm.d_on => rm.d_thisCallResourceUsed = rm.d_cumulativeResourceUsed - hist.usedAtBegin
  BY <1>1 DEF CallBudget, UsedSince
<1>5. ASSUME CumulativeSpent PROVE FALSE
  <2>1. hist.units # 0 /\ rm.d_cumulativeResourceUsed - hist.usedAtSet >= hist.units
    BY <1>5 DEF CumulativeSpent, UsedSince
  <2>2. rm.d_resourceBudgetCumulative = hist.usedAtSet + hist.units
    BY <1>1, <2>1 DEF BudgetsSet
  <2>3. rm.d_resourceBudgetCumulative # 0 /\ rm.d_on
    BY <1>1, <1>2, <2>1, <2>2 DEF BudgetsSet
  <2>4. rm.d_thisCallResourceBudget = LeftOver(rm.d_resourceBudgetCumulative, hist.usedAtBegin)
    BY <1>1, <2>3 DEF CallBudget
  <2>5. rm.d_thisCallResourceBudget <= rm.d_thisCallResourceUsed
    BY <1>2, <1>3, <1>4, <2>1, <2>2, <2>3, <2>4 DEF LeftOver
  <2>6. QED
    BY <1>3, <2>3, <2>5 DEF outOfResources
<1>6. ASSUME PerCallSpent PROVE FALSE
  <2>1. /\ rm.d_resourceBudgetPerCall # 0 /\ ~cumulativeLimitOn(rm)
        /\ rm.d_cumulativeResourceUsed - hist.usedAtBegin >= rm.d_resourceBudgetPerCall
    BY <1>6 DEF PerCallSpent, UsedSince
  <2>2. rm.d_on /\ rm.d_thisCallResourceBudget <= rm.d_resourceBudgetPerCall
    BY <1>1, <2>1 DEF BudgetsSet, CallBudget
  <2>3. rm.d_thisCallResourceBudget <= rm.d_thisCallResourceUsed
    BY <1>2, <1>4, <2>1, <2>2
  <2>4. QED
    BY <1>3, <2>1, <2>3 DEF outOfResources
<1>7. QED
  BY <1>5, <1>6

-----------------------------------------------------------------------------
(* One limit per call: what is left from earlier calls is that limit. *)

\* The budgets are kept by every step of the manager.
LEMMA KeptStep ==
  ASSUME LimitAssumption, OneLimit, Inv, BudgetKept, [ManagerNext]_managerVars PROVE BudgetKept'
<1>1. ManagerTypeOK /\ rm \in Managers /\ BudgetsSet /\ TimerOK(rm.d_cumulativeTimer)
  BY DEF Inv, ManagerTypeOK
<1>2. CASE Inside
  BY <1>2 DEF BudgetKept, Inside, SameLimits
<1>3. ASSUME NEW units \in CumulativeUnits, SetResourceLimit(units, TRUE) PROVE BudgetKept'
  <2>1. units \in Nat /\ rm.d_cumulativeResourceUsed \in Nat
    BY <1>1 DEF LimitAssumption, Managers
  <2>2. /\ rm'.d_resourceBudgetPerCall = rm.d_resourceBudgetPerCall
        /\ rm'.d_timeBudgetCumulative = rm.d_timeBudgetCumulative
        /\ rm'.d_thisCallResourceBudget = rm'.d_resourceBudgetCumulative
    <3>1. rm' = setResourceLimit(rm, units, TRUE)
      BY <1>3 DEF SetResourceLimit
    <3>2. /\ rm'.d_resourceBudgetPerCall = rm.d_resourceBudgetPerCall
          /\ rm'.d_timeBudgetCumulative = rm.d_timeBudgetCumulative
      BY <1>1, <2>1, <3>1, SetResourceLimitFacts
    <3> DEFINE budget == IF units = 0 THEN 0 ELSE rm.d_cumulativeResourceUsed + units
    <3>3. rm'.d_thisCallResourceBudget = budget
      BY <1>1, <2>1, <3>1, SetResourceLimitFacts
    <3>4. rm'.d_resourceBudgetCumulative = budget
      BY <1>1, <2>1, <3>1, SetResourceLimitFacts
    <3>5. QED
      BY <3>2, <3>3, <3>4
  <2>3. ~InCheck'
    BY <1>3 DEF SetResourceLimit, InCheck
  <2>4. QED
    BY <2>2, <2>3 DEF BudgetKept
<1>4. ASSUME NEW units \in PerCallUnits, SetResourceLimit(units, FALSE) PROVE BudgetKept'
  <2>1. units \in Nat
    BY DEF LimitAssumption
  <2>2. /\ rm'.d_resourceBudgetPerCall = units
        /\ rm'.d_resourceBudgetCumulative = rm.d_resourceBudgetCumulative
        /\ rm'.d_timeBudgetCumulative = rm.d_timeBudgetCumulative
        /\ rm'.d_thisCallResourceBudget = rm.d_thisCallResourceBudget
    BY <1>1, <1>4, <2>1, SetResourceLimitFacts DEF SetResourceLimit
  <2>3. ~InCheck'
    BY <1>4 DEF SetResourceLimit, InCheck
  <2>4. QED
    BY <2>2, <2>3 DEF BudgetKept
<1>5. ASSUME NEW millis \in CumulativeMillis, SetTimeLimit(millis, TRUE) PROVE BudgetKept'
  <2>1. millis \in Nat
    BY DEF LimitAssumption
  <2>2. /\ rm'.d_resourceBudgetPerCall = rm.d_resourceBudgetPerCall
        /\ rm'.d_resourceBudgetCumulative = rm.d_resourceBudgetCumulative
        /\ rm'.d_timeBudgetCumulative # 0 => millis # 0
        /\ rm'.d_thisCallResourceBudget = rm.d_thisCallResourceBudget
    BY <1>1, <1>5, <2>1, SetTimeLimitFacts DEF SetTimeLimit
  <2>3. ~InCheck'
    BY <1>5 DEF SetTimeLimit, InCheck
  <2>4. QED
    BY <2>2, <2>3 DEF BudgetKept
<1>6. ASSUME NEW millis \in PerCallMillis, SetTimeLimit(millis, FALSE) PROVE BudgetKept'
  <2>1. millis \in Nat
    BY DEF LimitAssumption
  <2>2. /\ rm'.d_resourceBudgetPerCall = rm.d_resourceBudgetPerCall
        /\ rm'.d_resourceBudgetCumulative = rm.d_resourceBudgetCumulative
        /\ rm'.d_timeBudgetCumulative = rm.d_timeBudgetCumulative
        /\ rm'.d_thisCallResourceBudget = rm.d_thisCallResourceBudget
    BY <1>1, <1>6, <2>1, SetTimeLimitFacts DEF SetTimeLimit
  <2>3. ~InCheck'
    BY <1>6 DEF SetTimeLimit, InCheck
  <2>4. QED
    BY <2>2, <2>3 DEF BudgetKept
<1>7. CASE BeginCheck
  <2>1. CASE ~BeginAsserts(rm)
    BY <1>7, <2>1 DEF BeginCheck, BudgetKept, InCheck
  <2>2. CASE BeginAsserts(rm)
    <3>1. rm' = beginCall(rm)
      BY <1>7, <2>2 DEF BeginCheck
    <3>2. SameLimits(rm', rm) /\ rm'.d_thisCallResourceBudget = BudgetOf(rm)
      BY <1>1, <3>1, BeginCallFacts
    <3>3. rm.d_thisCallResourceBudget \in Nat /\ rm.d_resourceBudgetPerCall \in Nat
      BY <1>1 DEF Managers
    <3>4. rm.d_resourceBudgetCumulative = 0 => BudgetOf(rm) \in {0} \cup PerCallUnits
      BY <3>3 DEF BudgetKept, BudgetOf, Smaller
    <3>5. ASSUME rm.d_resourceBudgetCumulative = 0, rm.d_resourceBudgetPerCall # 0
          PROVE  BudgetOf(rm) = rm.d_resourceBudgetPerCall
      <4>1. rm.d_on /\ rm.d_resourceBudgetPerCall \in PerCallUnits \ {0}
        BY <1>1, <3>5 DEF BudgetsSet, BudgetKept
      <4>2. rm.d_timeBudgetCumulative = 0
        BY <4>1 DEF OneLimit, BudgetKept
      <4>3. BudgetOf(rm) = Smaller(rm.d_thisCallResourceBudget, rm.d_resourceBudgetPerCall)
        BY <3>5, <4>1, <4>2 DEF BudgetOf
      <4>4. rm.d_thisCallResourceBudget \in {0, rm.d_resourceBudgetPerCall}
        BY <3>5, <4>1 DEF OneLimit, BudgetKept
      <4>5. QED
        BY <3>3, <3>5, <4>3, <4>4 DEF Smaller
    <3>6. QED
      BY <3>2, <3>4, <3>5 DEF BudgetKept, SameLimits
  <2>3. QED
    BY <2>1, <2>2
<1>8. QED
  BY <1>2, <1>3, <1>4, <1>5, <1>6, <1>7, StepCases DEF LimitIsSet

\* A check ends for lack of resources only if a limit is spent.
LEMMA StoppedStep ==
  ASSUME LimitAssumption, OneLimit, Inv, BudgetKept, [ManagerNext]_managerVars PROVE StoppedOnlyWhenSpent
<1> SUFFICES ASSUME answer' = "resourceout", answer # "resourceout"
             PROVE  \/ CumulativeSpent'
                    \/ (/\ rm.d_resourceBudgetPerCall # 0
                        /\ UsedSince(hist.usedAtBegin) >= rm.d_resourceBudgetPerCall)'
  BY DEF StoppedOnlyWhenSpent
<1>1. ManagerTypeOK /\ rm \in Managers /\ HistOK /\ BudgetsSet /\ TimerOK(rm.d_cumulativeTimer)
  BY DEF Inv, ManagerTypeOK
<1>2. /\ rm.d_cumulativeResourceUsed \in Nat /\ rm.d_resourceBudgetPerCall \in Nat
      /\ rm.d_thisCallResourceBudget \in Nat
      /\ hist.units \in Nat /\ hist.usedAtSet \in Nat /\ hist.usedAtBegin \in Nat
  BY <1>1 DEF Managers, HistOK
<1>3. ~LimitIsSet
  BY DEF LimitIsSet, SetResourceLimit, SetTimeLimit
<1>4. rm.d_resourceBudgetCumulative # 0 =>
        hist.units # 0 /\ rm.d_resourceBudgetCumulative = hist.usedAtSet + hist.units
  BY <1>1 DEF BudgetsSet
<1>5. rm.d_resourceBudgetCumulative # 0 \/ rm.d_resourceBudgetPerCall # 0 => rm.d_on
  BY <1>1 DEF BudgetsSet
<1>6. CASE BeginCheck
  <2> DEFINE r == beginCall(rm)
  <2>1. answer' = Why(r) /\ cumulativeLimitOn(r) /\ rm' = r
    BY <1>6 DEF BeginCheck
  <2>2. /\ SameLimits(r, rm) /\ r.d_thisCallResourceUsed = 0
        /\ r.d_cumulativeResourceUsed = rm.d_cumulativeResourceUsed
        /\ r.d_thisCallResourceBudget = BudgetOf(rm)
    BY <1>1, BeginCallFacts
  <2>3. outOfResources(r)
    BY <2>1, WhyFacts
  <2> HIDE DEF r
  <2>4. /\ rm.d_resourceBudgetPerCall # 0 \/ rm.d_resourceBudgetCumulative # 0
        /\ BudgetOf(rm) <= 0
        /\ rm.d_timeBudgetCumulative # 0 \/ rm.d_resourceBudgetCumulative # 0
    BY <2>1, <2>2, <2>3 DEF outOfResources, SameLimits, cumulativeLimitOn
  <2>5. rm.d_resourceBudgetCumulative # 0
    <3>1. SUFFICES ASSUME rm.d_resourceBudgetCumulative = 0 PROVE FALSE
      OBVIOUS
    <3>2. rm.d_resourceBudgetPerCall \in PerCallUnits \ {0} /\ rm.d_timeBudgetCumulative # 0
      BY <2>4, <3>1 DEF BudgetKept
    <3>3. QED
      BY <3>2 DEF OneLimit, BudgetKept
  <2>6. LeftOver(rm.d_resourceBudgetCumulative, rm.d_cumulativeResourceUsed) <= 0
    BY <1>5, <2>4, <2>5 DEF BudgetOf
  <2>7. rm.d_cumulativeResourceUsed - hist.usedAtSet >= hist.units
    BY <1>2, <1>4, <2>5, <2>6 DEF LeftOver
  <2>8. hist'.units = hist.units /\ hist'.usedAtSet = hist.usedAtSet
    BY <1>1, <1>6 DEF BeginCheck, HistOK
  <2>9. QED
    BY <1>4, <2>1, <2>2, <2>5, <2>7, <2>8 DEF CumulativeSpent, UsedSince
<1>7. CASE ~BeginCheck
  <2>1. PICK amount \in Amount : Inside /\ Answers(amount)
    BY <1>3, <1>7, StepCases
  <2> DEFINE r == spend(rm, amount)
  <2>2. amount \in Nat /\ CallBudget /\ InCheck
    BY <2>1 DEF LimitAssumption, Inv, Answers
  <2>3. answer' = Why(r) /\ hist' = hist
        /\ rm'.d_cumulativeResourceUsed = r.d_cumulativeResourceUsed
    BY <2>1 DEF Answers
  <2>4. /\ outOfResources(r) /\ SameLimits(r, rm) /\ SameCall(r, rm)
        /\ r.d_cumulativeResourceUsed = rm.d_cumulativeResourceUsed + amount
        /\ r.d_thisCallResourceUsed =
             IF rm.d_on THEN rm.d_thisCallResourceUsed + amount ELSE rm.d_thisCallResourceUsed
    BY <1>1, <2>2, <2>3, WhyFacts, SpendFacts
  <2> HIDE DEF r
  <2>5. /\ rm.d_resourceBudgetPerCall # 0 \/ rm.d_resourceBudgetCumulative # 0
        /\ rm.d_thisCallResourceBudget <= r.d_thisCallResourceUsed
    BY <2>4 DEF outOfResources, SameLimits, SameCall
  <2>6. /\ rm.d_on
        /\ rm.d_thisCallResourceUsed = rm.d_cumulativeResourceUsed - hist.usedAtBegin
    BY <1>5, <2>2, <2>5 DEF CallBudget, UsedSince
  <2>7. rm.d_thisCallResourceBudget <= rm.d_cumulativeResourceUsed + amount - hist.usedAtBegin
    BY <1>2, <2>2, <2>4, <2>5, <2>6
  <2>8. CASE rm.d_resourceBudgetCumulative # 0
    <3>1. rm.d_thisCallResourceBudget = LeftOver(rm.d_resourceBudgetCumulative, hist.usedAtBegin)
      BY <2>2, <2>8 DEF CallBudget
    <3>2. rm.d_cumulativeResourceUsed + amount - hist.usedAtSet >= hist.units
      BY <1>1, <1>2, <1>4, <2>2, <2>7, <2>8, <3>1 DEF LeftOver, BudgetsSet
    <3>3. rm'.d_cumulativeResourceUsed = rm.d_cumulativeResourceUsed + amount
      BY <2>3, <2>4
    <3>4. hist.units # 0
      BY <1>4, <2>8
    <3>5. CumulativeSpent'
      BY <1>2, <2>2, <2>3, <3>2, <3>3, <3>4 DEF CumulativeSpent, UsedSince
    <3>6. QED
      BY <3>5
  <2>9. CASE rm.d_resourceBudgetCumulative = 0
    <3>1. rm.d_resourceBudgetPerCall # 0
      BY <2>5, <2>9
    <3>2. rm.d_thisCallResourceBudget = rm.d_resourceBudgetPerCall
      BY <2>2, <2>9, <3>1 DEF BudgetKept
    <3>3. rm'.d_resourceBudgetPerCall = rm.d_resourceBudgetPerCall
      BY <2>1 DEF Inside, SameLimits
    <3>4. QED
      BY <1>2, <2>2, <2>3, <2>4, <2>7, <3>1, <3>2, <3>3 DEF UsedSince
  <2>10. QED
    BY <2>8, <2>9
<1>8. QED
  BY <1>6, <1>7

-----------------------------------------------------------------------------
(* The theorems. *)

\* Whatever limits are set, in units or in time, cumulative or per call, together
\* or in turns: the state of the manager and the history of what was used agree.
THEOREM ManagerCorrect == ASSUME LimitAssumption PROVE ManagerSpec => []Inv
<1>1. ManagerInit => Inv
  BY InitInv
<1>2. Inv /\ [ManagerNext]_managerVars => Inv'
  BY StepInv
<1>3. QED
  BY <1>1, <1>2, PTL DEF ManagerSpec

\* Whatever limits are set: with --hard-limit no check goes on once its resources
\* are spent; without it an answer that comes after the limit is forgotten; and
\* without a cumulative time limit a check ends with "timeout" only after the time
\* that one call may take.
THEOREM LimitsCorrect ==
  ASSUME LimitAssumption
  PROVE  ManagerSpec => []LimitsObeyed /\ [][LateAnswerForgotten /\ TimeoutOnlyWhenExpired]_managerVars
<1>1. Inv => LimitsObeyed
  BY LimitsFromInv
<1>2. Inv /\ [ManagerNext]_managerVars => [LateAnswerForgotten /\ TimeoutOnlyWhenExpired]_managerVars
  BY LateStep, TimeoutStep
<1>3. QED
  BY <1>1, <1>2, ManagerCorrect, PTL DEF ManagerSpec

\* Where one limit per call is used, and not together with a cumulative time limit,
\* a check also ends with "resourceout" only if one of the limits is spent.
THEOREM StopsCorrect ==
  ASSUME LimitAssumption, OneLimit PROVE ManagerSpec => StopsRight
<1>1. ManagerInit => BudgetKept
  BY DEF ManagerInit, Manager, BudgetKept, InCheck
<1>2. Inv /\ BudgetKept /\ [ManagerNext]_managerVars => BudgetKept'
  BY KeptStep
<1>3. Inv /\ BudgetKept /\ [ManagerNext]_managerVars =>
        [LateAnswerForgotten /\ StoppedOnlyWhenSpent /\ TimeoutOnlyWhenExpired]_managerVars
  BY LateStep, StoppedStep, TimeoutStep
<1>4. Inv => LimitsObeyed
  BY LimitsFromInv
<1>5. QED
  BY <1>1, <1>2, <1>3, <1>4, ManagerCorrect, PTL DEF ManagerSpec, StopsRight
=============================================================================
