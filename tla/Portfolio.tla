------------------------------ MODULE Portfolio ------------------------------
(***************************************************************************)
(* One race of the portfolio solver: runPortfolio and runThread            *)
(* (main/portfolio.cpp), the sharing thread (sharingManager in             *)
(* main/portfolio_util.h) and the two ends of lemma sharing in the worker  *)
(* threads (PortfolioLemmaOutputChannel and PortfolioLemmaInputChannel,    *)
(* called from TheoryProxy).  The channels are taken at the level of       *)
(* BoundedQueue, which SharedChannel implements; the solver of a worker is *)
(* a query that may send and receive lemmas until it ends.                 *)
(***************************************************************************)
EXTENDS Integers, Sequences

CONSTANTS numThreads,       \* the worker threads are 0..numThreads-1
          optionWaitToJoin, \* --wait-to-join
          Capacity,         \* sharingChannelSize
          MaxLemmas,        \* bound: how many lemmas a worker shares
          Finishing         \* the workers whose query ends by itself; the
                            \* others search until they are interrupted

Workers == 0..(numThreads - 1)

WorkersAssumption == numThreads \in Nat \ {0, 1}
OptionsAssumption == optionWaitToJoin \in BOOLEAN /\ Finishing \subseteq Workers
SharingAssumption == Capacity \in Nat \ {0} /\ MaxLemmas \in Nat

NoOne == -1

VARIABLES
  mpc, mt,        \* the main thread's place in runPortfolio, and its loop index
  dpc, dt,        \* the sharing thread's, and its loop index
  wpc,            \* wpc[t]: the place of worker t in runThread
  flag_done, winner,      \* global_flag_done, global_winner
  mutex_done, mutex_main, \* who holds mutex_done and mutex_main_wait
  returnValue,    \* whether threads_returnValue[t] has been written
  stop,           \* thread_driver.interrupt() was called
  interrupted,    \* asynch_interrupt of the engine of t
  out, in,        \* channelsOut[t], channelsIn[t]
  queues,         \* the sharing thread's own queues
  sent, got       \* history: lemmas that t shared; that t took, by origin

race == <<flag_done, winner, mutex_done, mutex_main, returnValue>>
lemmas == <<out, in, queues, sent, got>>
raceVars == <<mpc, mt, dpc, dt, wpc, race, stop, interrupted, lemmas>>

RaceInit ==
  /\ mpc = "spawn" /\ mt = 0
  /\ dpc = "unborn" /\ dt = 0
  /\ wpc = [t \in Workers |-> "unborn"]
  /\ flag_done = FALSE /\ winner = NoOne
  /\ mutex_done = NoOne /\ mutex_main = NoOne
  /\ returnValue = [t \in Workers |-> FALSE]
  /\ stop = FALSE
  /\ interrupted = [t \in Workers |-> FALSE]
  /\ out = [t \in Workers |-> << >>]
  /\ in = [t \in Workers |-> << >>]
  /\ queues = [t \in Workers |-> << >>]
  /\ sent = [t \in Workers |-> 0]
  /\ got = [t \in Workers |-> [u \in Workers |-> 0]]

Goes(t, from, to) == wpc[t] = from /\ wpc' = [wpc EXCEPT ![t] = to]

-----------------------------------------------------------------------------
(* The worker threads: first the query, which is what threadFn() is here.  *)

\* checkSat: d_inCheckSat is set, after the commands that come before it.
BeginQuery(t) ==
  /\ Goes(t, "commands", "query")
  /\ UNCHANGED <<mpc, mt, dpc, dt, race, stop, interrupted, lemmas>>

Lemma(t) == <<t, sent[t] + 1>>

\* A learnt clause is pushed on channelsOut[t]; push() waits when it is full.
notifyNewLemma(t) ==
  /\ wpc[t] = "query" /\ sent[t] < MaxLemmas
  /\ IF Len(out[t]) < Capacity
     THEN /\ out' = [out EXCEPT ![t] = Append(@, Lemma(t))]
          /\ sent' = [sent EXCEPT ![t] = @ + 1]
          /\ UNCHANGED wpc
     ELSE /\ wpc' = [wpc EXCEPT ![t] = "blocked"]
          /\ UNCHANGED <<out, sent>>
  /\ UNCHANGED <<mpc, mt, dpc, dt, race, stop, interrupted, in, queues, got>>

\* The push() that waited goes on.
PushGoesOn(t) ==
  /\ Goes(t, "blocked", "query") /\ Len(out[t]) < Capacity
  /\ out' = [out EXCEPT ![t] = Append(@, Lemma(t))]
  /\ sent' = [sent EXCEPT ![t] = @ + 1]
  /\ UNCHANGED <<mpc, mt, dpc, dt, race, stop, interrupted, in, queues, got>>

\* One round of the loop over hasNewLemma() in TheoryProxy::notifyRestart.
getNewLemma(t) ==
  /\ wpc[t] = "query" /\ in[t] # << >>
  /\ in' = [in EXCEPT ![t] = Tail(@)]
  /\ got' = [got EXCEPT ![t][Head(in[t])[1]] = @ + 1]
  /\ UNCHANGED <<mpc, mt, dpc, dt, wpc, race, stop, interrupted, out, queues, sent>>

\* threadFn() returns and its result is stored.
Return(t) ==
  /\ Goes(t, "query", "returned")
  /\ returnValue' = [returnValue EXCEPT ![t] = TRUE]
  /\ UNCHANGED <<mpc, mt, dpc, dt, flag_done, winner, mutex_done, mutex_main, stop,
                 interrupted, lemmas>>

\* mutex_done.try_lock(), and the test of global_flag_done under that mutex.
try_lock(t) ==
  /\ IF mutex_done = NoOne
     THEN Goes(t, "returned", IF flag_done THEN "unlock" ELSE "setting") /\ mutex_done' = t
     ELSE Goes(t, "returned", "exited") /\ UNCHANGED mutex_done
  /\ UNCHANGED <<mpc, mt, dpc, dt, flag_done, winner, mutex_main, returnValue, stop,
                 interrupted, lemmas>>

\* Faulty variant of SetWinner: without the lock on mutex_main_wait.
SetWinnerUnlocked(t) ==
  /\ Goes(t, "setting", "notify")
  /\ winner' = t /\ flag_done' = TRUE
  /\ UNCHANGED <<mpc, mt, dpc, dt, mutex_done, mutex_main, returnValue, stop, interrupted, lemmas>>

\* Faulty variant of SetWinner: gives up when main has the mutex.
SetWinnerTry(t) ==
  /\ IF mutex_main = NoOne
     THEN Goes(t, "setting", "notify") /\ winner' = t /\ flag_done' = TRUE
     ELSE Goes(t, "setting", "unlock") /\ UNCHANGED <<winner, flag_done>>
  /\ UNCHANGED <<mpc, mt, dpc, dt, mutex_done, mutex_main, returnValue, stop, interrupted, lemmas>>

\* The block under lock_guard(mutex_main_wait).
SetWinner(t) ==
  /\ Goes(t, "setting", "notify")
  /\ mutex_main = NoOne
  /\ winner' = t /\ flag_done' = TRUE
  /\ UNCHANGED <<mpc, mt, dpc, dt, mutex_done, mutex_main, returnValue, stop, interrupted, lemmas>>

\* condition_var_main_wait.notify_all(): nobody but main waits on it.
notify_all(t) ==
  /\ Goes(t, "notify", "unlock")
  /\ mpc' = IF mpc = "waiting" THEN "woken" ELSE mpc
  /\ UNCHANGED <<mt, dpc, dt, race, stop, interrupted, lemmas>>

unlock(t) ==
  /\ Goes(t, "unlock", "exited")
  /\ mutex_done' = NoOne
  /\ UNCHANGED <<mpc, mt, dpc, dt, flag_done, winner, mutex_main, returnValue, stop,
                 interrupted, lemmas>>

-----------------------------------------------------------------------------
(* The main thread, in runPortfolio.                                       *)

MainGoes(from, to) == mpc = from /\ mpc' = to

\* The loop that creates the workers, then the sharing thread.
Spawn ==
  /\ IF mt < numThreads
     THEN /\ mpc = "spawn" /\ UNCHANGED <<mpc, dpc>>
          /\ Goes(mt, "unborn", "commands")
          /\ mt' = mt + 1
     ELSE /\ MainGoes("spawn", "lock")
          /\ dpc' = "loop" /\ mt' = 0
          /\ UNCHANGED wpc
  /\ UNCHANGED <<dt, race, stop, interrupted, lemmas>>

\* unique_lock lock(mutex_main_wait), or wait() taking it again.
MainLock ==
  /\ mpc \in {"lock", "woken"} /\ mpc' = "test"
  /\ mutex_main = NoOne /\ mutex_main' = numThreads
  /\ UNCHANGED <<mt, dpc, dt, wpc, flag_done, winner, mutex_done, returnValue, stop,
                 interrupted, lemmas>>

\* while(global_flag_done == false); main keeps the mutex when it leaves.
MainTest ==
  /\ MainGoes("test", IF flag_done THEN "interrupt" ELSE "wait")
  /\ UNCHANGED <<mt, dpc, dt, wpc, race, stop, interrupted, lemmas>>

\* wait(lock) unlocks and starts to wait in one step.
MainWait ==
  /\ MainGoes("wait", "waiting")
  /\ mutex_main' = NoOne
  /\ UNCHANGED <<mt, dpc, dt, wpc, flag_done, winner, mutex_done, returnValue, stop,
                 interrupted, lemmas>>

\* A condition variable may wake its thread for no reason.
MainWakesAlone ==
  /\ MainGoes("waiting", "woken")
  /\ UNCHANGED <<mt, dpc, dt, wpc, race, stop, interrupted, lemmas>>

\* thread_driver.interrupt()
MainInterrupt ==
  /\ MainGoes("interrupt", "join_driver")
  /\ stop' = TRUE
  /\ UNCHANGED <<mt, dpc, dt, wpc, race, interrupted, lemmas>>

\* thread_driver.join()
JoinDriver ==
  /\ dpc = "exited"
  /\ MainGoes("join_driver", IF optionWaitToJoin THEN "join" ELSE "returning")
  /\ UNCHANGED <<mt, dpc, dt, wpc, race, stop, interrupted, lemmas>>

\* threads[t].join() for all t in turn.
Join ==
  /\ mpc = "join" /\ wpc[mt] = "exited"
  /\ MainGoes("join", IF mt = numThreads - 1 THEN "returning" ELSE "join")
  /\ mt' = IF mt = numThreads - 1 THEN mt ELSE mt + 1
  /\ UNCHANGED <<dpc, dt, wpc, race, stop, interrupted, lemmas>>

\* retval is built from global_winner; the lock is released on return.
MainReturn ==
  /\ MainGoes("returning", "done")
  /\ mutex_main' = NoOne
  /\ UNCHANGED <<mt, dpc, dt, wpc, flag_done, winner, mutex_done, returnValue, stop,
                 interrupted, lemmas>>

-----------------------------------------------------------------------------
(* The sharing thread.  It is the only reader of channelsOut and the only  *)
(* writer of channelsIn, so its tests of empty() and full(), made without  *)
(* the channel's mutex, still hold when it acts on them.                   *)

DriverGoes(from, to) == dpc = from /\ dpc' = to

\* while(not interruption_requested())
DriverLoop ==
  /\ DriverGoes("loop", IF stop THEN "interrupting" ELSE "take")
  /\ dt' = 0
  /\ UNCHANGED <<mpc, mt, wpc, race, stop, interrupted, lemmas>>

\* The end of an index loop over the threads.
NextThread(this, after) ==
  IF dt = numThreads - 1 THEN DriverGoes(this, after) /\ dt' = 0
                         ELSE DriverGoes(this, this) /\ dt' = dt + 1

\* Faulty variant of Broadcast: the sender gets its own lemma as well.
BroadcastAll(data) ==
  queues' = [u \in Workers |-> Append(queues[u], data)]

\* queues[u].push(data) for every other thread.
Broadcast(data) ==
  queues' = [u \in Workers |-> IF u = dt THEN queues[u] ELSE Append(queues[u], data)]

\* One round of the first loop: at most one lemma is taken from each channel.
DriverTake ==
  /\ NextThread("take", "give")
  /\ IF out[dt] = << >>
     THEN UNCHANGED <<out, queues>>
     ELSE /\ out' = [out EXCEPT ![dt] = Tail(@)]
          /\ Broadcast(Head(out[dt]))
  /\ UNCHANGED <<mpc, mt, wpc, race, stop, interrupted, in, sent, got>>

\* One round of the inner while loop of the second loop, or its end.
DriverGive ==
  /\ IF queues[dt] # << >> /\ Len(in[dt]) < Capacity
     THEN /\ DriverGoes("give", "give")
          /\ in' = [in EXCEPT ![dt] = Append(@, Head(queues[dt]))]
          /\ queues' = [queues EXCEPT ![dt] = Tail(@)]
          /\ UNCHANGED dt
     ELSE /\ NextThread("give", "loop")
          /\ UNCHANGED <<in, queues>>
  /\ UNCHANGED <<mpc, mt, wpc, race, stop, interrupted, out, sent, got>>

\* smts[t]->interrupt(): PropEngine::interrupt() returns silently when the
\* engine is not in a query.
DriverInterrupt ==
  /\ NextThread("interrupting", "exited")
  /\ interrupted' = [interrupted EXCEPT ![dt] = @ \/ wpc[dt] \in {"query", "blocked"}]
  /\ UNCHANGED <<mpc, mt, wpc, race, stop, lemmas>>

-----------------------------------------------------------------------------
Query(t) == BeginQuery(t) \/ notifyNewLemma(t) \/ PushGoesOn(t) \/ getNewLemma(t) \/ Return(t)
Finish(t) == try_lock(t) \/ SetWinner(t) \/ notify_all(t) \/ unlock(t)
Main == \/ Spawn \/ MainLock \/ MainTest \/ MainWait
        \/ MainInterrupt \/ JoinDriver \/ Join \/ MainReturn
Driver == DriverLoop \/ DriverTake \/ DriverGive \/ DriverInterrupt

\* The program goes on after the race; what it does is not part of it.
Over == mpc = "done" /\ UNCHANGED raceVars

RaceNext == \/ \E t \in Workers : Query(t) \/ Finish(t)
        \/ Main \/ MainWakesAlone
        \/ Driver
        \/ Over

RaceSpec == RaceInit /\ [][RaceNext]_raceVars

\* Every thread that can run is run.  A query of a worker in Finishing ends;
\* any query ends once its interrupt flag is set, since the search tests the
\* flag (Solver::withinBudget).  How many lemmas it shares before is open.
\* Main may wake and take mutex_main_wait again and again, but it gives it up
\* each time, so a worker that asks for it gets it (strong fairness).
RaceFairness ==
  /\ WF_raceVars(Main) /\ WF_raceVars(Driver)
  /\ \A t \in Workers :
       /\ WF_raceVars(Finish(t)) /\ SF_raceVars(SetWinner(t))
       /\ WF_raceVars(BeginQuery(t)) /\ WF_raceVars(PushGoesOn(t))
       /\ WF_raceVars((t \in Finishing \/ interrupted[t]) /\ Return(t))

-----------------------------------------------------------------------------
WorkerPlaces == {"unborn", "commands", "query", "blocked", "returned", "setting", "notify",
                 "unlock", "exited"}
MainPlaces == {"spawn", "lock", "test", "wait", "waiting", "woken", "interrupt", "join_driver",
               "join", "returning", "done"}
LemmaSeq == Seq(Workers \X (1..MaxLemmas))

RaceTypeOK ==
  /\ mpc \in MainPlaces /\ mt \in 0..numThreads
  /\ dpc \in {"unborn", "loop", "take", "give", "interrupting", "exited"} /\ dt \in Workers
  /\ wpc \in [Workers -> WorkerPlaces]
  /\ flag_done \in BOOLEAN /\ winner \in Workers \cup {NoOne}
  /\ mutex_done \in Workers \cup {NoOne} /\ mutex_main \in {NoOne, numThreads}
  /\ returnValue \in [Workers -> BOOLEAN]
  /\ stop \in BOOLEAN /\ interrupted \in [Workers -> BOOLEAN]
  /\ out \in [Workers -> LemmaSeq] /\ in \in [Workers -> LemmaSeq]
  /\ queues \in [Workers -> LemmaSeq]
  /\ sent \in [Workers -> 0..MaxLemmas]
  /\ got \in [Workers -> [Workers -> 0..MaxLemmas]]

\* What main returns is what the winner computed, and there is one winner: the
\* pair that runPortfolio builds is of a thread that stored its result.
WinnerHasAnswered ==
  /\ flag_done => returnValue[winner]
  /\ mpc \in {"interrupt", "join_driver", "join", "returning", "done"} => flag_done

\* A thread that loses the try_lock race does nothing.  That is right because
\* a winner is set or the thread that holds mutex_done is about to set it.
SomeoneWins ==
  \A t \in Workers : wpc[t] = "exited" =>
     flag_done \/ (mutex_done # NoOne /\ wpc[mutex_done] = "setting")

\* Whoever comes first, main returns the stored result of one winner.
RaceRight == RaceTypeOK /\ WinnerHasAnswered /\ SomeoneWins

\* How many lemmas of u the sharing thread has taken out of channelsOut[u].
Taken(u) == sent[u] - Len(out[u])

\* Where the lemmas of u are in the sequence s.
From(u, s) == {i \in DOMAIN s : s[i][1] = u}

\* They are those numbered lo + 1 to hi, in order.
InOrder(s, u, lo, hi) ==
  /\ lo <= hi
  /\ \A i, j \in From(u, s) : i < j => s[i][2] < s[j][2]
  /\ {s[i][2] : i \in From(u, s)} = (lo + 1)..hi

\* Every thread gets the lemmas of every other thread in the order they were
\* shared, each once, and none of its own: what is between u and t at any time
\* are the lemmas of u that t has not got.
LemmasInOrder ==
  \A u \in Workers :
    /\ \A i \in DOMAIN out[u] : out[u][i] = <<u, Taken(u) + i>>
    /\ \A t \in Workers :
         InOrder(in[t] \o queues[t], u, got[t][u], IF t = u THEN 0 ELSE Taken(u))

\* The race ends: main gets out of runPortfolio.
MainReturns == <>(mpc = "done")
=============================================================================
