--------------------------- MODULE PortfolioProofs ---------------------------
(***************************************************************************)
(* Proofs about Portfolio, for any number of threads, any channel size and *)
(* any number of lemmas: the race has one winner, whose result is stored   *)
(* when main uses it, and the sharing thread brings every lemma to every   *)
(* other thread once and in order.  About CommandExecutorPortfolio,        *)
(* which keeps the engines in step between the races, and SharedChannel    *)
(* for any finite number of threads at its two ends and any capacity: no   *)
(* wake-up is missed, and it implements BoundedQueue.                      *)
(***************************************************************************)
EXTENDS SharedChannel, Portfolio, CommandExecutorPortfolio, FiniteSetTheorems,
        SequenceTheorems, TLAPS

\* The places of a worker between its try_lock and its unlock of mutex_done.
Holding == {"setting", "notify", "unlock"}

\* mutex_done is held by the one thread that is between try_lock and unlock.
LockHeld == \A t \in Workers : mutex_done = t <=> wpc[t] \in Holding

\* Under it, global_flag_done is what the thread has seen or made it.
FlagSeen ==
  \A t \in Workers :
    /\ wpc[t] = "setting" => ~flag_done
    /\ wpc[t] \in {"notify", "unlock"} => flag_done

\* A thread that is through with its query has stored its result.
Stored ==
  \A t \in Workers : wpc[t] \in Holding \cup {"returned", "exited"} => returnValue[t]

\* The winner is a thread.
WinnerSet == flag_done => winner \in Workers

\* The inductive invariant of the race; lemma sharing does not bear on it.
RaceInv ==
  /\ LockHeld /\ FlagSeen /\ Stored /\ WinnerSet
  /\ WinnerHasAnswered /\ SomeoneWins

\* The places and the flags have their types; main joins threads that exist.
PlaceOK ==
  /\ mpc \in MainPlaces /\ mt \in 0..numThreads /\ (mpc # "spawn" => mt \in Workers)
  /\ dpc \in {"unborn", "loop", "take", "give", "interrupting", "exited"} /\ dt \in Workers
  /\ wpc \in [Workers -> WorkerPlaces]
  /\ flag_done \in BOOLEAN /\ winner \in Workers \cup {NoOne}
  /\ mutex_done \in Workers \cup {NoOne} /\ mutex_main \in {NoOne, numThreads}
  /\ returnValue \in [Workers -> BOOLEAN]
  /\ stop \in BOOLEAN /\ interrupted \in [Workers -> BOOLEAN]

\* So have the lemmas; a push() that waits is of a lemma within the bound.
LemmaOK ==
  /\ out \in [Workers -> LemmaSeq] /\ in \in [Workers -> LemmaSeq]
  /\ queues \in [Workers -> LemmaSeq]
  /\ sent \in [Workers -> 0..MaxLemmas]
  /\ got \in [Workers -> [Workers -> 0..MaxLemmas]]
  /\ \A t \in Workers : wpc[t] = "blocked" => sent[t] < MaxLemmas
  /\ \A t \in Workers : Len(out[t]) <= sent[t]

\* The inductive invariant.
Inv == PlaceOK /\ RaceInv /\ LemmaOK /\ LemmasInOrder

-----------------------------------------------------------------------------
(* Places and flags. *)

\* The threads are numbered from 0, and NoOne and main are none of them.
LEMMA WorkersFacts ==
  ASSUME WorkersAssumption
  PROVE  /\ 0 \in Workers /\ numThreads - 1 \in Workers
         /\ NoOne \notin Workers /\ numThreads \notin Workers
         /\ \A t \in Workers : t \in Int /\ (t # numThreads - 1 => t + 1 \in Workers)
  BY DEF WorkersAssumption, Workers, NoOne

\* A step of a query keeps the places and flags well typed.
LEMMA PlaceQuery ==
  ASSUME WorkersAssumption, PlaceOK, NEW t \in Workers, Query(t)
  PROVE  PlaceOK'
<1>1. CASE BeginQuery(t)
  BY <1>1 DEF PlaceOK, BeginQuery, Goes, race, WorkerPlaces
<1>2. CASE notifyNewLemma(t)
  BY <1>2 DEF PlaceOK, notifyNewLemma, race, WorkerPlaces
<1>3. CASE PushGoesOn(t)
  BY <1>3 DEF PlaceOK, PushGoesOn, Goes, race, WorkerPlaces
<1>4. CASE getNewLemma(t)
  BY <1>4 DEF PlaceOK, getNewLemma, race
<1>5. CASE Return(t)
  BY <1>5 DEF PlaceOK, Return, Goes, WorkerPlaces
<1>6. QED
  BY <1>1, <1>2, <1>3, <1>4, <1>5 DEF Query

\* So does a step of the end of runThread.
LEMMA PlaceFinish ==
  ASSUME WorkersAssumption, PlaceOK, NEW t \in Workers, Finish(t)
  PROVE  PlaceOK'
<1>1. CASE try_lock(t)
  BY <1>1 DEF PlaceOK, try_lock, Goes, WorkerPlaces
<1>2. CASE SetWinner(t)
  BY <1>2 DEF PlaceOK, SetWinner, Goes, WorkerPlaces
<1>3. CASE notify_all(t)
  BY <1>3 DEF PlaceOK, notify_all, Goes, race, WorkerPlaces, MainPlaces
<1>4. CASE unlock(t)
  BY <1>4 DEF PlaceOK, unlock, Goes, WorkerPlaces
<1>5. QED
  BY <1>1, <1>2, <1>3, <1>4 DEF Finish

\* So does a step of main.
LEMMA PlaceMain ==
  ASSUME WorkersAssumption, PlaceOK, Main \/ MainWakesAlone
  PROVE  PlaceOK'
<1>0. /\ 0 \in Workers
      /\ \A t \in Workers : t \in Int /\ (t # numThreads - 1 => t + 1 \in Workers)
      /\ Workers \subseteq 0..numThreads
  BY WorkersFacts DEF WorkersAssumption, Workers
<1>1. CASE Spawn
  <2>1. CASE mt < numThreads
    <3>1. mt' \in 0..numThreads /\ mpc' = "spawn"
      BY <1>1, <2>1 DEF PlaceOK, Spawn, WorkersAssumption
    <3>2. wpc' \in [Workers -> WorkerPlaces]
      BY <1>1, <2>1 DEF PlaceOK, Spawn, Goes, WorkerPlaces
    <3>3. QED
      BY <1>1, <2>1, <3>1, <3>2 DEF PlaceOK, Spawn, race, MainPlaces
  <2>2. CASE ~(mt < numThreads)
    BY <1>0, <1>1, <2>2 DEF PlaceOK, Spawn, MainGoes, race, MainPlaces
  <2>3. QED
    BY <2>1, <2>2
<1>2. CASE MainLock
  BY <1>2 DEF PlaceOK, MainLock, MainPlaces
<1>3. CASE MainTest
  BY <1>3 DEF PlaceOK, MainTest, MainGoes, race, MainPlaces
<1>4. CASE MainWait
  BY <1>4 DEF PlaceOK, MainWait, MainGoes, MainPlaces
<1>5. CASE MainInterrupt
  BY <1>5 DEF PlaceOK, MainInterrupt, MainGoes, race, MainPlaces
<1>6. CASE JoinDriver
  BY <1>6 DEF PlaceOK, JoinDriver, MainGoes, race, MainPlaces
<1>7. CASE Join
  <2>1. mt \in Workers /\ mt' \in Workers /\ mt' \in 0..numThreads
    BY <1>0, <1>7 DEF PlaceOK, Join
  <2>2. QED
    BY <1>7, <2>1 DEF PlaceOK, Join, MainGoes, race, MainPlaces
<1>8. CASE MainReturn
  BY <1>8 DEF PlaceOK, MainReturn, MainGoes, MainPlaces
<1>9. CASE MainWakesAlone
  BY <1>9 DEF PlaceOK, MainWakesAlone, MainGoes, race, MainPlaces
<1>10. QED
  BY <1>1, <1>2, <1>3, <1>4, <1>5, <1>6, <1>7, <1>8, <1>9 DEF Main

\* So does a step of the sharing thread.
LEMMA PlaceDriver ==
  ASSUME WorkersAssumption, PlaceOK, Driver
  PROVE  PlaceOK'
<1>0. /\ 0 \in Workers
      /\ \A t \in Workers : t # numThreads - 1 => t + 1 \in Workers
  BY WorkersFacts
<1>1. ASSUME NEW this, NEW after, NextThread(this, after) PROVE dpc' \in {this, after} /\ dt' \in Workers
  BY <1>0, <1>1 DEF PlaceOK, NextThread, DriverGoes
<1>2. CASE DriverLoop
  BY <1>0, <1>2 DEF PlaceOK, DriverLoop, DriverGoes, race
<1>3. CASE DriverTake
  <2>1. dpc' \in {"take", "give"} /\ dt' \in Workers
    BY <1>1, <1>3 DEF DriverTake
  <2>2. QED
    BY <1>3, <2>1 DEF PlaceOK, DriverTake, race
<1>4. CASE DriverGive
  <2>1. dpc' \in {"give", "loop"} /\ dt' \in Workers
    BY <1>1, <1>4 DEF PlaceOK, DriverGive, DriverGoes
  <2>2. QED
    BY <1>4, <2>1 DEF PlaceOK, DriverGive, race
<1>5. CASE DriverInterrupt
  <2>1. dpc' \in {"interrupting", "exited"} /\ dt' \in Workers
    BY <1>1, <1>5 DEF DriverInterrupt
  <2>2. interrupted' \in [Workers -> BOOLEAN]
    BY <1>5 DEF PlaceOK, DriverInterrupt
  <2>3. QED
    BY <1>5, <2>1, <2>2 DEF PlaceOK, DriverInterrupt, race
<1>6. QED
  BY <1>2, <1>3, <1>4, <1>5 DEF Driver

-----------------------------------------------------------------------------
(* The race. *)

\* The places of main after it has left the wait loop.
Decided == {"interrupt", "join_driver", "join", "returning", "done"}

\* A step that changes neither the flags of the race nor what a worker does
\* after its query keeps the invariant, if main goes on only when flag_done.
LEMMA RaceSame ==
  ASSUME PlaceOK, RaceInv,
         UNCHANGED <<flag_done, winner, mutex_done, returnValue>>,
         \A t \in Workers : \/ wpc'[t] = wpc[t]
                            \/ {wpc[t], wpc'[t]} \subseteq {"unborn", "commands", "query", "blocked"},
         mpc' \in Decided => flag_done
  PROVE  RaceInv'
<1>1. \A t \in Workers : \A p \in Holding \cup {"returned", "exited"} : wpc'[t] = p <=> wpc[t] = p
  BY DEF Holding
<1>2. LockHeld'
  BY <1>1 DEF RaceInv, LockHeld, Holding
<1>3. FlagSeen'
  BY <1>1 DEF RaceInv, FlagSeen, Holding
<1>4. Stored' /\ WinnerSet'
  BY <1>1 DEF RaceInv, Stored, WinnerSet
<1>5. WinnerHasAnswered'
  BY DEF RaceInv, WinnerHasAnswered, Decided
<1>6. SomeoneWins'
  BY <1>1 DEF RaceInv, SomeoneWins, PlaceOK, Holding
<1>7. QED
  BY <1>2, <1>3, <1>4, <1>5, <1>6 DEF RaceInv

\* The query of a worker, until its result is stored, is not part of the race.
LEMMA RaceQuery ==
  ASSUME PlaceOK, RaceInv, NEW t \in Workers, Query(t)
  PROVE  RaceInv'
<1>0. ASSUME mpc' = mpc PROVE mpc' \in Decided => flag_done
  BY <1>0 DEF RaceInv, WinnerHasAnswered, Decided
<1>1. CASE BeginQuery(t)
  BY <1>0, <1>1, RaceSame DEF PlaceOK, BeginQuery, Goes, race
<1>2. CASE notifyNewLemma(t)
  BY <1>0, <1>2, RaceSame DEF PlaceOK, notifyNewLemma, race
<1>3. CASE PushGoesOn(t)
  BY <1>0, <1>3, RaceSame DEF PlaceOK, PushGoesOn, Goes, race
<1>4. CASE getNewLemma(t)
  BY <1>0, <1>4, RaceSame DEF PlaceOK, getNewLemma, race
<1>5. CASE Return(t)
  <2>1. /\ wpc[t] = "query"
        /\ wpc' = [wpc EXCEPT ![t] = "returned"]
        /\ returnValue' = [returnValue EXCEPT ![t] = TRUE]
        /\ UNCHANGED <<flag_done, winner, mutex_done, mpc>>
    BY <1>5 DEF Return, Goes
  <2>2. LockHeld' /\ FlagSeen' /\ Stored' /\ WinnerSet'
    BY <2>1 DEF PlaceOK, RaceInv, LockHeld, FlagSeen, Stored, WinnerSet, Holding
  <2>3. WinnerHasAnswered'
    BY <2>1 DEF PlaceOK, RaceInv, WinnerHasAnswered, WinnerSet
  <2>4. SomeoneWins'
    BY <2>1 DEF PlaceOK, RaceInv, SomeoneWins
  <2>5. QED
    BY <2>2, <2>3, <2>4 DEF RaceInv
<1>6. QED
  BY <1>1, <1>2, <1>3, <1>4, <1>5 DEF Query

\* The end of runThread: a thread that does not get mutex_done leaves the race
\* to the one that holds it, which has set the winner or will.
LEMMA RaceFinish ==
  ASSUME WorkersAssumption, PlaceOK, RaceInv, NEW t \in Workers, Finish(t)
  PROVE  RaceInv'
<1>0. NoOne \notin Workers
  BY WorkersFacts
<1>1. CASE try_lock(t)
  <2>1. UNCHANGED <<flag_done, winner, returnValue, mpc>> /\ wpc[t] = "returned"
    BY <1>1 DEF try_lock, Goes
  <2>2. CASE mutex_done = NoOne
    <3>1. wpc' = [wpc EXCEPT ![t] = IF flag_done THEN "unlock" ELSE "setting"] /\ mutex_done' = t
      BY <1>1, <2>2 DEF try_lock, Goes
    <3>2. LockHeld' /\ FlagSeen' /\ Stored' /\ WinnerSet'
      BY <1>0, <2>1, <2>2, <3>1 DEF PlaceOK, RaceInv, LockHeld, FlagSeen, Stored, WinnerSet, Holding
    <3>3. WinnerHasAnswered' /\ SomeoneWins'
      BY <1>0, <2>1, <2>2, <3>1 DEF PlaceOK, RaceInv, WinnerHasAnswered, SomeoneWins
    <3>4. QED
      BY <3>2, <3>3 DEF RaceInv
  <2>3. CASE mutex_done # NoOne
    <3>1. wpc' = [wpc EXCEPT ![t] = "exited"] /\ mutex_done' = mutex_done
      BY <1>1, <2>3 DEF try_lock, Goes
    <3>2. LockHeld' /\ FlagSeen' /\ Stored' /\ WinnerSet' /\ WinnerHasAnswered'
      BY <2>1, <2>3, <3>1
      DEF PlaceOK, RaceInv, LockHeld, FlagSeen, Stored, WinnerSet, WinnerHasAnswered, Holding
    <3>3. mutex_done \in Workers /\ wpc[mutex_done] \in Holding /\ mutex_done # t
      BY <2>1, <2>3 DEF PlaceOK, RaceInv, LockHeld, Holding
    <3>4. flag_done \/ wpc'[mutex_done] = "setting"
      BY <3>1, <3>3 DEF PlaceOK, RaceInv, FlagSeen, Holding
    <3>5. SomeoneWins'
      BY <2>1, <2>3, <3>1, <3>4 DEF SomeoneWins
    <3>6. QED
      BY <3>2, <3>5 DEF RaceInv
  <2>4. QED
    BY <2>2, <2>3
<1>2. CASE SetWinner(t)
  <2>1. /\ wpc[t] = "setting" /\ wpc' = [wpc EXCEPT ![t] = "notify"]
        /\ winner' = t /\ flag_done' = TRUE
        /\ UNCHANGED <<mutex_done, returnValue, mpc>>
    BY <1>2 DEF SetWinner, Goes
  <2>2. mutex_done = t /\ returnValue[t]
    BY <2>1 DEF RaceInv, LockHeld, Stored, Holding
  <2>3. LockHeld' /\ FlagSeen' /\ Stored' /\ WinnerSet'
    BY <2>1, <2>2 DEF PlaceOK, RaceInv, LockHeld, FlagSeen, Stored, WinnerSet, Holding
  <2>4. WinnerHasAnswered' /\ SomeoneWins'
    BY <2>1, <2>2 DEF WinnerHasAnswered, SomeoneWins
  <2>5. QED
    BY <2>3, <2>4 DEF RaceInv
<1>3. CASE notify_all(t)
  <2>1. /\ wpc[t] = "notify" /\ wpc' = [wpc EXCEPT ![t] = "unlock"]
        /\ UNCHANGED <<flag_done, winner, mutex_done, returnValue>>
    BY <1>3 DEF notify_all, Goes, race
  <2>2. flag_done
    BY <2>1 DEF RaceInv, FlagSeen
  <2>3. LockHeld' /\ FlagSeen' /\ Stored' /\ WinnerSet'
    BY <2>1, <2>2 DEF PlaceOK, RaceInv, LockHeld, FlagSeen, Stored, WinnerSet, Holding
  <2>4. WinnerHasAnswered' /\ SomeoneWins'
    BY <2>1, <2>2 DEF RaceInv, WinnerHasAnswered, SomeoneWins
  <2>5. QED
    BY <2>3, <2>4 DEF RaceInv
<1>4. CASE unlock(t)
  <2>1. /\ wpc[t] = "unlock" /\ wpc' = [wpc EXCEPT ![t] = "exited"] /\ mutex_done' = NoOne
        /\ UNCHANGED <<flag_done, winner, returnValue, mpc>>
    BY <1>4 DEF unlock, Goes
  <2>2. flag_done /\ mutex_done = t
    BY <2>1 DEF RaceInv, FlagSeen, LockHeld, Holding
  <2>3. LockHeld' /\ FlagSeen' /\ Stored' /\ WinnerSet'
    BY <1>0, <2>1, <2>2 DEF PlaceOK, RaceInv, LockHeld, FlagSeen, Stored, WinnerSet, Holding
  <2>4. WinnerHasAnswered' /\ SomeoneWins'
    BY <2>1, <2>2 DEF RaceInv, WinnerHasAnswered, SomeoneWins
  <2>5. QED
    BY <2>3, <2>4 DEF RaceInv
<1>5. QED
  BY <1>1, <1>2, <1>3, <1>4 DEF Finish

\* Main leaves its loop only when it has seen global_flag_done.
LEMMA RaceMain ==
  ASSUME PlaceOK, RaceInv, Main \/ MainWakesAlone
  PROVE  RaceInv'
<1>1. UNCHANGED <<flag_done, winner, mutex_done, returnValue>>
  BY DEF Main, Spawn, MainLock, MainTest, MainWait, MainInterrupt, JoinDriver, Join, MainReturn,
         MainWakesAlone, race
<1>2. \A t \in Workers : wpc'[t] = wpc[t] \/ (wpc[t] = "unborn" /\ wpc'[t] = "commands")
  BY DEF Main, Spawn, MainLock, MainTest, MainWait, MainInterrupt, JoinDriver, Join, MainReturn,
         MainWakesAlone, Goes, PlaceOK
<1>3. mpc' \in Decided => mpc \in Decided \/ flag_done
  BY DEF Main, Spawn, MainLock, MainTest, MainWait, MainInterrupt, JoinDriver, Join, MainReturn,
         MainWakesAlone, MainGoes, Decided
<1>4. mpc' \in Decided => flag_done
  BY <1>3 DEF RaceInv, WinnerHasAnswered, Decided
<1>5. \A t \in Workers : \/ wpc'[t] = wpc[t]
                         \/ {wpc[t], wpc'[t]} \subseteq {"unborn", "commands", "query", "blocked"}
  BY <1>2
<1>6. QED
  BY <1>1, <1>4, <1>5, RaceSame

\* The sharing thread touches nothing of the race.
LEMMA RaceDriver ==
  ASSUME PlaceOK, RaceInv, Driver
  PROVE  RaceInv'
<1>1. UNCHANGED <<flag_done, winner, mutex_done, returnValue, wpc, mpc>>
  BY DEF Driver, DriverLoop, DriverTake, DriverGive, DriverInterrupt, race
<1>2. mpc' \in Decided => flag_done
  BY <1>1 DEF RaceInv, WinnerHasAnswered, Decided
<1>3. QED
  BY <1>1, <1>2, RaceSame

-----------------------------------------------------------------------------
(* Lemmas in order. *)

AnyLemma == Workers \X (1..MaxLemmas)

\* InOrder, index by index.
Increasing(s, u) ==
  \A i, j \in 1..Len(s) : s[i][1] = u /\ s[j][1] = u /\ i < j => s[i][2] < s[j][2]
Within(s, u, lo, hi) == \A i \in 1..Len(s) : s[i][1] = u => s[i][2] \in (lo + 1)..hi
Present(s, u, k) == \E i \in 1..Len(s) : s[i][1] = u /\ s[i][2] = k
AllPresent(s, u, lo, hi) == \A k \in (lo + 1)..hi : Present(s, u, k)

\* It says the same.
LEMMA InOrderMeans ==
  ASSUME NEW s \in Seq(AnyLemma), NEW u, NEW lo \in Int, NEW hi \in Int
  PROVE  InOrder(s, u, lo, hi) <=>
           lo <= hi /\ Increasing(s, u) /\ Within(s, u, lo, hi) /\ AllPresent(s, u, lo, hi)
<1> DEFINE numbers == {s[i][2] : i \in From(u, s)}
<1>1. \A i : i \in From(u, s) <=> i \in 1..Len(s) /\ s[i][1] = u
  BY DEF From
<1>2. \A k : k \in numbers <=> \E i \in 1..Len(s) : s[i][1] = u /\ s[i][2] = k
  BY <1>1
<1>3. numbers = (lo + 1)..hi <=> \A k : k \in numbers <=> k \in (lo + 1)..hi
  OBVIOUS
<1>4. InOrder(s, u, lo, hi) <=>
        /\ lo <= hi
        /\ \A i, j \in From(u, s) : i < j => s[i][2] < s[j][2]
        /\ numbers = (lo + 1)..hi
  BY DEF InOrder
<1> HIDE DEF numbers
<1>5. (\A i, j \in From(u, s) : i < j => s[i][2] < s[j][2]) <=> Increasing(s, u)
  BY <1>1 DEF Increasing
<1>6. (\A k : k \in numbers => k \in (lo + 1)..hi) <=> Within(s, u, lo, hi)
  BY <1>2 DEF Within
<1>7. (\A k : k \in (lo + 1)..hi => k \in numbers) <=> AllPresent(s, u, lo, hi)
  BY <1>2 DEF AllPresent, Present
<1>8. QED
  BY <1>3, <1>4, <1>5, <1>6, <1>7

\* The next lemma of u comes last.
LEMMA InOrderNext ==
  ASSUME NEW s \in Seq(AnyLemma), NEW u, NEW lo \in Int, NEW hi \in Int,
         InOrder(s, u, lo, hi), <<u, hi + 1>> \in AnyLemma
  PROVE  InOrder(Append(s, <<u, hi + 1>>), u, lo, hi + 1)
<1> DEFINE x == <<u, hi + 1>>
           r == Append(s, x)
<1>1. /\ r \in Seq(AnyLemma) /\ Len(r) = Len(s) + 1 /\ r[Len(s) + 1] = x
      /\ \A i \in 1..Len(s) : r[i] = s[i]
      /\ Len(s) \in Nat
  BY AppendProperties
<1>2. x[1] = u /\ x[2] = hi + 1
  OBVIOUS
<1>3. lo <= hi /\ Increasing(s, u) /\ Within(s, u, lo, hi) /\ AllPresent(s, u, lo, hi)
  BY InOrderMeans
<1> HIDE DEF r, x
<1>4. \A i \in 1..Len(r) : i = Len(s) + 1 \/ i \in 1..Len(s)
  BY <1>1
<1>5. Increasing(r, u)
  <2> SUFFICES ASSUME NEW i \in 1..Len(r), NEW j \in 1..Len(r), r[i][1] = u, r[j][1] = u, i < j
               PROVE  r[i][2] < r[j][2]
    BY DEF Increasing
  <2>1. i \in 1..Len(s) /\ r[i] = s[i]
    BY <1>1, <1>4
  <2>2. CASE j \in 1..Len(s)
    BY <1>1, <1>3, <2>1, <2>2 DEF Increasing
  <2>3. CASE j = Len(s) + 1
    <3>1. s[i][2] \in (lo + 1)..hi
      BY <1>3, <2>1 DEF Within
    <3>2. QED
      BY <1>1, <1>2, <2>1, <2>3, <3>1
  <2>4. QED
    BY <1>4, <2>2, <2>3
<1>6. Within(r, u, lo, hi + 1)
  BY <1>1, <1>2, <1>3, <1>4 DEF Within
<1>7. ASSUME NEW k \in (lo + 1)..(hi + 1) PROVE Present(r, u, k)
  <2>1. CASE k = hi + 1
    BY <1>1, <1>2, <2>1 DEF Present
  <2>2. CASE k # hi + 1
    <3>1. PICK i \in 1..Len(s) : s[i][1] = u /\ s[i][2] = k
      BY <1>3, <2>2 DEF AllPresent, Present
    <3>2. i \in 1..Len(r) /\ r[i] = s[i]
      BY <1>1
    <3>3. QED
      BY <3>1, <3>2 DEF Present
  <2>3. QED
    BY <2>1, <2>2
<1>8. InOrder(r, u, lo, hi + 1)
  <2>1. lo <= hi + 1 /\ hi + 1 \in Int /\ AllPresent(r, u, lo, hi + 1)
    BY <1>3, <1>7 DEF AllPresent
  <2>2. QED
    BY <1>1, <1>5, <1>6, <2>1, InOrderMeans
<1>9. QED
  BY <1>8 DEF r, x

\* A lemma of another thread comes last.
LEMMA InOrderOther ==
  ASSUME NEW s \in Seq(AnyLemma), NEW x \in AnyLemma, NEW u,
         NEW lo \in Int, NEW hi \in Int, InOrder(s, u, lo, hi), x[1] # u
  PROVE  InOrder(Append(s, x), u, lo, hi)
<1> DEFINE r == Append(s, x)
<1>1. /\ r \in Seq(AnyLemma) /\ Len(r) = Len(s) + 1 /\ r[Len(s) + 1] = x
      /\ \A i \in 1..Len(s) : r[i] = s[i]
      /\ Len(s) \in Nat
  BY AppendProperties
<1>2. lo <= hi /\ Increasing(s, u) /\ Within(s, u, lo, hi) /\ AllPresent(s, u, lo, hi)
  BY InOrderMeans
<1> HIDE DEF r
<1>3. \A i \in 1..Len(r) : r[i][1] = u => i \in 1..Len(s)
  BY <1>1
<1>4. Increasing(r, u)
  BY <1>1, <1>2, <1>3 DEF Increasing
<1>5. Within(r, u, lo, hi)
  BY <1>1, <1>2, <1>3 DEF Within
<1>6. ASSUME NEW k \in (lo + 1)..hi PROVE Present(r, u, k)
  <2>1. PICK i \in 1..Len(s) : s[i][1] = u /\ s[i][2] = k
    BY <1>2 DEF AllPresent, Present
  <2>2. i \in 1..Len(r) /\ r[i] = s[i]
    BY <1>1
  <2>3. QED
    BY <2>1, <2>2 DEF Present
<1>7. AllPresent(r, u, lo, hi)
  BY <1>6 DEF AllPresent
<1>8. InOrder(r, u, lo, hi)
  BY <1>1, <1>2, <1>4, <1>5, <1>7, InOrderMeans
<1>9. QED
  BY <1>8 DEF r

\* The first lemma leaves.  It is the next one of its thread.
LEMMA InOrderTail ==
  ASSUME NEW s \in Seq(AnyLemma), s # << >>, NEW u, NEW lo \in Int, NEW hi \in Int,
         InOrder(s, u, lo, hi)
  PROVE  /\ Head(s)[1] = u => lo + 1 <= hi /\ InOrder(Tail(s), u, lo + 1, hi)
         /\ Head(s)[1] # u => InOrder(Tail(s), u, lo, hi)
<1> DEFINE r == Tail(s)
<1>1. /\ r \in Seq(AnyLemma) /\ Len(r) = Len(s) - 1
      /\ \A i \in 1..Len(r) : r[i] = s[i + 1]
      /\ Len(s) \in Nat \ {0} /\ Head(s) = s[1]
  BY HeadTailProperties
<1>2. lo <= hi /\ Increasing(s, u) /\ Within(s, u, lo, hi) /\ AllPresent(s, u, lo, hi)
  BY InOrderMeans
<1> HIDE DEF r
<1>3. \A i \in 1..Len(r) : i + 1 \in 1..Len(s) /\ i \in Int
  BY <1>1
<1>4. \A i \in 1..Len(s) : i # 1 => i - 1 \in 1..Len(r) /\ r[i - 1] = s[i]
  BY <1>1
<1>5. Increasing(r, u)
  <2> SUFFICES ASSUME NEW i \in 1..Len(r), NEW j \in 1..Len(r), r[i][1] = u, r[j][1] = u, i < j
               PROVE  r[i][2] < r[j][2]
    BY DEF Increasing
  <2>1. i + 1 \in 1..Len(s) /\ j + 1 \in 1..Len(s) /\ i + 1 < j + 1
    BY <1>3
  <2>2. r[i] = s[i + 1] /\ r[j] = s[j + 1]
    BY <1>1
  <2>3. QED
    BY <1>2, <2>1, <2>2 DEF Increasing
<1>6. CASE s[1][1] # u
  <2>1. Within(r, u, lo, hi)
    BY <1>1, <1>2, <1>3 DEF Within
  <2>2. ASSUME NEW k \in (lo + 1)..hi PROVE Present(r, u, k)
    <3>1. PICK i \in 1..Len(s) : s[i][1] = u /\ s[i][2] = k
      BY <1>2 DEF AllPresent, Present
    <3>2. QED
      BY <1>4, <1>6, <3>1 DEF Present
  <2>3. AllPresent(r, u, lo, hi)
    BY <2>2 DEF AllPresent
  <2>4. InOrder(r, u, lo, hi)
    BY <1>1, <1>2, <1>5, <2>1, <2>3, InOrderMeans
  <2>5. QED
    BY <1>1, <1>6, <2>4 DEF r
<1>7. CASE s[1][1] = u
  <2>1. 1 \in 1..Len(s) /\ s[1][2] \in (lo + 1)..hi
    BY <1>1, <1>2, <1>7 DEF Within
  <2>2. lo + 1 \in (lo + 1)..hi /\ lo + 1 \in Int /\ lo + 1 <= hi
    BY <2>1
  <2>3. PICK i \in 1..Len(s) : s[i][1] = u /\ s[i][2] = lo + 1
    BY <1>2, <2>2 DEF AllPresent, Present
  <2>4. s[1][2] = lo + 1
    BY <1>2, <1>7, <2>1, <2>3 DEF Increasing
  <2>5. Within(r, u, lo + 1, hi)
    <3> SUFFICES ASSUME NEW j \in 1..Len(r), r[j][1] = u PROVE r[j][2] \in (lo + 2)..hi
      BY DEF Within
    <3>1. r[j] = s[j + 1] /\ j + 1 \in 1..Len(s) /\ 1 < j + 1
      BY <1>1, <1>3
    <3>2. s[j + 1][2] \in (lo + 1)..hi /\ s[1][2] < s[j + 1][2]
      BY <1>2, <1>7, <2>1, <3>1 DEF Increasing, Within
    <3>3. QED
      BY <2>4, <3>1, <3>2
  <2>6. ASSUME NEW k \in (lo + 2)..hi PROVE Present(r, u, k)
    <3>1. PICK m \in 1..Len(s) : s[m][1] = u /\ s[m][2] = k
      BY <1>2 DEF AllPresent, Present
    <3>2. m # 1
      BY <2>4, <3>1
    <3>3. QED
      BY <1>4, <3>1, <3>2 DEF Present
  <2>7. AllPresent(r, u, lo + 1, hi)
    BY <2>6 DEF AllPresent
  <2>8. InOrder(r, u, lo + 1, hi)
    BY <1>1, <1>5, <2>2, <2>5, <2>7, InOrderMeans
  <2>9. QED
    BY <1>1, <1>7, <2>2, <2>8 DEF r
<1>8. QED
  BY <1>6, <1>7

-----------------------------------------------------------------------------
(* The lines on which lemmas wait: in[t], then queues[t]. *)

\* A lemma that joins the second part of a line joins the line.
LEMMA LineAppend ==
  ASSUME NEW S, NEW a \in Seq(S), NEW b \in Seq(S), NEW x \in S
  PROVE  a \o Append(b, x) = Append(a \o b, x)
<1>1. Append(b, x) \in Seq(S) /\ a \o b \in Seq(S)
  OBVIOUS
<1>2. a \o Append(b, x) \in Seq(S) /\ Append(a \o b, x) \in Seq(S)
  BY <1>1
<1>3. /\ Len(a \o Append(b, x)) = Len(a) + Len(b) + 1
      /\ Len(Append(a \o b, x)) = Len(a) + Len(b) + 1
  BY <1>1
<1>4. \A i \in 1..(Len(a) + Len(b) + 1) : (a \o Append(b, x))[i] = Append(a \o b, x)[i]
  OBVIOUS
<1>5. QED
  BY <1>2, <1>3, <1>4, SeqEqual

\* The first of the second part moves to the end of the first.
LEMMA LineMoves ==
  ASSUME NEW S, NEW a \in Seq(S), NEW b \in Seq(S), b # << >>
  PROVE  Append(a, Head(b)) \o Tail(b) = a \o b
<1>1. /\ Head(b) \in S /\ Tail(b) \in Seq(S) /\ Len(Tail(b)) = Len(b) - 1 /\ Head(b) = b[1]
      /\ \A i \in 1..Len(Tail(b)) : Tail(b)[i] = b[i + 1]
      /\ Len(b) \in Nat \ {0} /\ Len(a) \in Nat
  BY HeadTailProperties
<1>2. Append(a, Head(b)) \in Seq(S) /\ Len(Append(a, Head(b))) = Len(a) + 1
  BY <1>1
<1>3. /\ Append(a, Head(b)) \o Tail(b) \in Seq(S)
      /\ a \o b \in Seq(S)
      /\ Len(Append(a, Head(b)) \o Tail(b)) = Len(a) + Len(b)
      /\ Len(a \o b) = Len(a) + Len(b)
  BY <1>1, <1>2
<1>4. ASSUME NEW i \in 1..(Len(a) + Len(b))
      PROVE  (Append(a, Head(b)) \o Tail(b))[i] = (a \o b)[i]
  <2>1. (Append(a, Head(b)) \o Tail(b))[i] =
          IF i <= Len(a) + 1 THEN Append(a, Head(b))[i] ELSE Tail(b)[i - (Len(a) + 1)]
    BY <1>1, <1>2
  <2>2. (a \o b)[i] = IF i <= Len(a) THEN a[i] ELSE b[i - Len(a)]
    BY <1>1
  <2>3. CASE i <= Len(a)
    BY <1>1, <2>1, <2>2, <2>3
  <2>4. CASE i = Len(a) + 1
    BY <1>1, <2>1, <2>2, <2>4
  <2>5. CASE i > Len(a) + 1
    <3>1. i - (Len(a) + 1) \in 1..Len(Tail(b)) /\ i - (Len(a) + 1) + 1 = i - Len(a)
      BY <1>1, <2>5
    <3>2. Tail(b)[i - (Len(a) + 1)] = b[i - Len(a)]
      BY <1>1, <3>1
    <3>3. QED
      BY <1>1, <2>1, <2>2, <2>5, <3>2
  <2>6. QED
    BY <1>1, <2>3, <2>4, <2>5
<1>5. QED
  BY <1>3, <1>4, SeqEqual

\* The first of a line leaves it.
LEMMA LineTail ==
  ASSUME NEW S, NEW a \in Seq(S), NEW b \in Seq(S), a # << >>
  PROVE  a \o b # << >> /\ Head(a \o b) = Head(a) /\ Tail(a) \o b = Tail(a \o b)
<1>1. /\ Tail(a) \in Seq(S) /\ Len(Tail(a)) = Len(a) - 1 /\ Head(a) = a[1]
      /\ \A i \in 1..Len(Tail(a)) : Tail(a)[i] = a[i + 1]
      /\ Len(a) \in Nat \ {0} /\ Len(b) \in Nat
  BY HeadTailProperties
<1>2. /\ a \o b \in Seq(S) /\ Len(a \o b) = Len(a) + Len(b)
      /\ \A i \in 1..(Len(a) + Len(b)) : (a \o b)[i] = IF i <= Len(a) THEN a[i] ELSE b[i - Len(a)]
  BY ConcatProperties
<1>3. a \o b # << >> /\ Head(a \o b) = (a \o b)[1] /\ (a \o b)[1] = a[1]
  BY <1>1, <1>2
<1>4. /\ Tail(a \o b) \in Seq(S) /\ Len(Tail(a \o b)) = Len(a) + Len(b) - 1
      /\ \A i \in 1..Len(Tail(a \o b)) : Tail(a \o b)[i] = (a \o b)[i + 1]
  BY <1>2, <1>3, HeadTailProperties
<1>5. /\ Tail(a) \o b \in Seq(S) /\ Len(Tail(a) \o b) = Len(a) + Len(b) - 1
      /\ \A i \in 1..(Len(a) + Len(b) - 1) :
           (Tail(a) \o b)[i] = IF i <= Len(a) - 1 THEN Tail(a)[i] ELSE b[i - (Len(a) - 1)]
  BY <1>1, ConcatProperties
<1>6. ASSUME NEW i \in 1..(Len(a) + Len(b) - 1)
      PROVE  (Tail(a) \o b)[i] = Tail(a \o b)[i]
  <2>1. i + 1 \in 1..(Len(a) + Len(b)) /\ Tail(a \o b)[i] = (a \o b)[i + 1]
    BY <1>1, <1>4
  <2>2. CASE i <= Len(a) - 1
    BY <1>1, <1>2, <1>5, <2>1, <2>2
  <2>3. CASE ~(i <= Len(a) - 1)
    <3>1. i - (Len(a) - 1) = (i + 1) - Len(a) /\ ~(i + 1 <= Len(a))
      BY <1>1, <2>3
    <3>2. QED
      BY <1>2, <1>5, <2>1, <2>3, <3>1
  <2>4. QED
    BY <2>2, <2>3
<1>7. Tail(a) \o b = Tail(a \o b)
  BY <1>4, <1>5, <1>6, SeqEqual
<1>8. QED
  BY <1>1, <1>3, <1>7

-----------------------------------------------------------------------------
(* The steps of lemma sharing. *)

LemmaInv == LemmaOK /\ LemmasInOrder

\* The upper end of the lemmas of u on the line of t.
Until(t, u) == IF t = u THEN 0 ELSE Taken(u)

\* What the type says of one thread.
LEMMA LemmaFacts ==
  ASSUME SharingAssumption, LemmaOK
  PROVE  /\ \A t \in Workers : /\ out[t] \in Seq(AnyLemma) /\ in[t] \in Seq(AnyLemma)
                               /\ queues[t] \in Seq(AnyLemma)
                               /\ in[t] \o queues[t] \in Seq(AnyLemma)
                               /\ sent[t] \in 0..MaxLemmas /\ Len(out[t]) \in Nat
                               /\ Taken(t) \in 0..MaxLemmas
         /\ \A t, u \in Workers : got[t][u] \in 0..MaxLemmas /\ Until(t, u) \in 0..MaxLemmas
         /\ MaxLemmas \in Nat
<1>1. MaxLemmas \in Nat
  BY DEF SharingAssumption
<1>2. ASSUME NEW t \in Workers
      PROVE  /\ out[t] \in Seq(AnyLemma) /\ in[t] \in Seq(AnyLemma)
             /\ queues[t] \in Seq(AnyLemma)
             /\ sent[t] \in 0..MaxLemmas /\ Len(out[t]) <= sent[t]
  BY DEF LemmaOK, LemmaSeq, AnyLemma
<1>3. ASSUME NEW t \in Workers
      PROVE  in[t] \o queues[t] \in Seq(AnyLemma) /\ Len(out[t]) \in Nat
  BY <1>2
<1>4. ASSUME NEW t \in Workers PROVE Taken(t) \in 0..MaxLemmas
  BY <1>1, <1>2, <1>3 DEF Taken
<1>5. ASSUME NEW t \in Workers, NEW u \in Workers
      PROVE  got[t][u] \in 0..MaxLemmas /\ Until(t, u) \in 0..MaxLemmas
  BY <1>1, <1>4 DEF LemmaOK, Until
<1>6. QED
  BY <1>1, <1>2, <1>3, <1>4, <1>5

\* LemmasInOrder of the next state, in terms of the next values.
LEMMA LinesNext ==
  ASSUME \A u \in Workers : \A i \in DOMAIN out'[u] : out'[u][i] = <<u, Taken(u)' + i>>,
         \A t, u \in Workers : InOrder(in'[t] \o queues'[t], u, got'[t][u], Until(t, u)')
  PROVE  LemmasInOrder'
  BY DEF LemmasInOrder, InOrder, From, Until

\* Steps that leave the lemmas alone.
LEMMA LemmaSame ==
  ASSUME LemmaInv, UNCHANGED lemmas,
         \A t \in Workers : wpc'[t] = "blocked" => wpc[t] = "blocked" \/ sent[t] < MaxLemmas
  PROVE  LemmaInv'
<1>1. LemmaOK'
  BY DEF LemmaInv, LemmaOK, lemmas
<1>2. \A u \in Workers : Taken(u)' = Taken(u)
  BY DEF Taken, lemmas
<1>3. LemmasInOrder'
  <2>1. \A u \in Workers : \A i \in DOMAIN out'[u] : out'[u][i] = <<u, Taken(u)' + i>>
    BY <1>2 DEF LemmaInv, LemmasInOrder, lemmas
  <2>2. \A t, u \in Workers : InOrder(in'[t] \o queues'[t], u, got'[t][u], Until(t, u)')
    BY <1>2 DEF LemmaInv, LemmasInOrder, lemmas, Until
  <2>3. QED
    BY <2>1, <2>2, LinesNext
<1>4. QED
  BY <1>1, <1>3 DEF LemmaInv

\* A thread shares its next lemma.
LEMMA LemmaPushed ==
  ASSUME SharingAssumption, LemmaInv, NEW t \in Workers, sent[t] < MaxLemmas,
         out' = [out EXCEPT ![t] = Append(@, Lemma(t))],
         sent' = [sent EXCEPT ![t] = @ + 1],
         UNCHANGED <<in, queues, got>>,
         wpc'[t] # "blocked",
         \A u \in Workers \ {t} : wpc'[u] = wpc[u]
  PROVE  LemmaInv'
<1>0. LemmaOK /\ LemmasInOrder
  BY DEF LemmaInv
<1>1. /\ out[t] \in Seq(AnyLemma) /\ sent[t] \in 0..MaxLemmas /\ Taken(t) \in 0..MaxLemmas
      /\ Len(out[t]) \in Nat /\ MaxLemmas \in Nat
  BY <1>0, LemmaFacts
<1>2. Lemma(t) \in AnyLemma /\ Lemma(t) = <<t, sent[t] + 1>>
  BY <1>1 DEF Lemma, AnyLemma
<1>3. /\ Append(out[t], Lemma(t)) \in Seq(AnyLemma)
      /\ Len(Append(out[t], Lemma(t))) = Len(out[t]) + 1
      /\ \A i \in 1..Len(out[t]) : Append(out[t], Lemma(t))[i] = out[t][i]
      /\ Append(out[t], Lemma(t))[Len(out[t]) + 1] = Lemma(t)
      /\ DOMAIN Append(out[t], Lemma(t)) = 1..(Len(out[t]) + 1)
  BY <1>1, <1>2, AppendProperties
<1>4. /\ out'[t] = Append(out[t], Lemma(t)) /\ sent'[t] = sent[t] + 1
      /\ \A u \in Workers \ {t} : out'[u] = out[u] /\ sent'[u] = sent[u]
  BY <1>0 DEF LemmaOK
<1>5. \A u \in Workers : Taken(u)' = Taken(u)
  BY <1>1, <1>3, <1>4 DEF Taken
<1>6. LemmaOK'
  <2>1. out' \in [Workers -> LemmaSeq] /\ sent' \in [Workers -> 0..MaxLemmas]
    <3>1. LemmaSeq = Seq(AnyLemma)
      BY DEF LemmaSeq, AnyLemma
    <3>2. sent[t] + 1 \in 0..MaxLemmas
      BY <1>1
    <3>3. QED
      BY <1>0, <1>3, <3>1, <3>2 DEF LemmaOK
  <2>2. \A u \in Workers : Len(out'[u]) <= sent'[u]
    BY <1>0, <1>1, <1>3, <1>4 DEF LemmaOK
  <2>3. \A u \in Workers : wpc'[u] = "blocked" => sent'[u] < MaxLemmas
    BY <1>0, <1>4 DEF LemmaOK
  <2>4. QED
    BY <1>0, <2>1, <2>2, <2>3 DEF LemmaOK
<1>7. ASSUME NEW u \in Workers, NEW i \in DOMAIN out'[u]
      PROVE  out'[u][i] = <<u, Taken(u)' + i>>
  <2>1. CASE u # t
    BY <1>0, <1>4, <1>5, <1>7, <2>1 DEF LemmasInOrder
  <2>2. CASE u = t /\ i \in 1..Len(out[t])
    <3>1. out[t][i] = <<t, Taken(t) + i>>
      BY <1>0, <1>1, <2>2 DEF LemmasInOrder
    <3>2. QED
      BY <1>3, <1>4, <1>5, <2>2, <3>1
  <2>3. CASE u = t /\ i = Len(out[t]) + 1
    <3>1. Taken(t) + i = sent[t] + 1
      BY <1>1, <2>3 DEF Taken
    <3>2. QED
      BY <1>2, <1>3, <1>4, <1>5, <2>3, <3>1
  <2>4. QED
    BY <1>1, <1>3, <1>4, <1>7, <2>1, <2>2, <2>3
<1>8. LemmasInOrder'
  <2>1. \A v, u \in Workers : InOrder(in'[v] \o queues'[v], u, got'[v][u], Until(v, u)')
    BY <1>0, <1>5 DEF LemmasInOrder, Until
  <2>2. QED
    BY <1>7, <2>1, LinesNext
<1>9. QED
  BY <1>6, <1>8 DEF LemmaInv

\* A thread takes the first lemma of its line, the next one of its origin.
LEMMA LemmaGot ==
  ASSUME SharingAssumption, LemmaInv, NEW t \in Workers, getNewLemma(t)
  PROVE  LemmaInv'
<1> DEFINE v == Head(in[t])[1]
           s == in[t] \o queues[t]
<1>0. /\ LemmaOK /\ LemmasInOrder
      /\ in[t] # << >> /\ in' = [in EXCEPT ![t] = Tail(@)]
      /\ got' = [got EXCEPT ![t][v] = @ + 1]
      /\ UNCHANGED <<out, queues, sent, wpc>>
  BY DEF LemmaInv, getNewLemma
<1>1. /\ in[t] \in Seq(AnyLemma) /\ queues[t] \in Seq(AnyLemma) /\ s \in Seq(AnyLemma)
      /\ MaxLemmas \in Nat
      /\ \A a, u \in Workers : got[a][u] \in 0..MaxLemmas /\ Until(a, u) \in 0..MaxLemmas
  BY <1>0, LemmaFacts
<1>2. s # << >> /\ Head(s)[1] = v /\ Tail(in[t]) \o queues[t] = Tail(s)
  BY <1>0, <1>1, LineTail
<1>3. v \in Workers /\ Tail(in[t]) \in Seq(AnyLemma)
  <2>1. Head(in[t]) \in AnyLemma /\ Tail(in[t]) \in Seq(AnyLemma)
    BY <1>0, <1>1, HeadTailProperties
  <2>2. QED
    BY <2>1 DEF AnyLemma
<1>4. \A a, u \in Workers : InOrder(in[a] \o queues[a], u, got[a][u], Until(a, u))
  BY <1>0 DEF LemmasInOrder, Until
<1> HIDE DEF v, s
<1>5. /\ got[t][v] + 1 <= Until(t, v) /\ InOrder(Tail(s), v, got[t][v] + 1, Until(t, v))
      /\ \A u \in Workers \ {v} : InOrder(Tail(s), u, got[t][u], Until(t, u))
  <2>1. \A u \in Workers : /\ InOrder(s, u, got[t][u], Until(t, u))
                           /\ got[t][u] \in Int /\ Until(t, u) \in Int
    BY <1>1, <1>4 DEF s
  <2>2. QED
    BY <1>1, <1>2, <1>3, <2>1, InOrderTail
<1>6. got[t][v] + 1 \in 0..MaxLemmas
  BY <1>1, <1>3, <1>5
<1>7. /\ \A a \in Workers : in'[a] = IF a = t THEN Tail(in[t]) ELSE in[a]
      /\ in' \in [Workers -> LemmaSeq]
  <2>1. LemmaSeq = Seq(AnyLemma)
    BY DEF LemmaSeq, AnyLemma
  <2>2. QED
    BY <1>0, <1>3, <2>1 DEF LemmaOK
<1>8. /\ \A a, u \in Workers : got'[a][u] = IF a = t /\ u = v THEN got[t][v] + 1 ELSE got[a][u]
      /\ got' \in [Workers -> [Workers -> 0..MaxLemmas]]
  BY <1>0, <1>3, <1>6 DEF LemmaOK
<1>9. LemmaOK'
  BY <1>0, <1>7, <1>8 DEF LemmaOK
<1>10. \A a, u \in Workers : Taken(u)' = Taken(u) /\ Until(a, u)' = Until(a, u)
  BY <1>0 DEF Taken, Until
<1>11. ASSUME NEW a \in Workers, NEW u \in Workers
       PROVE  InOrder(in'[a] \o queues'[a], u, got'[a][u], Until(a, u)')
  <2>1. CASE a # t
    BY <1>0, <1>4, <1>7, <1>8, <1>10, <2>1
  <2>2. CASE a = t
    <3>1. in'[a] \o queues'[a] = Tail(s)
      BY <1>0, <1>2, <1>7, <2>2
    <3>2. QED
      BY <1>5, <1>8, <1>10, <2>2, <3>1
  <2>3. QED
    BY <2>1, <2>2
<1>12. \A u \in Workers : \A i \in DOMAIN out'[u] : out'[u][i] = <<u, Taken(u)' + i>>
  BY <1>0, <1>10 DEF LemmasInOrder
<1>13. QED
  BY <1>9, <1>11, <1>12, LinesNext DEF LemmaInv

\* The sharing thread takes a lemma from its channel to the other lines.
LEMMA LemmaTaken ==
  ASSUME SharingAssumption, LemmaInv, NEW d \in Workers, d = dt, DriverTake, out[d] # << >>
  PROVE  LemmaInv'
<1> DEFINE x == Head(out[d])
<1>0. /\ LemmaOK /\ LemmasInOrder
      /\ out' = [out EXCEPT ![d] = Tail(@)]
      /\ queues' = [u \in Workers |-> IF u = d THEN queues[u] ELSE Append(queues[u], x)]
      /\ UNCHANGED <<in, sent, got, wpc>>
  BY DEF LemmaInv, DriverTake, Broadcast
<1>1. /\ \A u \in Workers : /\ out[u] \in Seq(AnyLemma) /\ Len(out[u]) \in Nat
                            /\ in[u] \in Seq(AnyLemma) /\ queues[u] \in Seq(AnyLemma)
                            /\ in[u] \o queues[u] \in Seq(AnyLemma)
                            /\ sent[u] \in 0..MaxLemmas /\ Taken(u) \in 0..MaxLemmas
      /\ \A a, u \in Workers : got[a][u] \in 0..MaxLemmas /\ Until(a, u) \in 0..MaxLemmas
      /\ MaxLemmas \in Nat
  BY <1>0, LemmaFacts
<1>2. /\ x \in AnyLemma /\ x = out[d][1] /\ 1 \in DOMAIN out[d]
      /\ Tail(out[d]) \in Seq(AnyLemma) /\ Len(Tail(out[d])) = Len(out[d]) - 1
      /\ \A i \in 1..Len(Tail(out[d])) : Tail(out[d])[i] = out[d][i + 1]
  BY <1>1, HeadTailProperties
<1>3. x = <<d, Taken(d) + 1>>
  BY <1>0, <1>2 DEF LemmasInOrder
<1>4. \A a, u \in Workers : InOrder(in[a] \o queues[a], u, got[a][u], Until(a, u))
  BY <1>0 DEF LemmasInOrder, Until
<1> HIDE DEF x
<1>5. /\ \A u \in Workers : out'[u] = IF u = d THEN Tail(out[d]) ELSE out[u]
      /\ out' \in [Workers -> LemmaSeq] /\ queues' \in [Workers -> LemmaSeq]
  <2>1. LemmaSeq = Seq(AnyLemma)
    BY DEF LemmaSeq, AnyLemma
  <2>2. \A u \in Workers : Append(queues[u], x) \in Seq(AnyLemma)
    BY <1>1, <1>2, AppendProperties
  <2>3. QED
    BY <1>0, <1>2, <2>1, <2>2 DEF LemmaOK
<1>6. LemmaOK'
  <2>1. \A u \in Workers : Len(out'[u]) <= sent'[u]
    BY <1>0, <1>1, <1>2, <1>5 DEF LemmaOK
  <2>2. QED
    BY <1>0, <1>5, <2>1 DEF LemmaOK
<1>7. /\ Taken(d)' = Taken(d) + 1
      /\ \A u \in Workers \ {d} : Taken(u)' = Taken(u)
  BY <1>0, <1>1, <1>2, <1>5 DEF Taken
<1>8. ASSUME NEW u \in Workers, NEW i \in DOMAIN out'[u]
      PROVE  out'[u][i] = <<u, Taken(u)' + i>>
  <2>1. CASE u # d
    BY <1>0, <1>5, <1>7, <1>8, <2>1 DEF LemmasInOrder
  <2>2. CASE u = d
    <3>1. i \in 1..Len(Tail(out[d])) /\ i + 1 \in DOMAIN out[d] /\ out'[u][i] = out[d][i + 1]
      <4>1. out'[u] = Tail(out[d]) /\ DOMAIN Tail(out[d]) = 1..Len(Tail(out[d]))
        BY <1>2, <1>5, <2>2
      <4>2. i \in 1..(Len(out[d]) - 1) /\ DOMAIN out[d] = 1..Len(out[d])
        BY <1>1, <1>2, <1>8, <4>1
      <4>3. QED
        BY <1>1, <1>2, <4>1, <4>2
    <3>2. out[d][i + 1] = <<d, Taken(d) + (i + 1)>>
      BY <1>0, <3>1 DEF LemmasInOrder
    <3>3. Taken(d) + (i + 1) = Taken(u)' + i
      BY <1>1, <1>7, <2>2, <3>1
    <3>4. QED
      BY <2>2, <3>1, <3>2, <3>3
  <2>3. QED
    BY <2>1, <2>2
<1>9. ASSUME NEW a \in Workers, NEW u \in Workers
      PROVE  InOrder(in'[a] \o queues'[a], u, got'[a][u], Until(a, u)')
  <2>1. CASE a = d
    <3>1. in'[a] \o queues'[a] = in[a] \o queues[a] /\ got'[a][u] = got[a][u]
      BY <1>0, <2>1
    <3>2. Until(a, u)' = Until(a, u)
      BY <1>7, <2>1 DEF Until
    <3>3. QED
      BY <1>4, <3>1, <3>2
  <2>2. CASE a # d
    <3>1. in'[a] \o queues'[a] = Append(in[a] \o queues[a], x) /\ got'[a][u] = got[a][u]
      <4>1. in'[a] = in[a] /\ queues'[a] = Append(queues[a], x) /\ got'[a][u] = got[a][u]
        BY <1>0, <2>2
      <4>2. in[a] \o Append(queues[a], x) = Append(in[a] \o queues[a], x)
        <5>1. in[a] \in Seq(AnyLemma) /\ queues[a] \in Seq(AnyLemma) /\ x \in AnyLemma
          BY <1>1, <1>2
        <5>2. \A q, r \in Seq(AnyLemma) : \A y \in AnyLemma : q \o Append(r, y) = Append(q \o r, y)
          BY LineAppend
        <5>3. QED
          BY <5>1, <5>2, Zenon
      <4>3. QED
        BY <4>1, <4>2
    <3>2. InOrder(in[a] \o queues[a], u, got[a][u], Until(a, u))
      BY <1>4
    <3>3. got[a][u] \in Int /\ Until(a, u) \in Int
      BY <1>1
    <3>4. CASE u = d
      <4>1. Until(a, u) = Taken(d) /\ Until(a, u)' = Taken(d) + 1
        BY <1>7, <2>2, <3>4 DEF Until
      <4>2. QED
        <5>1. InOrder(in[a] \o queues[a], d, got[a][d], Taken(d)) /\ x = <<d, Taken(d) + 1>>
          BY <1>3, <3>2, <3>4, <4>1
        <5>2. /\ in[a] \o queues[a] \in Seq(AnyLemma) /\ got[a][d] \in Int /\ Taken(d) \in Int
              /\ <<d, Taken(d) + 1>> \in AnyLemma
          <6>1. /\ in[a] \o queues[a] \in Seq(AnyLemma)
                /\ got[a][d] \in 0..MaxLemmas /\ Taken(d) \in 0..MaxLemmas
            BY <1>1
          <6>2. <<d, Taken(d) + 1>> \in AnyLemma
            BY <1>2, <1>3
          <6>3. QED
            BY <6>1, <6>2
        <5>3. InOrder(Append(in[a] \o queues[a], <<d, Taken(d) + 1>>), d, got[a][d], Taken(d) + 1)
          BY <5>1, <5>2, InOrderNext
        <5>4. QED
          BY <1>3, <3>1, <3>4, <4>1, <5>3
    <3>5. CASE u # d
      <4>1. Until(a, u)' = Until(a, u) /\ x[1] # u
        BY <1>3, <1>7, <3>5 DEF Until
      <4>2. QED
        BY <1>1, <1>2, <3>1, <3>2, <3>3, <4>1, InOrderOther
    <3>6. QED
      BY <3>4, <3>5
  <2>3. QED
    BY <2>1, <2>2
<1>10. QED
  BY <1>6, <1>8, <1>9, LinesNext DEF LemmaInv

\* It gives one to the thread it is for, which only moves it on its line.
LEMMA LemmaGiven ==
  ASSUME SharingAssumption, LemmaInv, NEW d \in Workers, d = dt, DriverGive
  PROVE  LemmaInv'
<1>0. /\ LemmaOK /\ LemmasInOrder
      /\ UNCHANGED <<out, sent, got, wpc>>
  BY DEF LemmaInv, DriverGive
<1>1. CASE queues[d] # << >> /\ Len(in[d]) < Capacity
  <2>1. /\ in' = [in EXCEPT ![d] = Append(@, Head(queues[d]))]
        /\ queues' = [queues EXCEPT ![d] = Tail(@)]
    BY <1>1 DEF DriverGive
  <2>2. in[d] \in Seq(AnyLemma) /\ queues[d] \in Seq(AnyLemma)
    BY <1>0, LemmaFacts
  <2>3. /\ Head(queues[d]) \in AnyLemma /\ Tail(queues[d]) \in Seq(AnyLemma)
        /\ Append(in[d], Head(queues[d])) \in Seq(AnyLemma)
    BY <1>1, <2>2, HeadTailProperties, AppendProperties
  <2>4. LemmaOK'
    <3>1. LemmaSeq = Seq(AnyLemma)
      BY DEF LemmaSeq, AnyLemma
    <3>2. in' \in [Workers -> LemmaSeq] /\ queues' \in [Workers -> LemmaSeq]
      BY <1>0, <2>1, <2>3, <3>1 DEF LemmaOK
    <3>3. QED
      BY <1>0, <3>2 DEF LemmaOK
  <2>5. \A a \in Workers : in'[a] \o queues'[a] = in[a] \o queues[a]
    <3>1. Append(in[d], Head(queues[d])) \o Tail(queues[d]) = in[d] \o queues[d]
      BY <1>1, <2>2, LineMoves
    <3>2. \A a \in Workers :
            /\ in'[a] = IF a = d THEN Append(in[d], Head(queues[d])) ELSE in[a]
            /\ queues'[a] = IF a = d THEN Tail(queues[d]) ELSE queues[a]
      BY <1>0, <2>1 DEF LemmaOK
    <3>3. QED
      BY <3>1, <3>2
  <2>6. \A a, u \in Workers : Taken(u)' = Taken(u) /\ Until(a, u)' = Until(a, u)
    BY <1>0 DEF Taken, Until
  <2>7. \A u \in Workers : \A i \in DOMAIN out'[u] : out'[u][i] = <<u, Taken(u)' + i>>
    BY <1>0, <2>6 DEF LemmasInOrder
  <2>8. \A a, u \in Workers : InOrder(in'[a] \o queues'[a], u, got'[a][u], Until(a, u)')
    BY <1>0, <2>5, <2>6 DEF LemmasInOrder, Until
  <2>9. QED
    BY <2>4, <2>7, <2>8, LinesNext DEF LemmaInv
<1>2. CASE ~(queues[d] # << >> /\ Len(in[d]) < Capacity)
  <2>1. UNCHANGED lemmas
    BY <1>2 DEF DriverGive, lemmas
  <2>2. QED
    BY <1>0, <2>1, LemmaSame
<1>3. QED
  BY <1>1, <1>2

\* Every step keeps the lemmas in order.
LEMMA LemmaStep ==
  ASSUME SharingAssumption, PlaceOK, LemmaInv, RaceNext
  PROVE  LemmaInv'
<1>0. ASSUME UNCHANGED <<lemmas, wpc>> PROVE LemmaInv'
  BY <1>0, LemmaSame
<1>1. ASSUME NEW t \in Workers, Query(t) PROVE LemmaInv'
  <2>1. CASE BeginQuery(t)
    BY <2>1, LemmaSame DEF BeginQuery, Goes, PlaceOK
  <2>2. CASE notifyNewLemma(t)
    <3>1. CASE Len(out[t]) < Capacity
      BY <2>2, <3>1, LemmaPushed DEF notifyNewLemma
    <3>2. CASE ~(Len(out[t]) < Capacity)
      BY <2>2, <3>2, LemmaSame DEF notifyNewLemma, PlaceOK, lemmas
    <3>3. QED
      BY <3>1, <3>2
  <2>3. CASE PushGoesOn(t)
    BY <2>3, LemmaPushed DEF PushGoesOn, Goes, PlaceOK, LemmaInv, LemmaOK
  <2>4. CASE getNewLemma(t)
    BY <2>4, LemmaGot
  <2>5. CASE Return(t)
    BY <2>5, LemmaSame DEF Return, Goes, PlaceOK
  <2>6. QED
    BY <1>1, <2>1, <2>2, <2>3, <2>4, <2>5 DEF Query
<1>2. ASSUME NEW t \in Workers, Finish(t) PROVE LemmaInv'
  <2>1. UNCHANGED lemmas
    BY <1>2 DEF Finish, try_lock, SetWinner, notify_all, unlock
  <2>2. \A u \in Workers : wpc'[u] = "blocked" => wpc[u] = "blocked"
    BY <1>2 DEF Finish, try_lock, SetWinner, notify_all, unlock, Goes, PlaceOK
  <2>3. QED
    BY <2>1, <2>2, LemmaSame
<1>3. CASE Main \/ MainWakesAlone
  <2>1. UNCHANGED lemmas
    BY <1>3 DEF Main, Spawn, MainLock, MainTest, MainWait, MainInterrupt, JoinDriver, Join,
                MainReturn, MainWakesAlone
  <2>2. \A u \in Workers : wpc'[u] = "blocked" => wpc[u] = "blocked"
    BY <1>3 DEF Main, Spawn, MainLock, MainTest, MainWait, MainInterrupt, JoinDriver, Join,
                MainReturn, MainWakesAlone, Goes, PlaceOK
  <2>3. QED
    BY <2>1, <2>2, LemmaSame
<1>4. CASE Driver
  <2>0. dt \in Workers
    BY DEF PlaceOK
  <2>1. CASE DriverLoop \/ DriverInterrupt
    BY <1>0, <2>1 DEF DriverLoop, DriverInterrupt
  <2>2. CASE DriverTake
    <3>1. CASE out[dt] # << >>
      BY <2>0, <2>2, <3>1, LemmaTaken
    <3>2. CASE out[dt] = << >>
      BY <1>0, <2>2, <3>2 DEF DriverTake, lemmas
    <3>3. QED
      BY <3>1, <3>2
  <2>3. CASE DriverGive
    BY <2>0, <2>3, LemmaGiven
  <2>4. QED
    BY <1>4, <2>1, <2>2, <2>3 DEF Driver
<1>5. CASE Over
  BY <1>0, <1>5 DEF Over, raceVars
<1>6. QED
  BY <1>1, <1>2, <1>3, <1>4, <1>5 DEF RaceNext

-----------------------------------------------------------------------------
(* The theorems. *)

\* Before the threads are created.
LEMMA InitInv ==
  ASSUME WorkersAssumption, SharingAssumption, RaceInit
  PROVE  Inv
<1>1. PlaceOK
  <2>1. 0 \in Workers /\ 0 \in 0..numThreads
    BY WorkersFacts DEF WorkersAssumption
  <2>2. wpc \in [Workers -> WorkerPlaces] /\ mpc \in MainPlaces
    BY DEF RaceInit, WorkerPlaces, MainPlaces
  <2>3. returnValue \in [Workers -> BOOLEAN] /\ interrupted \in [Workers -> BOOLEAN]
    BY DEF RaceInit
  <2>4. QED
    BY <2>1, <2>2, <2>3 DEF RaceInit, PlaceOK
<1>2. RaceInv
  <2>1. /\ \A t \in Workers : wpc[t] = "unborn" /\ t # NoOne
        /\ mutex_done = NoOne /\ flag_done = FALSE /\ mpc = "spawn"
    BY WorkersFacts DEF RaceInit
  <2>2. QED
    BY <2>1 DEF RaceInv, LockHeld, FlagSeen, Stored, WinnerSet, WinnerHasAnswered, SomeoneWins,
                Holding
<1>3. LemmaOK
  BY DEF RaceInit, LemmaOK, LemmaSeq, SharingAssumption
<1>4. LemmasInOrder
  <2>1. \A u \in Workers : out[u] = << >> /\ Taken(u) = 0
    BY DEF RaceInit, Taken
  <2>2. ASSUME NEW t \in Workers, NEW u \in Workers
        PROVE  InOrder(in[t] \o queues[t], u, got[t][u], IF t = u THEN 0 ELSE Taken(u))
    <3>1. in[t] \o queues[t] = << >> /\ got[t][u] = 0
      BY DEF RaceInit
    <3>2. InOrder(<< >>, u, 0, 0)
      BY DEF InOrder, From
    <3>3. QED
      BY <2>1, <3>1, <3>2
  <2>3. QED
    BY <2>1, <2>2 DEF LemmasInOrder
<1>5. QED
  BY <1>1, <1>2, <1>3, <1>4 DEF Inv

\* Every step keeps the inductive invariant.
LEMMA InvStep ==
  ASSUME WorkersAssumption, SharingAssumption, Inv, [RaceNext]_raceVars
  PROVE  Inv'
<1>1. CASE UNCHANGED raceVars
  <2>1. PlaceOK'
    BY <1>1 DEF Inv, PlaceOK, raceVars, race
  <2>2. RaceInv'
    BY <1>1, RaceSame DEF Inv, raceVars, race, RaceInv, WinnerHasAnswered, Decided
  <2>3. LemmaInv'
    BY <1>1, LemmaSame DEF Inv, LemmaInv, raceVars
  <2>4. QED
    BY <2>1, <2>2, <2>3 DEF Inv, LemmaInv
<1>2. CASE RaceNext
  <2>1. LemmaInv'
    BY <1>2, LemmaStep DEF Inv, LemmaInv
  <2>2. PlaceOK' /\ RaceInv'
    <3>1. CASE \E t \in Workers : Query(t)
      BY <3>1, PlaceQuery, RaceQuery DEF Inv
    <3>2. CASE \E t \in Workers : Finish(t)
      BY <3>2, PlaceFinish, RaceFinish DEF Inv
    <3>3. CASE Main \/ MainWakesAlone
      BY <3>3, PlaceMain, RaceMain DEF Inv
    <3>4. CASE Driver
      BY <3>4, PlaceDriver, RaceDriver DEF Inv
    <3>5. CASE Over
      <4>1. PlaceOK'
        BY <3>5 DEF Inv, Over, PlaceOK, raceVars, race
      <4>2. RaceInv'
        BY <3>5, RaceSame DEF Inv, Over, raceVars, race, RaceInv, WinnerHasAnswered, Decided
      <4>3. QED
        BY <4>1, <4>2
    <3>6. QED
      BY <1>2, <3>1, <3>2, <3>3, <3>4, <3>5 DEF RaceNext
  <2>3. QED
    BY <2>1, <2>2 DEF Inv, LemmaInv
<1>3. QED
  BY <1>1, <1>2

\* Whatever the number of threads and whoever comes first: what runPortfolio
\* returns is the stored result of the one winner, and a thread that does not
\* get mutex_done (portfolio.cpp, runThread) may leave, because a winner is set
\* or about to be.
THEOREM RaceCorrect ==
  ASSUME WorkersAssumption, SharingAssumption
  PROVE  RaceSpec => []RaceRight
<1>1. RaceInit => Inv
  BY InitInv
<1>2. Inv /\ [RaceNext]_raceVars => Inv'
  BY InvStep
<1>3. Inv => RaceRight
  BY DEF Inv, PlaceOK, LemmaOK, RaceInv, RaceRight, RaceTypeOK
<1>4. QED
  BY <1>1, <1>2, <1>3, PTL DEF RaceSpec

\* Whatever the number of threads, the size of the channels and the number of
\* lemmas: the sharing thread (portfolio_util.h, sharingManager) brings the
\* lemmas of each thread to each other thread once and in the order in which
\* they were shared, and to none its own.
THEOREM SharingCorrect ==
  ASSUME WorkersAssumption, SharingAssumption
  PROVE  RaceSpec => []LemmasInOrder
<1>1. RaceInit => Inv
  BY InitInv
<1>2. Inv /\ [RaceNext]_raceVars => Inv'
  BY InvStep
<1>3. Inv => LemmasInOrder
  BY DEF Inv
<1>4. QED
  BY <1>1, <1>2, <1>3, PTL DEF RaceSpec

-----------------------------------------------------------------------------
(* CommandExecutorPortfolio: the engines stay in step, for every number of *)
(* engines and every script, when every command succeeds.  (A command that *)
(* is unsupported ends the sequence in the engines that catch up, see      *)
(* CommandSequence::invoke; then they are not in step.)                    *)

\* Every command of the script succeeds.
AllSucceed == Statuses \subseteq {"success"}

Commands == [place : 1..MaxCommands, kind : {"other", "query"}, status : {"success"}]

\* What engine i has still to run.
Saved(i) == IF i = d_lastWinner THEN << >> ELSE d_seq

\* The inductive invariant: EnginesInStep, with the sequences typed.
ExecutorInv ==
  /\ d_lastWinner \in Engines /\ ran \in [Engines -> Seq(Commands)]
  /\ d_seq \in Seq(Commands) /\ script \in Seq(Commands)
  /\ asked \in [ran : Seq(Commands), script : Seq(Commands)]
  /\ \A i \in Engines : ran[i] \o Saved(i) = script
  /\ asked.ran = asked.script

-----------------------------------------------------------------------------
\* A sequence of commands that succeed is run to its end.
LEMMA InvokedAll ==
  ASSUME NEW s \in Seq(Commands)
  PROVE  Invoked(s) = s
<1>1. ASSUME NEW k \in DOMAIN s
      PROVE  s[k].status = "success"
  <2>1. s[k] \in Commands
    OBVIOUS
  <2> QED  BY <2>1 DEF Commands
<1>2. {k \in DOMAIN s : s[k].status # "success"} = {}
  BY <1>1
<1> QED  BY <1>2 DEF Invoked

\* Appending to what is saved appends to the whole.
LEMMA AppendSaved ==
  ASSUME NEW s \in Seq(Commands), NEW t \in Seq(Commands), NEW c \in Commands
  PROVE  /\ s \o Append(t, c) = Append(s \o t, c)
         /\ Append(s, c) = s \o <<c>>
         /\ s \o << >> = s
<1>1. <<c>> \in Seq(Commands) /\ s \o t \in Seq(Commands)
  BY ConcatProperties
<1>2. Append(t, c) = t \o <<c>> /\ Append(s \o t, c) = (s \o t) \o <<c>> /\ Append(s, c) = s \o <<c>>
  BY <1>1, AppendIsConcat
<1>3. (s \o t) \o <<c>> = s \o (t \o <<c>>)
  BY <1>1, ConcatAssociative
<1>4. s \o << >> = s
  BY ConcatEmptySeq
<1> QED  BY <1>2, <1>3, <1>4

\* The invariant of the commands holds at first.
LEMMA ExecutorInitInv == ASSUME EnginesAssumption, ExecutorInit PROVE ExecutorInv
<1>1. << >> \in Seq(Commands) /\ << >> \o << >> = << >>
  BY ConcatEmptySeq
<1>2. 0 \in Engines
  BY DEF EnginesAssumption, Engines
<1>3. ran \in [Engines -> Seq(Commands)] /\ \A i \in Engines : ran[i] = << >>
  BY <1>1 DEF ExecutorInit
<1>4. asked \in [ran : Seq(Commands), script : Seq(Commands)] /\ asked.ran = asked.script
  BY <1>1 DEF ExecutorInit
<1> QED  BY <1>1, <1>2, <1>3, <1>4 DEF ExecutorInit, ExecutorInv, Saved

\* A command is one of the kinds.
LEMMA CommandType ==
  ASSUME StatusAssumption, ExecutorInv, NEW kind \in {"other", "query"}, Len(script) < MaxCommands
  PROVE  Command(kind, "success") \in Commands
<1>1. Len(script) + 1 \in 1..MaxCommands
  BY DEF ExecutorInv, StatusAssumption
<1> QED  BY <1>1 DEF Command, Commands

\* A command that one engine runs preserves it.
LEMMA Mode0Inv ==
  ASSUME EnginesAssumption, ExecutorInv, NEW c \in Commands, mode0(c)
  PROVE  ExecutorInv'
<1>1. d_lastWinner \in Engines /\ ran \in [Engines -> Seq(Commands)] /\ d_seq \in Seq(Commands)
      /\ script \in Seq(Commands)
  BY DEF ExecutorInv
<1>2. /\ script' = Append(script, c) /\ d_seq' = Append(d_seq, c) /\ d_lastWinner' = d_lastWinner
      /\ asked' = asked /\ ran' = [ran EXCEPT ![d_lastWinner] = Append(ran[d_lastWinner], c)]
  BY DEF mode0, Reads
<1>3. /\ \A i \in Engines : ran'[i] = IF i = d_lastWinner THEN Append(ran[i], c) ELSE ran[i]
      /\ ran' \in [Engines -> Seq(Commands)] /\ d_seq' \in Seq(Commands) /\ script' \in Seq(Commands)
  BY <1>1, <1>2
<1>4. ASSUME NEW i \in Engines
      PROVE  ran'[i] \o Saved(i)' = script'
  <2>1. ran[i] \o Saved(i) = script /\ ran[i] \in Seq(Commands)
    BY <1>1 DEF ExecutorInv
  <2>2. CASE i = d_lastWinner
    <3>1. Saved(i) = << >> /\ Saved(i)' = << >>
      BY <1>2, <2>2 DEF Saved
    <3>2. ran[i] = script
      BY <2>1, <3>1, ConcatEmptySeq
    <3>3. ran'[i] = script' /\ ran'[i] \in Seq(Commands)
      BY <1>2, <1>3, <2>2, <3>2
    <3> QED  BY <3>1, <3>3, ConcatEmptySeq
  <2>3. CASE i # d_lastWinner
    <3>1. Saved(i) = d_seq /\ Saved(i)' = Append(d_seq, c) /\ ran'[i] = ran[i]
      BY <1>2, <1>3, <2>3 DEF Saved
    <3>2. ran[i] \o Append(d_seq, c) = Append(ran[i] \o d_seq, c)
      BY <1>1, <2>1, AppendSaved
    <3> QED  BY <1>2, <2>1, <3>1, <3>2
  <2> QED  BY <2>2, <2>3
<1> QED  BY <1>1, <1>2, <1>3, <1>4 DEF ExecutorInv

\* The race: whoever wins, all engines have run the whole script after it.
LEMMA Mode1Inv ==
  ASSUME EnginesAssumption, ExecutorInv, NEW c \in Commands, mode1(c)
  PROVE  ExecutorInv'
<1>1. d_lastWinner \in Engines /\ ran \in [Engines -> Seq(Commands)] /\ d_seq \in Seq(Commands)
      /\ script \in Seq(Commands)
  BY DEF ExecutorInv
<1>2. /\ script' = Append(script, c) /\ d_seq' = << >> /\ d_lastWinner' \in Engines /\ asked' = asked
      /\ ran' = [i \in Engines |-> ran[i] \o Invoked(Seqs(c)[i])]
  BY DEF mode1, Reads
<1>3. ASSUME NEW i \in Engines
      PROVE  ran'[i] = script' /\ ran'[i] \in Seq(Commands)
  <2>1. ran[i] \o Saved(i) = script /\ ran[i] \in Seq(Commands)
    BY <1>1 DEF ExecutorInv
  <2>2. Seqs(c)[i] \in Seq(Commands)
    BY <1>1 DEF Seqs
  <2>3. ran'[i] = ran[i] \o Seqs(c)[i]
    BY <1>2, <2>2, InvokedAll
  <2>4. CASE i = d_lastWinner
    <3>1. Saved(i) = << >> /\ Seqs(c)[i] = <<c>>
      BY <2>4 DEF Saved, Seqs
    <3>2. ran[i] = script
      BY <2>1, <3>1, ConcatEmptySeq
    <3>3. ran'[i] = script \o <<c>>
      BY <2>3, <3>1, <3>2
    <3>4. Append(script, c) = script \o <<c>> /\ Append(script, c) \in Seq(Commands)
      BY <1>1, AppendSaved, AppendProperties
    <3> QED  BY <1>2, <3>3, <3>4
  <2>5. CASE i # d_lastWinner
    <3>1. Saved(i) = d_seq /\ Seqs(c)[i] = Append(d_seq, c)
      BY <2>5 DEF Saved, Seqs
    <3>2. ran[i] \o Append(d_seq, c) = Append(ran[i] \o d_seq, c)
      BY <1>1, <2>1, AppendSaved
    <3>3. ran'[i] = Append(script, c)
      BY <2>1, <2>3, <3>1, <3>2
    <3>4. Append(script, c) \in Seq(Commands)
      BY <1>1, AppendProperties
    <3> QED  BY <1>2, <3>3, <3>4
  <2> QED  BY <2>4, <2>5
<1>4. ran' \in [Engines -> Seq(Commands)]
  <2>1. ran' = [i \in Engines |-> ran'[i]]
    BY <1>2
  <2> QED  BY <1>3, <2>1
<1>5. ASSUME NEW i \in Engines
      PROVE  ran'[i] \o Saved(i)' = script'
  <2>1. Saved(i)' = << >>
    BY <1>2 DEF Saved
  <2> QED  BY <1>3, <2>1, ConcatEmptySeq
<1>6. d_seq' \in Seq(Commands) /\ script' \in Seq(Commands)
  BY <1>1, <1>2
<1> QED  BY <1>2, <1>4, <1>5, <1>6 DEF ExecutorInv

\* So does one that every engine runs.
LEMMA Mode2Inv == ASSUME ExecutorInv, mode2 PROVE ExecutorInv'
<1>1. ran[d_lastWinner] = script /\ ran[d_lastWinner] \in Seq(Commands)
  <2>1. ran[d_lastWinner] \o << >> = script /\ ran[d_lastWinner] \in Seq(Commands)
    BY DEF ExecutorInv, Saved
  <2> QED  BY <2>1, ConcatEmptySeq
<1>2. UNCHANGED <<d_seq, d_lastWinner, ran, script>>
  BY DEF mode2
<1>3. asked' \in [ran : Seq(Commands), script : Seq(Commands)] /\ asked'.ran = asked'.script
  BY <1>1 DEF mode2, ExecutorInv
<1> QED  BY <1>2, <1>3 DEF ExecutorInv, Saved

\* So does every step.
LEMMA ExecutorNextInv ==
  ASSUME EnginesAssumption, StatusAssumption, AllSucceed, ExecutorInv, [ExecutorNext]_executorVars
  PROVE  ExecutorInv'
<1>1. ASSUME NEW s \in Statuses, mode0(Command("other", s))
      PROVE  ExecutorInv'
  <2>1. s = "success" /\ Len(script) < MaxCommands
    BY <1>1 DEF AllSucceed, mode0, Reads
  <2> QED  BY <1>1, <2>1, CommandType, Mode0Inv
<1>2. CASE mode1(Command("query", "success"))
  <2>1. Len(script) < MaxCommands
    BY <1>2 DEF mode1, Reads
  <2> QED  BY <1>2, <2>1, CommandType, Mode1Inv
<1>3. CASE mode2
  BY <1>3, Mode2Inv
<1>4. CASE UNCHANGED executorVars
  BY <1>4 DEF executorVars, ExecutorInv, Saved
<1> QED  BY <1>1, <1>2, <1>3, <1>4 DEF ExecutorNext

\* It says that the engines are in step.
LEMMA InvInStep == ExecutorInv => EnginesInStep
<1> SUFFICES ASSUME ExecutorInv PROVE EnginesInStep
  OBVIOUS
<1>1. ASSUME NEW s \in Seq(Commands), NEW k \in DOMAIN s
      PROVE  IsCommand(s[k])
  <2>1. s[k] \in Commands
    OBVIOUS
  <2> QED  BY <2>1 DEF IsCommand, Commands
<1>2. {d_seq, script, asked.ran} \cup {ran[i] : i \in Engines} \subseteq Seq(Commands)
  BY DEF ExecutorInv
<1>3. ExecutorTypeOK
  BY <1>1, <1>2 DEF ExecutorTypeOK, ExecutorInv
<1> QED  BY <1>3 DEF EnginesInStep, ExecutorInv, Saved

\* The engines of the portfolio stay in step (command_executor_portfolio.cpp),
\* for every number of engines and every script of commands that succeed:
\* whoever wins the races, each engine runs each command once and in order,
\* and a get-value is answered by an engine that has run the whole script.
THEOREM EnginesStayInStep ==
  ASSUME EnginesAssumption, StatusAssumption, AllSucceed
  PROVE  ExecutorSpec => []EnginesInStep
<1>1. ExecutorInit => ExecutorInv
  BY ExecutorInitInv
<1>2. ExecutorInv /\ [ExecutorNext]_executorVars => ExecutorInv'
  BY ExecutorNextInv
<1> QED  BY <1>1, <1>2, InvInStep, PTL DEF ExecutorSpec
-----------------------------------------------------------------------------
(* The channel. *)

\* The threads that will still look at the channel for the sake of those that
\* wait on m_not_full: the consumers about to notify and the producers woken.
RoomComing == {t \in Threads : \/ t \in Consumers /\ pc[t] = "notify"
                               \/ t \in Producers /\ pc[t] = "woken"}

\* The same of m_not_empty.
ItemComing == {t \in Threads : \/ t \in Producers /\ pc[t] = "notify"
                               \/ t \in Consumers /\ pc[t] = "woken"}

\* As long as a producer waits there is one such thread for every free place,
\* since nobody starts to wait unless there is none; as long as a consumer
\* waits, one for every unread item.
EnoughComing ==
  /\ WaitingOn(Producers) # {} => Cardinality(RoomComing) >= capacity - m_unread
  /\ WaitingOn(Consumers) # {} => Cardinality(ItemComing) >= m_unread

IInv == TypeOK /\ EnoughComing
-----------------------------------------------------------------------------
(* The buffer. *)

\* What push_front leaves: the new item first, the others one place further,
\* the last one overwritten when the buffer is full.
LEMMA PushFront ==
  ASSUME m_container \in Seq(Items), Len(m_container) <= capacity,
         NEW x \in Items, push_front(x)
  PROVE  /\ m_container' \in Seq(Items)
         /\ Len(m_container') = IF Len(m_container) = capacity THEN capacity
                                                               ELSE Len(m_container) + 1
         /\ m_container'[1] = x
         /\ \A i \in 2..Len(m_container') : m_container'[i] = m_container[i - 1]
<1> DEFINE n == IF Len(m_container) = capacity THEN capacity - 1 ELSE Len(m_container)
           kept == SubSeq(m_container, 1, n)
<1>1. n \in Nat /\ n <= Len(m_container)
  BY CapacityAssumption
<1>2. kept \in Seq(Items) /\ Len(kept) = n /\ \A i \in 1..n : kept[i] = m_container[i]
  BY <1>1
<1>3. m_container' = <<x>> \o kept
  BY DEF push_front
<1> HIDE DEF n, kept
<1>4. /\ m_container' \in Seq(Items) /\ Len(m_container') = n + 1
      /\ m_container'[1] = x
      /\ \A i \in 2..(n + 1) : m_container'[i] = kept[i - 1]
  BY <1>1, <1>2, <1>3
<1>5. \A i \in 2..(n + 1) : m_container'[i] = m_container[i - 1]
  BY <1>1, <1>2, <1>4
<1>6. n + 1 = IF Len(m_container) = capacity THEN capacity ELSE Len(m_container) + 1
  BY CapacityAssumption DEF n
<1>7. QED
  BY <1>4, <1>5, <1>6

\* The item that a push() adds, a new one or the one that its producer waited
\* with, is an item.
LEMMA Added ==
  ASSUME TypeOK, NEW p \in Producers, PushAdds(p)
  PROVE  \E x \in Items : push_front(x)
<1>1. CASE pc[p] = "out"
  BY <1>1 DEF PushAdds
<1>2. CASE pc[p] = "woken"
  <2>1. arg[p] # << >> /\ arg[p] \in {<< >>} \cup {<<x>> : x \in Items}
    BY <1>2 DEF TypeOK
  <2>2. arg[p][1] \in Items
    BY <2>1
  <2>3. QED
    BY <1>2, <2>2 DEF PushAdds
<1>3. QED
  BY <1>1, <1>2 DEF PushAdds

-----------------------------------------------------------------------------
(* Types. *)

\* No step of a producer changes the shape of the state.
LEMMA TypeProducer ==
  ASSUME TypeOK, NEW p \in Producers, ProducerStep(p)
  PROVE  TypeOK'
<1>0. p \in Threads /\ p \notin Consumers
  BY ThreadsAssumption DEF Threads
<1>1. CASE PushWaits(p)
  <2>1. /\ arg' \in [Producers -> {<< >>} \cup {<<x>> : x \in Items}]
        /\ arg'[p] # << >>
        /\ \A o \in Producers \ {p} : arg'[o] = arg[o]
    <3>1. CASE pc[p] = "out"
      <4>1. PICK x \in Items : arg' = [arg EXCEPT ![p] = <<x>>]
        BY <1>1, <3>1 DEF PushWaits
      <4>2. <<x>> # << >>
        OBVIOUS
      <4>3. QED
        BY <4>1, <4>2 DEF TypeOK
    <3>2. CASE pc[p] = "woken"
      BY <1>1, <3>2 DEF TypeOK, PushWaits
    <3>3. QED
      BY <1>1, <3>1, <3>2 DEF PushWaits
  <2>2. /\ pc' \in [Threads -> {"out", "waiting", "woken", "notify"}]
        /\ pc'[p] = "waiting"
        /\ \A o \in Producers \ {p} : pc'[o] = pc[o]
    BY <1>0, <1>1 DEF TypeOK, PushWaits, Threads
  <2>3. \A o \in Producers : (arg'[o] # << >>) <=> pc'[o] \in {"waiting", "woken"}
    BY <2>1, <2>2 DEF TypeOK
  <2>4. QED
    BY <1>1, <2>1, <2>2, <2>3 DEF TypeOK, PushWaits
<1>2. CASE PushAdds(p)
  <2>1. PICK x \in Items : push_front(x)
    BY <1>2, Added
  <2>2. /\ m_container' \in Seq(Items) /\ Len(m_container') <= capacity
        /\ m_unread' \in 0..Len(m_container')
    BY <1>2, <2>1, PushFront, CapacityAssumption DEF TypeOK, PushAdds, is_not_full
  <2>3. QED
    BY <1>0, <1>2, <2>2 DEF TypeOK, PushAdds
<1>3. CASE PushNotifies(p)
  BY <1>0, <1>3, ThreadsAssumption DEF TypeOK, PushNotifies, notify_one, WaitingOn, Threads
<1>4. QED
  BY <1>1, <1>2, <1>3 DEF ProducerStep

\* Nor does one of a consumer.
LEMMA TypeConsumer ==
  ASSUME TypeOK, NEW c \in Consumers, ConsumerStep(c)
  PROVE  TypeOK'
<1>0. c \in Threads /\ c \notin Producers
  BY ThreadsAssumption DEF Threads
<1>1. CASE PopWaits(c)
  BY <1>0, <1>1 DEF TypeOK, PopWaits
<1>2. CASE PopTakes(c)
  <2>1. m_unread \in 1..Len(m_container)
    BY <1>2 DEF TypeOK, PopTakes, is_not_empty
  <2>2. m_container[m_unread] \in Items
    BY <2>1 DEF TypeOK
  <2>3. QED
    BY <1>0, <1>2, <2>1, <2>2 DEF TypeOK, PopTakes
<1>3. CASE PopNotifies(c)
  BY <1>0, <1>3 DEF TypeOK, PopNotifies, notify_one, WaitingOn, Threads
<1>4. QED
  BY <1>1, <1>2, <1>3 DEF ConsumerStep

\* Nor does a spurious wake-up.
LEMMA TypeWakes ==
  ASSUME TypeOK, NEW t \in Threads, WakesAlone(t)
  PROVE  TypeOK'
  BY DEF TypeOK, WakesAlone

\* An empty channel that nobody uses has the shape.
LEMMA InitType == Init => TypeOK
<1> SUFFICES ASSUME Init PROVE TypeOK
  OBVIOUS
<1>1. \A p \in Producers : arg[p] = << >> /\ pc[p] = "out"
  BY DEF Init, Threads
<1>2. m_container \in Seq(Items) /\ Len(m_container) = 0 /\ m_unread = 0
  BY DEF Init
<1>3. QED
  BY <1>1, <1>2, CapacityAssumption DEF Init, TypeOK

\* The state has the shape that the fields of SynchronizedSharedChannel have
\* (util/channel.h): the unread items are among those in the buffer, of which
\* there are no more than its capacity, and exactly the producers inside wait()
\* have an item still to add.
THEOREM TypeCorrect == Spec => []TypeOK
<1>1. Init => TypeOK
  BY InitType
<1>2. TypeOK /\ [Next]_vars => TypeOK'
  <2> SUFFICES ASSUME TypeOK, [Next]_vars PROVE TypeOK'
    OBVIOUS
  <2>1. CASE UNCHANGED vars
    BY <2>1 DEF TypeOK, vars
  <2>2. CASE Next
    BY <2>2, TypeProducer, TypeConsumer, TypeWakes DEF Next, Threads
  <2>3. QED
    BY <2>1, <2>2
<1>3. QED
  BY <1>1, <1>2, PTL DEF Spec

-----------------------------------------------------------------------------
(* Wake-ups. *)

\* The threads that are counted are finitely many.
LEMMA ComingFinite ==
  /\ IsFiniteSet(RoomComing) /\ Cardinality(RoomComing) \in Nat
  /\ IsFiniteSet(ItemComing) /\ Cardinality(ItemComing) \in Nat
<1>1. IsFiniteSet(Threads)
  BY ThreadsAssumption, FS_Union DEF Threads
<1>2. RoomComing \in SUBSET Threads /\ ItemComing \in SUBSET Threads
  BY DEF RoomComing, ItemComing
<1>3. IsFiniteSet(RoomComing) /\ IsFiniteSet(ItemComing)
  BY <1>1, <1>2, FS_Subset
<1>4. QED
  BY <1>3, FS_CardinalityType

\* Taking an element out of a finite set makes it smaller by at most one.
LEMMA CountWithout ==
  ASSUME NEW S, IsFiniteSet(S), NEW x
  PROVE  Cardinality(S \ {x}) \in Nat /\ Cardinality(S \ {x}) >= Cardinality(S) - 1
<1>1. Cardinality(S) \in Nat
  BY FS_CardinalityType
<1>2. IsFiniteSet(S \ {x}) /\ Cardinality(S \ {x}) = IF x \in S THEN Cardinality(S) - 1
                                                              ELSE Cardinality(S)
  BY FS_RemoveElement
<1>3. Cardinality(S \ {x}) \in Nat
  BY <1>2, FS_CardinalityType
<1>4. QED
  BY <1>1, <1>2, <1>3

\* Putting another element in its place does not change its size.
LEMMA CountExchanged ==
  ASSUME NEW S, IsFiniteSet(S), NEW x \in S, NEW y, y \notin S
  PROVE  Cardinality((S \ {x}) \cup {y}) = Cardinality(S)
<1>1. Cardinality(S) \in Nat
  BY FS_CardinalityType
<1>2. IsFiniteSet(S \ {x}) /\ Cardinality(S \ {x}) = Cardinality(S) - 1
  BY FS_RemoveElement
<1>3. Cardinality((S \ {x}) \cup {y}) = Cardinality(S \ {x}) + 1
  BY <1>2, FS_AddElement
<1>4. QED
  BY <1>1, <1>2, <1>3

\* push() starts to wait: there is no free place to account for.
LEMMA ComingPushWaits ==
  ASSUME IInv, NEW p \in Producers, PushWaits(p)
  PROVE  EnoughComing'
<1>0. p \in Threads /\ p \notin Consumers
  BY ThreadsAssumption DEF Threads
<1>1. m_unread = capacity /\ m_unread' = capacity
  BY CapacityAssumption DEF IInv, TypeOK, PushWaits, is_not_full
<1>2. Cardinality(RoomComing)' \in Nat
  <2>1. RoomComing' = RoomComing \ {p}
    BY <1>0 DEF IInv, TypeOK, PushWaits, RoomComing
  <2>2. QED
    BY <2>1, ComingFinite, CountWithout
<1>3. ItemComing' = ItemComing /\ WaitingOn(Consumers)' = WaitingOn(Consumers)
  BY <1>0 DEF IInv, TypeOK, PushWaits, ItemComing, WaitingOn, Threads
<1>4. QED
  BY <1>1, <1>2, <1>3, CapacityAssumption DEF IInv, EnoughComing

\* push() takes a free place and adds an item, for which its thread will notify.
LEMMA ComingPushAdds ==
  ASSUME IInv, NEW p \in Producers, PushAdds(p)
  PROVE  EnoughComing'
<1>0. p \in Threads /\ p \notin Consumers /\ pc[p] \in {"out", "woken"}
  BY ThreadsAssumption DEF Threads, PushAdds
<1>1. m_unread \in Nat /\ m_unread' = m_unread + 1
  BY DEF IInv, TypeOK, PushAdds
<1>2. RoomComing' = RoomComing \ {p} /\ WaitingOn(Producers)' = WaitingOn(Producers)
  BY <1>0 DEF IInv, TypeOK, PushAdds, RoomComing, WaitingOn, Threads
<1>3. ItemComing' = ItemComing \cup {p} /\ WaitingOn(Consumers)' = WaitingOn(Consumers)
  BY <1>0 DEF IInv, TypeOK, PushAdds, ItemComing, WaitingOn, Threads
<1>4. p \notin ItemComing
  BY <1>0 DEF ItemComing
<1>5. Cardinality(RoomComing') >= Cardinality(RoomComing) - 1 /\ Cardinality(RoomComing') \in Nat
  BY <1>2, ComingFinite, CountWithout
<1>6. Cardinality(ItemComing') = Cardinality(ItemComing) + 1
  BY <1>3, <1>4, ComingFinite, FS_AddElement
<1>7. QED
  BY <1>1, <1>2, <1>3, <1>5, <1>6, ComingFinite, CapacityAssumption DEF IInv, EnoughComing

\* pop() starts to wait: there is no item to account for.
LEMMA ComingPopWaits ==
  ASSUME IInv, NEW c \in Consumers, PopWaits(c)
  PROVE  EnoughComing'
<1>0. c \in Threads /\ c \notin Producers
  BY ThreadsAssumption DEF Threads
<1>1. m_unread = 0 /\ m_unread' = 0
  BY DEF IInv, TypeOK, PopWaits, is_not_empty
<1>2. Cardinality(ItemComing)' \in Nat
  <2>1. ItemComing' = ItemComing \ {c}
    BY <1>0 DEF IInv, TypeOK, PopWaits, ItemComing
  <2>2. QED
    BY <2>1, ComingFinite, CountWithout
<1>3. RoomComing' = RoomComing /\ WaitingOn(Producers)' = WaitingOn(Producers)
  BY <1>0 DEF IInv, TypeOK, PopWaits, RoomComing, WaitingOn, Threads
<1>4. QED
  BY <1>1, <1>2, <1>3 DEF IInv, EnoughComing

\* pop() takes an item and frees a place, for which its thread will notify.
LEMMA ComingPopTakes ==
  ASSUME IInv, NEW c \in Consumers, PopTakes(c)
  PROVE  EnoughComing'
<1>0. c \in Threads /\ c \notin Producers /\ pc[c] \in {"out", "woken"}
  BY ThreadsAssumption DEF Threads, PopTakes
<1>1. m_unread \in Nat \ {0} /\ m_unread' = m_unread - 1
  BY DEF IInv, TypeOK, PopTakes, is_not_empty
<1>2. RoomComing' = RoomComing \cup {c} /\ WaitingOn(Producers)' = WaitingOn(Producers)
  BY <1>0 DEF IInv, TypeOK, PopTakes, RoomComing, WaitingOn, Threads
<1>3. ItemComing' = ItemComing \ {c} /\ WaitingOn(Consumers)' = WaitingOn(Consumers)
  BY <1>0 DEF IInv, TypeOK, PopTakes, ItemComing, WaitingOn, Threads
<1>4. c \notin RoomComing
  BY <1>0 DEF RoomComing
<1>5. Cardinality(ItemComing') >= Cardinality(ItemComing) - 1 /\ Cardinality(ItemComing') \in Nat
  BY <1>3, ComingFinite, CountWithout
<1>6. Cardinality(RoomComing') = Cardinality(RoomComing) + 1
  BY <1>2, <1>4, ComingFinite, FS_AddElement
<1>7. QED
  BY <1>1, <1>2, <1>3, <1>5, <1>6, ComingFinite, CapacityAssumption DEF IInv, EnoughComing

\* A thread notifies: a waiting thread takes its place among those that come,
\* or nobody waits.
LEMMA ComingPushNotifies ==
  ASSUME IInv, NEW p \in Producers, PushNotifies(p)
  PROVE  EnoughComing'
<1>0. p \in Threads /\ p \notin Consumers /\ pc[p] = "notify" /\ m_unread' = m_unread
  BY ThreadsAssumption DEF Threads, PushNotifies, notify_one
<1>1. CASE WaitingOn(Consumers) = {}
  <2>1. pc' = [pc EXCEPT ![p] = "out"]
    BY <1>1 DEF PushNotifies, notify_one
  <2>2. /\ WaitingOn(Consumers)' = {}
        /\ WaitingOn(Producers)' = WaitingOn(Producers) /\ RoomComing' = RoomComing
    BY <1>0, <1>1, <2>1 DEF IInv, TypeOK, WaitingOn, RoomComing, Threads
  <2>3. QED
    BY <1>0, <2>2 DEF IInv, EnoughComing
<1>2. CASE WaitingOn(Consumers) # {}
  <2>1. PICK w \in WaitingOn(Consumers) : pc' = [pc EXCEPT ![p] = "out", ![w] = "woken"]
    BY <1>2 DEF PushNotifies, notify_one
  <2>2. w \in Consumers /\ w \in Threads /\ pc[w] = "waiting" /\ w # p /\ w \notin Producers
    BY <1>0, <2>1, ThreadsAssumption DEF WaitingOn, Threads
  <2>3. \A t \in Threads : pc'[t] = IF t = w THEN "woken" ELSE IF t = p THEN "out" ELSE pc[t]
    BY <1>0, <2>1, <2>2 DEF IInv, TypeOK
  <2>4. WaitingOn(Producers)' = WaitingOn(Producers) /\ RoomComing' = RoomComing
    BY <1>0, <2>2, <2>3 DEF WaitingOn, RoomComing, Threads
  <2>5. ItemComing' = (ItemComing \ {p}) \cup {w} /\ p \in ItemComing /\ w \notin ItemComing
    BY <1>0, <2>2, <2>3 DEF ItemComing, Threads
  <2>6. Cardinality(ItemComing') = Cardinality(ItemComing)
    BY <2>5, ComingFinite, CountExchanged
  <2>7. QED
    BY <1>0, <1>2, <2>4, <2>6 DEF IInv, EnoughComing
<1>3. QED
  BY <1>1, <1>2

\* The same of a consumer.
LEMMA ComingPopNotifies ==
  ASSUME IInv, NEW c \in Consumers, PopNotifies(c)
  PROVE  EnoughComing'
<1>0. c \in Threads /\ c \notin Producers /\ pc[c] = "notify" /\ m_unread' = m_unread
  BY ThreadsAssumption DEF Threads, PopNotifies, notify_one
<1>1. CASE WaitingOn(Producers) = {}
  <2>1. pc' = [pc EXCEPT ![c] = "out"]
    BY <1>1 DEF PopNotifies, notify_one
  <2>2. /\ WaitingOn(Producers)' = {}
        /\ WaitingOn(Consumers)' = WaitingOn(Consumers) /\ ItemComing' = ItemComing
    BY <1>0, <1>1, <2>1 DEF IInv, TypeOK, WaitingOn, ItemComing, Threads
  <2>3. QED
    BY <1>0, <2>2 DEF IInv, EnoughComing
<1>2. CASE WaitingOn(Producers) # {}
  <2>1. PICK w \in WaitingOn(Producers) : pc' = [pc EXCEPT ![c] = "out", ![w] = "woken"]
    BY <1>2 DEF PopNotifies, notify_one
  <2>2. w \in Producers /\ w \in Threads /\ pc[w] = "waiting" /\ w # c /\ w \notin Consumers
    BY <1>0, <2>1, ThreadsAssumption DEF WaitingOn, Threads
  <2>3. \A t \in Threads : pc'[t] = IF t = w THEN "woken" ELSE IF t = c THEN "out" ELSE pc[t]
    BY <1>0, <2>1, <2>2 DEF IInv, TypeOK
  <2>4. WaitingOn(Consumers)' = WaitingOn(Consumers) /\ ItemComing' = ItemComing
    BY <1>0, <2>2, <2>3 DEF WaitingOn, ItemComing, Threads
  <2>5. RoomComing' = (RoomComing \ {c}) \cup {w} /\ c \in RoomComing /\ w \notin RoomComing
    BY <1>0, <2>2, <2>3 DEF RoomComing, Threads
  <2>6. Cardinality(RoomComing') = Cardinality(RoomComing)
    BY <2>5, ComingFinite, CountExchanged
  <2>7. QED
    BY <1>0, <1>2, <2>4, <2>6 DEF IInv, EnoughComing
<1>3. QED
  BY <1>1, <1>2

\* A thread that wakes for no reason comes too.
LEMMA ComingWakes ==
  ASSUME IInv, NEW t \in Threads, WakesAlone(t)
  PROVE  EnoughComing'
<1>0. /\ pc[t] = "waiting" /\ m_unread' = m_unread
      /\ \A o \in Threads : pc'[o] = IF o = t THEN "woken" ELSE pc[o]
  BY DEF WakesAlone, IInv, TypeOK
<1>1. m_unread \in Nat /\ capacity - m_unread \in Nat
  BY CapacityAssumption DEF IInv, TypeOK
<1>2. /\ \A kind \in {Producers, Consumers} : WaitingOn(kind)' \subseteq WaitingOn(kind)
      /\ RoomComing' \in {RoomComing, RoomComing \cup {t}}
      /\ ItemComing' \in {ItemComing, ItemComing \cup {t}}
  <2>1. CASE t \in Producers
    <3>1. t \notin Consumers
      BY <2>1, ThreadsAssumption
    <3>2. RoomComing' = RoomComing \cup {t} /\ ItemComing' = ItemComing
      BY <1>0, <2>1, <3>1 DEF RoomComing, ItemComing
    <3>3. QED
      BY <1>0, <3>2 DEF WaitingOn, Threads
  <2>2. CASE t \in Consumers
    <3>1. t \notin Producers
      BY <2>2, ThreadsAssumption
    <3>2. ItemComing' = ItemComing \cup {t} /\ RoomComing' = RoomComing
      BY <1>0, <2>2, <3>1 DEF RoomComing, ItemComing
    <3>3. QED
      BY <1>0, <3>2 DEF WaitingOn, Threads
  <2>3. QED
    BY <2>1, <2>2 DEF Threads
<1>3. /\ Cardinality(RoomComing') >= Cardinality(RoomComing) /\ Cardinality(RoomComing') \in Nat
      /\ Cardinality(ItemComing') >= Cardinality(ItemComing) /\ Cardinality(ItemComing') \in Nat
  <2>1. ASSUME NEW S, IsFiniteSet(S), Cardinality(S) \in Nat
        PROVE  Cardinality(S \cup {t}) >= Cardinality(S) /\ Cardinality(S \cup {t}) \in Nat
    <3>1. Cardinality(S \cup {t}) = IF t \in S THEN Cardinality(S) ELSE Cardinality(S) + 1
      BY <2>1, FS_AddElement
    <3>2. QED
      BY <2>1, <3>1
  <2>2. QED
    BY <1>2, <2>1, ComingFinite
<1>4. /\ WaitingOn(Producers)' # {} => Cardinality(RoomComing)' >= capacity - m_unread
      /\ WaitingOn(Consumers)' # {} => Cardinality(ItemComing)' >= m_unread
  BY <1>1, <1>2, <1>3, ComingFinite DEF IInv, EnoughComing
<1>5. QED
  BY <1>0, <1>4 DEF EnoughComing

\* Every step keeps the inductive invariant.
LEMMA IInvStep == IInv /\ [Next]_vars => IInv'
<1> SUFFICES ASSUME IInv, [Next]_vars PROVE IInv'
  OBVIOUS
<1>1. CASE UNCHANGED vars
  BY <1>1 DEF IInv, TypeOK, EnoughComing, WaitingOn, RoomComing, ItemComing, vars
<1>2. ASSUME NEW p \in Producers, ProducerStep(p) PROVE IInv'
  BY <1>2, TypeProducer, ComingPushWaits, ComingPushAdds, ComingPushNotifies
     DEF IInv, ProducerStep
<1>3. ASSUME NEW c \in Consumers, ConsumerStep(c) PROVE IInv'
  BY <1>3, TypeConsumer, ComingPopWaits, ComingPopTakes, ComingPopNotifies
     DEF IInv, ConsumerStep
<1>4. ASSUME NEW t \in Threads, WakesAlone(t) PROVE IInv'
  BY <1>4, TypeWakes, ComingWakes DEF IInv
<1>5. QED
  BY <1>1, <1>2, <1>3, <1>4 DEF Next, Threads

\* The invariant says what is meant: the threads that come are not none.
LEMMA IInvWakes == IInv => NoMissedWakeup
<1> SUFFICES ASSUME IInv PROVE NoMissedWakeup
  OBVIOUS
<1>1. ASSUME WaitingOn(Producers) # {}, is_not_full PROVE RoomComing # {}
  <2>1. Cardinality(RoomComing) > 0
    BY <1>1, ComingFinite, CapacityAssumption DEF IInv, TypeOK, EnoughComing, is_not_full
  <2>2. QED
    BY <2>1, FS_EmptySet
<1>2. ASSUME WaitingOn(Consumers) # {}, is_not_empty PROVE ItemComing # {}
  <2>1. Cardinality(ItemComing) > 0
    BY <1>2, ComingFinite DEF IInv, TypeOK, EnoughComing, is_not_empty
  <2>2. QED
    BY <2>1, FS_EmptySet
<1>3. NoMissedRoom
  BY <1>1 DEF NoMissedRoom, RoomComing
<1>4. NoMissedItem
  BY <1>2 DEF NoMissedItem, ItemComing
<1>5. QED
  BY <1>3, <1>4 DEF NoMissedWakeup

\* However many threads use the channel, and although push() and pop() unlock
\* before they notify and notify one thread only (util/channel.h), a thread
\* that waits while it could go on is about to be woken, or another one that
\* was is about to take what it waits for.
THEOREM WakeupsNotMissed == Spec => []NoMissedWakeup
<1>1. Init => IInv
  <2> SUFFICES ASSUME Init PROVE IInv
    OBVIOUS
  <2>1. TypeOK
    BY InitType
  <2>2. WaitingOn(Producers) = {} /\ WaitingOn(Consumers) = {}
    BY DEF Init, WaitingOn, Threads
  <2>3. QED
    BY <2>1, <2>2 DEF IInv, EnoughComing
<1>2. QED
  BY <1>1, IInvStep, IInvWakes, PTL DEF Spec

-----------------------------------------------------------------------------
(* The refinement. *)

\* The unread items are a sequence of items.
LEMMA UnreadType ==
  ASSUME TypeOK
  PROVE  unread \in Seq(Items) /\ Len(unread) = m_unread
<1>1. m_unread \in Nat /\ \A i \in 1..m_unread : m_container[m_unread + 1 - i] \in Items
  BY DEF TypeOK
<1>2. unread \in [1..m_unread -> Items]
  BY <1>1 DEF unread
<1>3. QED
  BY <1>1, <1>2

\* What push() adds is the newest of the unread items.
LEMMA UnreadPushed ==
  ASSUME TypeOK, NEW p \in Producers, PushAdds(p)
  PROVE  \E x \in Items : Queue!Put(x)
<1>1. PICK x \in Items : push_front(x)
  BY Added
<1>2. /\ m_unread \in 0..Len(m_container) /\ m_unread' = m_unread + 1 /\ m_unread < capacity
      /\ Len(m_container) \in Nat /\ ret' = ret
  BY DEF TypeOK, PushAdds, is_not_full
<1>3. /\ Len(m_container') = IF Len(m_container) = capacity THEN capacity
                                                            ELSE Len(m_container) + 1
      /\ m_container'[1] = x
      /\ \A i \in 2..Len(m_container') : m_container'[i] = m_container[i - 1]
  BY <1>1, PushFront DEF TypeOK
<1>4. unread \in Seq(Items) /\ Len(unread) = m_unread
  BY <1>2, UnreadType
<1>5. unread' = [i \in 1..(m_unread + 1) |-> m_container'[m_unread + 2 - i]]
  BY <1>2 DEF unread
<1>6. \A i \in 1..(m_unread + 1) : unread'[i] = IF i = m_unread + 1 THEN x ELSE unread[i]
  <2>1. m_unread + 1 <= Len(m_container') /\ Len(m_container') \in Nat
    BY <1>2, <1>3, CapacityAssumption
  <2>2. QED
    BY <1>2, <1>3, <1>5, <2>1 DEF unread
<1>7. unread' = Append(unread, x)
  <2>1. /\ Append(unread, x) = [i \in 1..(m_unread + 1) |-> Append(unread, x)[i]]
        /\ \A i \in 1..(m_unread + 1) :
             Append(unread, x)[i] = IF i = m_unread + 1 THEN x ELSE unread[i]
    <3>1. /\ Append(unread, x) \in Seq(Items) /\ Len(Append(unread, x)) = m_unread + 1
          /\ \A i \in 1..m_unread : Append(unread, x)[i] = unread[i]
          /\ Append(unread, x)[m_unread + 1] = x
      BY <1>4, AppendProperties
    <3>2. Append(unread, x) \in [1..(m_unread + 1) -> Items]
      BY <3>1, LenProperties
    <3>3. \A i \in 1..(m_unread + 1) : i = m_unread + 1 \/ i \in 1..m_unread
      BY <1>2
    <3>4. QED
      BY <3>1, <3>2, <3>3
  <2>2. QED
    BY <1>5, <1>6, <2>1
<1>8. QED
  BY <1>2, <1>4, <1>7 DEF Queue!Put

\* What pop() returns is the oldest of the unread items.
LEMMA UnreadPopped ==
  ASSUME TypeOK, NEW c \in Consumers, PopTakes(c)
  PROVE  Queue!Get(c)
<1>1. /\ m_unread \in 1..Len(m_container) /\ m_unread' = m_unread - 1
      /\ m_unread \in Nat /\ m_container' = m_container
      /\ ret' = [ret EXCEPT ![c] = <<m_container[m_unread]>>]
  BY DEF TypeOK, PopTakes, is_not_empty
<1>2. unread \in Seq(Items) /\ Len(unread) = m_unread
  BY <1>1, UnreadType
<1>3. unread # << >> /\ Head(unread) = m_container[m_unread]
  BY <1>1, <1>2 DEF unread
<1>4. unread' = [i \in 1..(m_unread - 1) |-> m_container[m_unread - i]]
  BY <1>1 DEF unread
<1>5. /\ Tail(unread) = [i \in 1..(m_unread - 1) |-> Tail(unread)[i]]
      /\ \A i \in 1..(m_unread - 1) : Tail(unread)[i] = unread[i + 1]
  <2>1. /\ Tail(unread) \in Seq(Items) /\ Len(Tail(unread)) = m_unread - 1
        /\ \A i \in 1..Len(Tail(unread)) : Tail(unread)[i] = unread[i + 1]
    BY <1>2, <1>3, HeadTailProperties
  <2>2. Tail(unread) \in [1..(m_unread - 1) -> Items]
    BY <2>1, LenProperties
  <2>3. QED
    BY <2>1, <2>2
<1>6. \A i \in 1..(m_unread - 1) : unread[i + 1] = m_container[m_unread - i]
  BY <1>1 DEF unread
<1>7. unread' = Tail(unread)
  BY <1>4, <1>5, <1>6
<1>8. QED
  BY <1>1, <1>3, <1>7 DEF Queue!Get

\* The channel implements BoundedQueue: although items that were read stay in
\* the circular buffer and a push() at capacity overwrites its last one, every
\* item is popped once, in the order of the pushes, and pop() frees the place.
THEOREM ImplementsQueue == Spec => IsFifo
<1>1. Init => Queue!Init
  <2> SUFFICES ASSUME Init PROVE Queue!Init
    OBVIOUS
  <2>1. unread = << >>
    BY DEF Init, unread
  <2>2. QED
    BY <2>1 DEF Init, Queue!Init
<1>2. ASSUME TypeOK, [Next]_vars PROVE [Queue!Next]_<<unread, ret>>
  <2>1. ASSUME UNCHANGED <<m_container, m_unread, ret>> PROVE UNCHANGED <<unread, ret>>
    BY <2>1 DEF unread
  <2>2. ASSUME NEW p \in Producers, PushAdds(p) PROVE Queue!Next
    BY <1>2, <2>2, UnreadPushed DEF Queue!Next
  <2>3. ASSUME NEW c \in Consumers, PopTakes(c) PROVE Queue!Next
    BY <1>2, <2>3, UnreadPopped DEF Queue!Next
  <2>4. ASSUME NEW t, \/ PushWaits(t) \/ PopWaits(t) \/ PushNotifies(t) \/ PopNotifies(t)
                      \/ WakesAlone(t)
        PROVE  UNCHANGED <<unread, ret>>
    BY <2>1, <2>4 DEF PushWaits, PopWaits, PushNotifies, PopNotifies, notify_one, WakesAlone
  <2>5. CASE UNCHANGED vars
    BY <2>1, <2>5 DEF vars
  <2>6. CASE Next
    BY <2>2, <2>3, <2>4, <2>6 DEF Next, ProducerStep, ConsumerStep
  <2>7. QED
    BY <1>2, <2>5, <2>6
<1>3. QED
  BY <1>1, <1>2, TypeCorrect, PTL DEF Spec, IsFifo, Queue!Spec
=============================================================================
