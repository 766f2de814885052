--------------------------- MODULE JobQueueProofs ---------------------------
(***************************************************************************)
(* Proofs about JobQueue, for any number of jobs, owners and threads, and, *)
(* at the end, about CommandJob, the job that runs a command, whatever the *)
(* amount of output of its child.                                          *)
(***************************************************************************)
EXTENDS JobQueue, CommandJob, FiniteSetTheorems, TLAPS

\* Appending a job that is not held yet adds exactly that job.
LEMMA HoldsAppend ==
    ASSUME NEW T, NEW s \in Seq(T), NEW S, Holds(s, S),
           NEW x \in T, x \notin S
    PROVE  /\ Append(s, x) \in Seq(T)
           /\ Holds(Append(s, x), S \union {x})
<1>1. Append(s, x) \in Seq(T)
  OBVIOUS
<1>2. /\ Len(Append(s, x)) = Len(s) + 1
      /\ \A i \in 1..Len(s) : Append(s, x)[i] = s[i]
      /\ Append(s, x)[Len(s) + 1] = x
      /\ Len(s) \in Nat
  OBVIOUS
<1>3. \A i \in 1..Len(s) : s[i] \in S
  BY DEF Holds, RangeOf
<1>4. Injective(Append(s, x))
  BY <1>2, <1>3 DEF Holds, Injective
<1>5. RangeOf(Append(s, x)) = S \union {x}
  BY <1>2, <1>3 DEF Holds, RangeOf
<1>. QED  BY <1>1, <1>4, <1>5 DEF Holds

\* Taking the first job removes exactly that job.
LEMMA HoldsTail ==
    ASSUME NEW T, NEW s \in Seq(T), NEW S, Holds(s, S), s # <<>>
    PROVE  /\ Head(s) \in S
           /\ Head(s) \in T
           /\ Tail(s) \in Seq(T)
           /\ Holds(Tail(s), S \ {Head(s)})
<1>1. /\ Len(s) \in Nat \ {0}
      /\ Head(s) = s[1]
      /\ Tail(s) \in Seq(T)
      /\ Len(Tail(s)) = Len(s) - 1
      /\ \A i \in 1..(Len(s) - 1) : Tail(s)[i] = s[i + 1]
  OBVIOUS
<1>2. Head(s) \in S /\ Head(s) \in T
  BY <1>1 DEF Holds, RangeOf
<1>3. Injective(Tail(s))
  BY <1>1 DEF Holds, Injective
<1>4. RangeOf(Tail(s)) = S \ {Head(s)}
  <2>1. ASSUME NEW y \in RangeOf(Tail(s)) PROVE y \in S \ {Head(s)}
    <3>1. PICK i \in 1..(Len(s) - 1) : y = s[i + 1]
      BY <1>1 DEF RangeOf
    <3>2. i + 1 \in 1..Len(s) /\ i + 1 # 1 /\ 1 \in 1..Len(s)
      BY <1>1
    <3>. QED  BY <3>1, <3>2, <1>1 DEF Holds, Injective, RangeOf
  <2>2. ASSUME NEW y \in S \ {Head(s)} PROVE y \in RangeOf(Tail(s))
    <3>1. PICK i \in 1..Len(s) : y = s[i]
      BY DEF Holds, RangeOf
    <3>2. i # 1 /\ i - 1 \in 1..(Len(s) - 1) /\ (i - 1) + 1 = i
      BY <3>1, <1>1
    <3>3. Tail(s)[i - 1] = y
      BY <3>1, <3>2, <1>1
    <3>. QED  BY <3>2, <3>3, <1>1 DEF RangeOf
  <2>. QED  BY <2>1, <2>2
<1>. QED  BY <1>1, <1>2, <1>3, <1>4 DEF Holds

-----------------------------------------------------------------------------
\* The list operations keep the counters natural numbers and the list a set of
\* jobs.
LEMMA SetCountsType ==
    ASSUME NEW list, NEW c \in Nat, NEW m \in Nat, SetCounts(list, c, m)
    PROVE  currentJobCount' \in Nat /\ maxCount' \in Nat
BY DEF SetCounts

LEMMA EnlistType ==
    ASSUME TypeOK, NEW j \in Jobs, Enlist(j)
    PROVE  jobs' \subseteq Jobs /\ currentJobCount' \in Nat /\ maxCount' \in Nat
<1>1. CASE j \in jobs
  BY <1>1 DEF Enlist, counters, TypeOK
<1>2. CASE j \notin jobs
  BY <1>2, SetCountsType DEF Enlist, TypeOK
<1>. QED  BY <1>1, <1>2

LEMMA UnlistType ==
    ASSUME TypeOK, NEW j \in Jobs, Unlist(j)
    PROVE  jobs' \subseteq Jobs /\ currentJobCount' \in Nat /\ maxCount' \in Nat
<1>1. CASE stage = "closed" \/ j \notin jobs
  BY <1>1 DEF Unlist, counters, TypeOK
<1>2. CASE ~(stage = "closed" \/ j \notin jobs)
  <2>. DEFINE c == IF currentJobCount > 0 THEN currentJobCount - 1
                                          ELSE currentJobCount
  <2>1. c \in Nat /\ maxCount \in Nat /\ currentJobCount \in Nat
    BY DEF TypeOK
  <2>2. jobs' \subseteq Jobs
    BY <1>2 DEF Unlist, TypeOK
  <2>3. \/ SetCounts(jobs', c, maxCount)
        \/ UNCHANGED <<currentJobCount, maxCount>>
    BY <1>2 DEF Unlist
  <2>. QED  BY <2>1, <2>2, <2>3, SetCountsType
<1>. QED  BY <1>1, <1>2

-----------------------------------------------------------------------------
\* The pieces the actions are made of keep the types.
LEMMA GotoType ==
    ASSUME TypeOK, NEW j \in Jobs, NEW place \in Places, Goto(j, place)
    PROVE  at' \in [Jobs -> Places]
BY DEF Goto, TypeOK

LEMMA SetStateType ==
    ASSUME TypeOK, NEW j \in Jobs, NEW s \in States, SetState(j, s)
    PROVE  state' \in [Jobs -> States]
BY DEF SetState, TypeOK

LEMMA PushType ==
    ASSUME TypeOK, NEW p \in Pools, NEW j \in Jobs, Push(p, j)
    PROVE  pool' \in [Pools -> Seq(Jobs)]
BY DEF Push, TypeOK

LEMMA PopType ==
    ASSUME TypeOK, NEW p \in Pools, pool[p] # <<>>, Pop(p)
    PROVE  pool' \in [Pools -> Seq(Jobs)] /\ Head(pool[p]) \in Jobs
<1>1. pool[p] \in Seq(Jobs)
  BY DEF TypeOK
<1>2. Tail(pool[p]) \in Seq(Jobs) /\ Head(pool[p]) \in Jobs
  BY <1>1
<1>. QED  BY <1>2 DEF Pop, TypeOK

LEMMA FreeType ==
    ASSUME TypeOK, NEW j \in Jobs, Free(j)
    PROVE  /\ at' \in [Jobs -> Places]
           /\ jobs' \subseteq Jobs /\ currentJobCount' \in Nat /\ maxCount' \in Nat
BY GotoType, UnlistType DEF Free, Places

LEMMA PoolOfType ==
    ASSUME TypeOK, NEW j \in Jobs
    PROVE  PoolOf(j) \in {"normal", "priority"} /\ PoolOf(j) \in Pools
BY DEF PoolOf, Pools

LEMMA CountersType ==
    ASSUME TypeOK, UNCHANGED counters
    PROVE  jobs' \subseteq Jobs /\ currentJobCount' \in Nat /\ maxCount' \in Nat
BY DEF TypeOK, counters

LEMMA FinishType ==
    ASSUME TypeOK, NEW j \in Jobs, Finish(j)
    PROVE  /\ at' \in [Jobs -> Places]
           /\ jobs' \subseteq Jobs /\ currentJobCount' \in Nat /\ maxCount' \in Nat
           /\ pool' \in [Pools -> Seq(Jobs)]
           /\ state' \in [Jobs -> States]
<1>1. CASE ~callback[j]
  <2>1. Free(j) /\ UNCHANGED <<pool, state>>
    BY <1>1 DEF Finish
  <2>. QED  BY <2>1, FreeType DEF TypeOK
<1>2. CASE callback[j]
  <2>1. /\ SetState(j, "FINISHED") /\ Push("result", j) /\ Goto(j, "result")
        /\ UNCHANGED counters
    BY <1>2 DEF Finish
  <2>. QED
    BY <2>1, SetStateType, PushType, GotoType, CountersType
       DEF Places, States, Pools
<1>. QED  BY <1>1, <1>2

\* TypeOK, conjunct by conjunct, for a step that leaves the static part alone.
LEMMA TypeStep ==
    ASSUME TypeOK,
           stage' \in Stages,
           jobs' \subseteq Jobs, currentJobCount' \in Nat, maxCount' \in Nat,
           pool' \in [Pools -> Seq(Jobs)], idles' \in Seq(Jobs),
           at' \in [Jobs -> Places], state' \in [Jobs -> States],
           callback' \in [Jobs -> BOOLEAN], round' \in [Jobs -> 0..MaxRounds],
           alive' \subseteq Owners, UNCHANGED fixed
    PROVE  TypeOK'
BY DEF TypeOK, fixed

LEMMA InitTypeOK == Init => TypeOK
<1>. SUFFICES ASSUME Init PROVE TypeOK
  OBVIOUS
<1>1. flags \in [Jobs -> [feed : BOOLEAN, prio : BOOLEAN]]
  BY JobQueueAssumption DEF Init
<1>2. /\ pool \in [Pools -> Seq(Jobs)]
      /\ idles \in Seq(Jobs)
  BY DEF Init
<1>3. round \in [Jobs -> 0..MaxRounds]
  BY JobQueueAssumption DEF Init
<1>. QED  BY <1>1, <1>2, <1>3 DEF Init, TypeOK, Stages, Places, States

LEMMA NextTypeOK == TypeOK /\ [Next]_vars => TypeOK'
<1>. SUFFICES ASSUME TypeOK, [Next]_vars PROVE TypeOK'
  OBVIOUS
<1>. USE DEF Stages, Places, States, Pools
<1>1. CASE UNCHANGED vars
  BY <1>1 DEF TypeOK, vars
<1>2. ASSUME NEW j \in Jobs, NewJob(j) PROVE TypeOK'
  <2>1. /\ at' \in [Jobs -> Places] /\ state' \in [Jobs -> States]
        /\ pool' \in [Pools -> Seq(Jobs)]
    BY <1>2, GotoType, SetStateType, PushType, PoolOfType DEF NewJob
  <2>2. jobs' \subseteq Jobs /\ currentJobCount' \in Nat /\ maxCount' \in Nat
    BY <1>2, EnlistType DEF NewJob
  <2>3. callback' \in [Jobs -> BOOLEAN]
    BY <1>2 DEF NewJob, TypeOK
  <2>. QED  BY <1>2, <2>1, <2>2, <2>3, TypeStep DEF NewJob, TypeOK
<1>3. ASSUME NEW o \in Owners, CancelByOwner(o) \/ FreeOwner(o) PROVE TypeOK'
  <2>1. callback' \in [Jobs -> BOOLEAN]
    BY <1>3 DEF CancelByOwner, FreeOwner, CancelJobs, TypeOK
  <2>. QED
    BY <1>3, <2>1, CountersType, TypeStep DEF CancelByOwner, FreeOwner, TypeOK
<1>4. ASSUME NEW p \in Pools, NEW outcome \in Outcomes, Execute(p, outcome)
      PROVE  TypeOK'
  <2>. DEFINE j == Head(pool[p])
  <2>1. j \in Jobs /\ Tail(pool[p]) \in Seq(Jobs)
    <3>1. pool[p] \in Seq(Jobs) /\ pool[p] # <<>>
      BY <1>4 DEF Execute, TypeOK
    <3>. QED  BY <3>1
  <2>2. /\ stage' = stage /\ idles' = idles /\ callback' = callback
        /\ round' = round /\ alive' = alive /\ UNCHANGED fixed
    BY <1>4 DEF Execute
  <2>3. CASE ~callback[j] /\ Pop(p) /\ Free(j) /\ UNCHANGED state
    BY <1>4, <2>1, <2>2, <2>3, PopType, FreeType, TypeStep DEF Execute, TypeOK
  <2>4. CASE /\ outcome \in {"worker", "async", "lost"}
             /\ Pop(p) /\ Goto(j, outcome) /\ UNCHANGED <<counters, state>>
    <3>1. at' \in [Jobs -> Places]
      BY <2>1, <2>4, GotoType
    <3>. QED
      BY <1>4, <2>1, <2>2, <2>4, <3>1, PopType, CountersType, TypeStep
         DEF Execute, TypeOK
  <2>5. CASE /\ pool' = [pool EXCEPT ![p] = Tail(@), !["result"] = Append(@, j)]
             /\ SetState(j, "FAILED") /\ Goto(j, "result") /\ UNCHANGED counters
    <3>1. at' \in [Jobs -> Places] /\ state' \in [Jobs -> States]
      BY <2>1, <2>5, GotoType, SetStateType
    <3>2. pool["result"] \in Seq(Jobs) /\ p # "result"
      BY <1>4 DEF Execute, TypeOK
    <3>3. Append(pool["result"], j) \in Seq(Jobs)
      BY <2>1, <3>2
    <3>4. pool' = [q \in Pools |->
                     IF q = "result" THEN Append(pool["result"], j)
                     ELSE IF q = p THEN Tail(pool[p]) ELSE pool[q]]
      BY <2>5, <3>2 DEF TypeOK
    <3>5. pool' \in [Pools -> Seq(Jobs)]
      BY <2>1, <3>3, <3>4 DEF TypeOK
    <3>. QED  BY <2>2, <2>5, <3>1, <3>5, CountersType, TypeStep DEF TypeOK
  <2>. QED  BY <1>4, <2>3, <2>4, <2>5 DEF Execute
<1>5. ASSUME NEW j \in Jobs, WorkerFinish(j) \/ AsyncDone(j) PROVE TypeOK'
  BY <1>5, FinishType, TypeStep DEF WorkerFinish, AsyncDone, TypeOK
<1>6. ASSUME NEW j \in Jobs, WorkerFilter(j) PROVE TypeOK'
  BY <1>6, GotoType, SetStateType, CountersType, TypeStep
     DEF WorkerFilter, TypeOK
<1>7. ASSUME NEW j \in Jobs, WorkerFiltered(j) PROVE TypeOK'
  BY <1>7, GotoType, SetStateType, PushType, CountersType, TypeStep
     DEF WorkerFiltered, TypeOK
<1>8. CASE ResultTake
  <2>1. pool["result"] # <<>> /\ Pop("result")
    BY <1>8 DEF ResultTake
  <2>2. Head(pool["result"]) \in Jobs /\ pool' \in [Pools -> Seq(Jobs)]
    BY <2>1, PopType
  <2>. QED
    BY <1>8, <2>2, GotoType, CountersType, TypeStep DEF ResultTake, TypeOK
<1>9. ASSUME NEW j \in Jobs, ResultHand(j) PROVE TypeOK'
  BY <1>9, GotoType, CountersType, TypeStep DEF ResultHand, TypeOK
<1>10. CASE Dispatch
  <2>1. Head(idles) \in Jobs /\ Tail(idles) \in Seq(Jobs)
    BY <1>10 DEF Dispatch, TypeOK
  <2>2. /\ at' \in [Jobs -> Places]
        /\ jobs' \subseteq Jobs /\ currentJobCount' \in Nat /\ maxCount' \in Nat
    BY <1>10, <2>1, GotoType, CountersType, FreeType DEF Dispatch
  <2>. QED  BY <1>10, <2>1, <2>2, TypeStep DEF Dispatch, TypeOK
<1>11. ASSUME NEW j \in Jobs, CallbackDone(j) PROVE TypeOK'
  BY <1>11, FreeType, TypeStep DEF CallbackDone, TypeOK
<1>12. ASSUME NEW j \in Jobs, CallbackAgain(j) PROVE TypeOK'
  <2>1. /\ at' \in [Jobs -> Places] /\ state' \in [Jobs -> States]
        /\ pool' \in [Pools -> Seq(Jobs)]
    BY <1>12, GotoType, SetStateType, PushType, PoolOfType DEF CallbackAgain
  <2>2. jobs' \subseteq Jobs /\ currentJobCount' \in Nat /\ maxCount' \in Nat
    BY <1>12, EnlistType DEF CallbackAgain
  <2>3. round' \in [Jobs -> 0..MaxRounds]
    BY <1>12, JobQueueAssumption DEF CallbackAgain, TypeOK
  <2>. QED  BY <1>12, <2>1, <2>2, <2>3, TypeStep DEF CallbackAgain, TypeOK
<1>13. CASE Finalize
  <2>1. /\ at' \in [Jobs -> Places] /\ pool' \in [Pools -> Seq(Jobs)]
        /\ callback' \in [Jobs -> BOOLEAN]
    BY <1>13 DEF Finalize, Discard, CancelJobs, TypeOK
  <2>. QED  BY <1>13, <2>1, CountersType, TypeStep DEF Finalize, TypeOK
<1>14. ASSUME NEW p \in Pools, PoolFreed(p) PROVE TypeOK'
  <2>1. /\ stage' \in Stages /\ jobs' \subseteq Jobs
        /\ (\E q \in Pools : Discard(q)) \/ UNCHANGED <<pool, at>>
    BY <1>14 DEF PoolFreed, TypeOK
  <2>2. /\ at' \in [Jobs -> Places] /\ pool' \in [Pools -> Seq(Jobs)]
    <3>1. CASE UNCHANGED <<pool, at>>
      BY <3>1 DEF TypeOK
    <3>2. ASSUME NEW q \in Pools, Discard(q)
          PROVE  at' \in [Jobs -> Places] /\ pool' \in [Pools -> Seq(Jobs)]
      BY <3>2 DEF Discard, TypeOK
    <3>. QED  BY <2>1, <3>1, <3>2
  <2>. QED  BY <1>14, <2>1, <2>2, TypeStep DEF PoolFreed, TypeOK
<1>. QED
  BY <1>1, <1>2, <1>3, <1>4, <1>5, <1>6, <1>7, <1>8, <1>9, <1>10, <1>11, <1>12,
     <1>13, <1>14
     DEF Next, Main, Workers, Exited

\* Every variable of the queue keeps its type: in particular the two unsigned
\* counters of update_job_queue.c never go below zero.
THEOREM TypeCorrect == Spec => []TypeOK
<1>. QED  BY InitTypeOK, NextTypeOK, PTL DEF Spec

-----------------------------------------------------------------------------
(***************************************************************************)
(* QueuesHoldJobsOnce.  A job moves in one of a few ways: out of a pool,   *)
(* into a pool, or between places that are no queue.                       *)
(***************************************************************************)
IdleJobs == {j \in Jobs : at[j] = "idle"}

\* The place of the jobs that wait in a pool, and who may wait in it.
QueuePlace(p) == IF p = "result" THEN "result" ELSE "queued"
Admits(p, j) == p = "result" \/ PoolOf(j) = p

Outside == Places \ {"queued", "result", "idle"}

LEMMA WaitingMove ==
    ASSUME TypeOK, NEW j \in Jobs, NEW place, Goto(j, place), UNCHANGED flags
    PROVE  /\ \A p \in Pools :
                Waiting(p)' = IF place = QueuePlace(p) /\ Admits(p, j)
                              THEN Waiting(p) \union {j}
                              ELSE Waiting(p) \ {j}
           /\ IdleJobs' = IF place = "idle" THEN IdleJobs \union {j}
                                            ELSE IdleJobs \ {j}
<1>1. /\ \A k \in Jobs : at'[k] = IF k = j THEN place ELSE at[k]
      /\ \A k \in Jobs : PoolOf(k)' = PoolOf(k)
  BY DEF Goto, TypeOK, PoolOf
<1>2. ASSUME NEW p \in Pools
      PROVE  Waiting(p)' = IF place = QueuePlace(p) /\ Admits(p, j)
                           THEN Waiting(p) \union {j}
                           ELSE Waiting(p) \ {j}
  <2>1. CASE p = "result"
    <3>1. /\ Waiting(p) = {k \in Jobs : at[k] = "result"}
          /\ Waiting(p)' = {k \in Jobs : at'[k] = "result"}
      BY <2>1 DEF Waiting
    <3>. QED  BY <1>1, <2>1, <3>1 DEF QueuePlace, Admits
  <2>2. CASE p # "result"
    <3>1. /\ Waiting(p) = {k \in Jobs : at[k] = "queued" /\ PoolOf(k) = p}
          /\ Waiting(p)' = {k \in Jobs : at'[k] = "queued" /\ PoolOf(k)' = p}
      BY <2>2 DEF Waiting
    <3>. QED  BY <1>1, <2>2, <3>1 DEF QueuePlace, Admits
  <2>. QED  BY <2>1, <2>2
<1>3. IdleJobs' = IF place = "idle" THEN IdleJobs \union {j} ELSE IdleJobs \ {j}
  BY <1>1 DEF IdleJobs
<1>. QED  BY <1>2, <1>3

\* A job that waits somewhere waits in one queue only.
LEMMA WaitingApart ==
    ASSUME TypeOK, NEW p \in Pools, NEW j \in Waiting(p)
    PROVE  /\ j \in Jobs /\ at[j] = QueuePlace(p) /\ Admits(p, j)
           /\ j \notin IdleJobs
           /\ \A q \in Pools : q # p => j \notin Waiting(q)
BY DEF Waiting, QueuePlace, Admits, IdleJobs

LEMMA OutsideWaitsNowhere ==
    ASSUME TypeOK, NEW j \in Jobs, at[j] \in Outside
    PROVE  /\ j \notin IdleJobs
           /\ \A p \in Pools : j \notin Waiting(p)
BY DEF Waiting, IdleJobs, Outside

LEMMA QueuesSame ==
    ASSUME QueuesHoldJobsOnce, UNCHANGED <<pool, idles, at, flags>>
    PROVE  QueuesHoldJobsOnce'
BY DEF QueuesHoldJobsOnce, Waiting, PoolOf

LEMMA QueuesStay ==
    ASSUME TypeOK, QueuesHoldJobsOnce, NEW j \in Jobs, at[j] \in Outside,
           NEW place \in Outside, Goto(j, place),
           UNCHANGED <<pool, idles, flags>>
    PROVE  QueuesHoldJobsOnce'
<1>1. /\ \A p \in Pools : Waiting(p)' = Waiting(p)
      /\ IdleJobs' = IdleJobs
  BY WaitingMove, OutsideWaitsNowhere DEF Outside, QueuePlace
<1>. QED  BY <1>1 DEF QueuesHoldJobsOnce, IdleJobs

LEMMA QueuesPush ==
    ASSUME TypeOK, QueuesHoldJobsOnce, NEW j \in Jobs, at[j] \in Outside,
           NEW p \in Pools, Admits(p, j), Push(p, j), Goto(j, QueuePlace(p)),
           UNCHANGED <<idles, flags>>
    PROVE  QueuesHoldJobsOnce'
<1>1. IdleJobs' = IdleJobs
  BY WaitingMove, OutsideWaitsNowhere DEF QueuePlace
<1>2. ASSUME NEW q \in Pools PROVE Holds(pool'[q], Waiting(q)')
  <2>1. pool[q] \in Seq(Jobs) /\ Holds(pool[q], Waiting(q)) /\ j \notin Waiting(q)
    BY OutsideWaitsNowhere DEF TypeOK, QueuesHoldJobsOnce
  <2>2. CASE q = p
    <3>1. Waiting(q)' = Waiting(q) \union {j}
      BY <2>2, WaitingMove
    <3>2. pool'[q] = Append(pool[q], j)
      BY <2>2 DEF Push, TypeOK
    <3>. QED  BY <2>1, <3>1, <3>2, HoldsAppend
  <2>3. CASE q # p
    <3>1. ~(QueuePlace(p) = QueuePlace(q) /\ Admits(q, j))
      BY <2>3 DEF QueuePlace, Admits, Pools
    <3>2. Waiting(q)' = Waiting(q) \ {j}
      BY <3>1, WaitingMove
    <3>3. pool'[q] = pool[q]
      BY <2>3 DEF Push, TypeOK
    <3>. QED  BY <2>1, <3>2, <3>3
  <2>. QED  BY <2>2, <2>3
<1>. QED  BY <1>1, <1>2 DEF QueuesHoldJobsOnce, IdleJobs

LEMMA QueuesPop ==
    ASSUME TypeOK, QueuesHoldJobsOnce, NEW p \in Pools, pool[p] # <<>>, Pop(p),
           NEW place \in Outside, Goto(Head(pool[p]), place),
           UNCHANGED <<idles, flags>>
    PROVE  QueuesHoldJobsOnce'
<1>. DEFINE j == Head(pool[p])
<1>1. /\ pool[p] \in Seq(Jobs) /\ Holds(pool[p], Waiting(p))
      /\ j \in Waiting(p) /\ j \in Jobs
      /\ Holds(Tail(pool[p]), Waiting(p) \ {j})
  BY HoldsTail DEF TypeOK, QueuesHoldJobsOnce
<1>2. /\ \A q \in Pools : Waiting(q)' = Waiting(q) \ {j}
      /\ IdleJobs' = IdleJobs \ {j}
  BY <1>1, WaitingMove DEF Outside, QueuePlace
<1>3. IdleJobs' = IdleJobs /\ \A q \in Pools : q # p => Waiting(q)' = Waiting(q)
  <2>1. j \notin IdleJobs /\ \A q \in Pools : q # p => j \notin Waiting(q)
    BY <1>1, WaitingApart
  <2>. HIDE DEF j
  <2>. QED  BY <1>2, <2>1
<1>4. ASSUME NEW q \in Pools PROVE Holds(pool'[q], Waiting(q)')
  <2>1. CASE q = p
    BY <1>1, <1>2, <2>1 DEF Pop, TypeOK
  <2>2. CASE q # p
    BY <1>3, <2>2 DEF Pop, TypeOK, QueuesHoldJobsOnce
  <2>. QED  BY <2>1, <2>2
<1>. QED  BY <1>3, <1>4 DEF QueuesHoldJobsOnce, IdleJobs

\* A worker that fails a request at once moves it from its pool to the result
\* pool.
LEMMA QueuesFail ==
    ASSUME TypeOK, QueuesHoldJobsOnce, NEW p \in {"normal", "priority"},
           pool[p] # <<>>,
           pool' = [pool EXCEPT ![p] = Tail(@),
                                !["result"] = Append(@, Head(pool[p]))],
           Goto(Head(pool[p]), "result"), UNCHANGED <<idles, flags>>
    PROVE  QueuesHoldJobsOnce'
<1>. DEFINE j == Head(pool[p])
<1>. p \in Pools /\ "result" \in Pools
  BY DEF Pools
<1>1. /\ pool[p] \in Seq(Jobs) /\ Holds(pool[p], Waiting(p))
      /\ j \in Waiting(p) /\ j \in Jobs
      /\ Holds(Tail(pool[p]), Waiting(p) \ {j})
  BY HoldsTail DEF TypeOK, QueuesHoldJobsOnce
<1>2. j \notin IdleJobs /\ \A q \in Pools : q # p => j \notin Waiting(q)
  BY <1>1, WaitingApart
<1>3. IdleJobs' = IdleJobs
  <2>1. IdleJobs' = IdleJobs \ {j}
    BY <1>1, WaitingMove
  <2>. HIDE DEF j
  <2>. QED  BY <1>2, <2>1
<1>4. /\ \A q \in Pools : q # "result" => Waiting(q)' = Waiting(q) \ {j}
      /\ Waiting("result")' = Waiting("result") \union {j}
  BY <1>1, WaitingMove DEF QueuePlace, Admits
<1>5. pool["result"] \in Seq(Jobs) /\ Holds(pool["result"], Waiting("result"))
  BY DEF TypeOK, QueuesHoldJobsOnce
<1>6. Holds(Append(pool["result"], j), Waiting("result") \union {j})
  BY <1>1, <1>2, <1>5, HoldsAppend
<1>7. \A q \in Pools : pool'[q] = IF q = "result" THEN Append(pool["result"], j)
                                  ELSE IF q = p THEN Tail(pool[p]) ELSE pool[q]
  BY DEF TypeOK
<1>8. ASSUME NEW q \in Pools PROVE Holds(pool'[q], Waiting(q)')
  <2>1. CASE q = "result"
    BY <1>4, <1>6, <1>7, <2>1
  <2>2. CASE q = p
    BY <1>1, <1>4, <1>7, <2>2
  <2>3. CASE q # p /\ q # "result"
    <3>1. pool'[q] = pool[q] /\ Waiting(q)' = Waiting(q)
      BY <1>2, <1>4, <1>7, <2>3, ZenonT(60)
    <3>. QED  BY <3>1 DEF QueuesHoldJobsOnce
  <2>. QED  BY <2>1, <2>2, <2>3
<1>. QED  BY <1>3, <1>8 DEF QueuesHoldJobsOnce, IdleJobs

LEMMA QueuesHand ==
    ASSUME TypeOK, QueuesHoldJobsOnce, NEW j \in Jobs, at[j] \in Outside,
           idles' = Append(idles, j), Goto(j, "idle"), UNCHANGED <<pool, flags>>
    PROVE  QueuesHoldJobsOnce'
<1>1. j \notin IdleJobs /\ \A p \in Pools : j \notin Waiting(p)
  BY OutsideWaitsNowhere
<1>2. IdleJobs' = IdleJobs \union {j}
  BY WaitingMove
<1>3. \A p \in Pools : Waiting(p)' = Waiting(p) \ {j}
  BY WaitingMove DEF QueuePlace
<1>4. \A p \in Pools : Waiting(p)' = Waiting(p)
  BY <1>1, <1>3
<1>5. idles \in Seq(Jobs) /\ Holds(idles, IdleJobs)
  BY DEF TypeOK, QueuesHoldJobsOnce, IdleJobs
<1>6. Holds(idles', IdleJobs')
  BY <1>1, <1>2, <1>5, HoldsAppend
<1>. QED  BY <1>4, <1>6 DEF QueuesHoldJobsOnce, IdleJobs

LEMMA QueuesDispatch ==
    ASSUME TypeOK, QueuesHoldJobsOnce, idles # <<>>, idles' = Tail(idles),
           NEW place \in Outside, Goto(Head(idles), place),
           UNCHANGED <<pool, flags>>
    PROVE  QueuesHoldJobsOnce'
<1>. DEFINE j == Head(idles)
<1>1. /\ j \in IdleJobs /\ j \in Jobs
      /\ Holds(Tail(idles), IdleJobs \ {j})
  BY HoldsTail DEF TypeOK, QueuesHoldJobsOnce, IdleJobs
<1>2. IdleJobs' = IdleJobs \ {j}
  BY <1>1, WaitingMove DEF Outside
<1>3. \A p \in Pools : Waiting(p)' = Waiting(p) \ {j}
  BY <1>1, WaitingMove DEF Outside, QueuePlace
<1>4. \A p \in Pools : j \notin Waiting(p)
  BY <1>1 DEF IdleJobs, Waiting
<1>5. \A p \in Pools : Waiting(p)' = Waiting(p)
  <2>. HIDE DEF j
  <2>. QED  BY <1>3, <1>4
<1>. QED  BY <1>1, <1>2, <1>5 DEF QueuesHoldJobsOnce, IdleJobs

LEMMA QueuesDiscard ==
    ASSUME TypeOK, QueuesHoldJobsOnce, NEW p \in Pools, Discard(p),
           UNCHANGED <<idles, flags>>
    PROVE  QueuesHoldJobsOnce'
<1>1. RangeOf(pool[p]) = Waiting(p)
  BY DEF QueuesHoldJobsOnce, Holds
<1>2. /\ \A k \in Jobs : at'[k] = IF k \in Waiting(p) THEN "dropped" ELSE at[k]
      /\ \A k \in Jobs : PoolOf(k)' = PoolOf(k)
  BY <1>1 DEF Discard, PoolOf
<1>3. IdleJobs' = IdleJobs
  BY <1>2, WaitingApart DEF IdleJobs
<1>4. ASSUME NEW q \in Pools PROVE Holds(pool'[q], Waiting(q)')
  <2>1. CASE q = p
    <3>1. Waiting(p)' = {}
      <4>1. CASE p = "result"
        BY <1>2, <4>1 DEF Waiting
      <4>2. CASE p # "result"
        BY <1>2, <4>2 DEF Waiting
      <4>. QED  BY <4>1, <4>2
    <3>2. pool'[p] = <<>>
      BY DEF Discard, TypeOK
    <3>3. Holds(<<>>, {})
      BY DEF Holds, Injective, RangeOf
    <3>. QED  BY <2>1, <3>1, <3>2, <3>3
  <2>2. CASE q # p
    <3>1. \A k \in Waiting(p) : k \notin Waiting(q)
      BY <2>2, WaitingApart
    <3>2. Waiting(q)' = Waiting(q)
      <4>1. CASE q = "result"
        BY <1>2, <3>1, <4>1 DEF Waiting
      <4>2. CASE q # "result"
        BY <1>2, <3>1, <4>2 DEF Waiting
      <4>. QED  BY <4>1, <4>2
    <3>3. pool'[q] = pool[q]
      BY <2>2 DEF Discard, TypeOK
    <3>. QED  BY <3>2, <3>3 DEF QueuesHoldJobsOnce
  <2>. QED  BY <2>1, <2>2
<1>. QED  BY <1>3, <1>4 DEF QueuesHoldJobsOnce, IdleJobs, Discard

\* update_job_finished(), from a place that is no queue.
LEMMA QueuesFinish ==
    ASSUME TypeOK, QueuesHoldJobsOnce, NEW j \in Jobs, at[j] \in Outside,
           Finish(j), UNCHANGED <<idles, flags>>
    PROVE  QueuesHoldJobsOnce'
<1>1. CASE ~callback[j]
  <2>1. Goto(j, "freed") /\ UNCHANGED pool
    BY <1>1 DEF Finish, Free
  <2>. QED  BY <2>1, QueuesStay DEF Outside, Places
<1>2. CASE callback[j]
  <2>1. Push("result", j) /\ Goto(j, "result")
    BY <1>2 DEF Finish
  <2>2. "result" \in Pools /\ Admits("result", j) /\ QueuePlace("result") = "result"
    BY DEF Pools, Admits, QueuePlace
  <2>. QED  BY <2>1, <2>2, QueuesPush
<1>. QED  BY <1>1, <1>2

\* A job goes to the pool its flags name.
LEMMA QueuesQueue ==
    ASSUME TypeOK, QueuesHoldJobsOnce, NEW j \in Jobs, at[j] \in Outside,
           Push(PoolOf(j), j), Goto(j, "queued"), UNCHANGED <<idles, flags>>
    PROVE  QueuesHoldJobsOnce'
<1>1. /\ PoolOf(j) \in Pools /\ Admits(PoolOf(j), j)
      /\ QueuePlace(PoolOf(j)) = "queued"
  BY PoolOfType DEF Admits, QueuePlace
<1>. QED  BY <1>1, QueuesPush

LEMMA NextQueues ==
    ASSUME TypeOK, QueuesHoldJobsOnce, [Next]_vars
    PROVE  QueuesHoldJobsOnce'
<1>. USE DEF Outside, Places
<1>1. CASE UNCHANGED vars
  BY <1>1, QueuesSame DEF vars
<1>2. ASSUME NEW j \in Jobs, NewJob(j) \/ CallbackAgain(j)
      PROVE  QueuesHoldJobsOnce'
  BY <1>2, QueuesQueue DEF NewJob, CallbackAgain, fixed
<1>3. ASSUME NEW o \in Owners, CancelByOwner(o) \/ FreeOwner(o)
      PROVE  QueuesHoldJobsOnce'
  BY <1>3, QueuesSame DEF CancelByOwner, FreeOwner, fixed
<1>4. ASSUME NEW p \in Pools, NEW outcome \in Outcomes, Execute(p, outcome)
      PROVE  QueuesHoldJobsOnce'
  <2>. DEFINE j == Head(pool[p])
  <2>1. p \in {"normal", "priority"} /\ pool[p] # <<>> /\ UNCHANGED <<idles, flags>>
    BY <1>4 DEF Execute, fixed
  <2>2. CASE Pop(p) /\ Free(j)
    BY <2>1, <2>2, QueuesPop DEF Free
  <2>3. CASE /\ outcome \in {"worker", "async", "lost"}
             /\ Pop(p) /\ Goto(j, outcome)
    BY <2>1, <2>3, QueuesPop
  <2>4. CASE /\ pool' = [pool EXCEPT ![p] = Tail(@), !["result"] = Append(@, j)]
             /\ Goto(j, "result")
    BY <2>1, <2>4, QueuesFail
  <2>. QED  BY <1>4, <2>2, <2>3, <2>4 DEF Execute
<1>5. ASSUME NEW j \in Jobs, WorkerFinish(j) \/ AsyncDone(j)
      PROVE  QueuesHoldJobsOnce'
  BY <1>5, QueuesFinish DEF WorkerFinish, AsyncDone, fixed
<1>6. ASSUME NEW j \in Jobs, WorkerFilter(j) PROVE QueuesHoldJobsOnce'
  BY <1>6, QueuesStay DEF WorkerFilter, fixed
<1>7. ASSUME NEW j \in Jobs, WorkerFiltered(j) PROVE QueuesHoldJobsOnce'
  <2>1. "result" \in Pools /\ Admits("result", j) /\ QueuePlace("result") = "result"
    BY DEF Pools, Admits, QueuePlace
  <2>. QED  BY <1>7, <2>1, QueuesPush DEF WorkerFiltered, fixed
<1>8. CASE ResultTake
  <2>1. "result" \in Pools
    BY DEF Pools
  <2>. QED  BY <1>8, <2>1, QueuesPop DEF ResultTake, fixed
<1>9. ASSUME NEW j \in Jobs, ResultHand(j) PROVE QueuesHoldJobsOnce'
  BY <1>9, QueuesHand DEF ResultHand, fixed
<1>10. CASE Dispatch
  BY <1>10, QueuesDispatch DEF Dispatch, Free, fixed
<1>11. ASSUME NEW j \in Jobs, CallbackDone(j) PROVE QueuesHoldJobsOnce'
  BY <1>11, QueuesStay DEF CallbackDone, Free, fixed
<1>12. CASE Finalize
  <2>1. "normal" \in Pools
    BY DEF Pools
  <2>. QED  BY <1>12, <2>1, QueuesDiscard DEF Finalize, fixed
<1>13. ASSUME NEW p \in Pools, PoolFreed(p) PROVE QueuesHoldJobsOnce'
  <2>1. UNCHANGED <<idles, flags>>
    BY <1>13 DEF PoolFreed, fixed
  <2>2. (\E q \in Pools : Discard(q)) \/ UNCHANGED <<pool, at>>
    BY <1>13 DEF PoolFreed, Pools
  <2>3. CASE \E q \in Pools : Discard(q)
    BY <2>1, <2>3, QueuesDiscard
  <2>4. CASE UNCHANGED <<pool, at>>
    BY <2>1, <2>4, QueuesSame
  <2>. QED  BY <2>2, <2>3, <2>4
<1>. QED
  BY <1>1, <1>2, <1>3, <1>4, <1>5, <1>6, <1>7, <1>8, <1>9, <1>10, <1>11, <1>12,
     <1>13
     DEF Next, Main, Workers, Exited

-----------------------------------------------------------------------------
(***************************************************************************)
(* The invariant behind the promise.  No single conjunct is inductive:     *)
(* that cancelling reaches every job rests on the list holding every live  *)
(* job, that in turn on the queues holding only live jobs, and the latter  *)
(* on every job being in one queue at most.                                *)
(***************************************************************************)
IInv ==
    /\ TypeOK
    /\ QueuesHoldJobsOnce
    /\ ListHoldsLiveJobs
    /\ NoCallbackForDeadOwner
    /\ StateFollowsPlace
    /\ OneCallback
    /\ QuietOnShutdown

\* A job that is alive changes its place and stays alive.
Moved(j, place) ==
    /\ Live(j)
    /\ place \in Places \ {"none", "freed"}
    /\ Goto(j, place)
    /\ jobs' = jobs \union (IF stage = "up" THEN {j} ELSE {})
    /\ place = "callback" => stage = "up" /\ callback[j] /\ ~InCallback
    /\ StateFits(place, state'[j])
    /\ \A k \in Jobs \ {j} : state'[k] = state[k]
    /\ UNCHANGED <<stage, callback, owner, alive>>

\* A job is freed: its callback has run or was cancelled.
Released(j) ==
    /\ Live(j)
    /\ Goto(j, "freed")
    /\ stage # "closed" => jobs' = jobs \ {j}
    /\ at[j] = "callback" \/ ~callback[j]
    /\ UNCHANGED <<stage, callback, owner, alive, state>>

LEMMA EnlistJobs ==
    ASSUME NEW j, Enlist(j)
    PROVE  jobs' = jobs \union {j}
BY DEF Enlist, counters

LEMMA FreeReleases ==
    ASSUME NEW j \in Jobs, Live(j), Free(j), at[j] = "callback" \/ ~callback[j],
           UNCHANGED <<stage, callback, owner, alive, state>>
    PROVE  Released(j)
<1>1. stage # "closed" => jobs' = jobs \ {j}
  BY DEF Free, Unlist, counters
<1>. QED  BY <1>1 DEF Released, Free

\* A step that leaves the list alone, taken by a live job.
LEMMA MovedQuietly ==
    ASSUME IInv, NEW j \in Jobs, Live(j), NEW place \in Places \ {"none", "freed"},
           Goto(j, place), jobs' = jobs,
           place = "callback" => stage = "up" /\ callback[j] /\ ~InCallback,
           StateFits(place, state'[j]),
           \A k \in Jobs \ {j} : state'[k] = state[k],
           UNCHANGED <<stage, callback, owner, alive>>
    PROVE  Moved(j, place)
<1>1. stage = "up" => j \in jobs
  BY DEF IInv, ListHoldsLiveJobs
<1>. QED  BY <1>1 DEF Moved

LEMMA SetStateFits ==
    ASSUME IInv, NEW j \in Jobs, NEW s \in States, SetState(j, s)
    PROVE  state'[j] = s /\ \A k \in Jobs \ {j} : state'[k] = state[k]
BY DEF SetState, IInv, TypeOK

LEMMA QueueHeads ==
    ASSUME IInv
    PROVE  /\ \A p \in {"normal", "priority"} :
                pool[p] # <<>> =>
                    Head(pool[p]) \in Jobs /\ at[Head(pool[p])] = "queued"
           /\ pool["result"] # <<>> =>
                Head(pool["result"]) \in Jobs /\ at[Head(pool["result"])] = "result"
           /\ idles # <<>> => Head(idles) \in Jobs /\ at[Head(idles)] = "idle"
<1>1. \A p \in Pools : pool[p] \in Seq(Jobs) /\ Holds(pool[p], Waiting(p))
  BY DEF IInv, TypeOK, QueuesHoldJobsOnce
<1>2. \A p \in Pools : pool[p] # <<>> => Head(pool[p]) \in Waiting(p)
  BY <1>1, HoldsTail
<1>3. idles # <<>> => Head(idles) \in {j \in Jobs : at[j] = "idle"}
  BY HoldsTail DEF IInv, TypeOK, QueuesHoldJobsOnce
<1>. QED  BY <1>2, <1>3 DEF Waiting, Pools

LEMMA FinishMoves ==
    ASSUME IInv, NEW j \in Jobs, at[j] \in {"worker", "async"}, Finish(j),
           UNCHANGED <<stage, callback, owner, alive>>
    PROVE  Released(j) \/ Moved(j, "result")
<1>1. Live(j)
  BY DEF Live
<1>2. CASE ~callback[j]
  <2>1. Free(j) /\ UNCHANGED state
    BY <1>2 DEF Finish
  <2>. QED  BY <1>1, <1>2, <2>1, FreeReleases
<1>3. CASE callback[j]
  <2>1. SetState(j, "FINISHED") /\ Goto(j, "result") /\ jobs' = jobs
    BY <1>3 DEF Finish, counters
  <2>2. StateFits("result", state'[j]) /\ \A k \in Jobs \ {j} : state'[k] = state[k]
    BY <2>1, SetStateFits DEF StateFits, States
  <2>. QED  BY <1>1, <2>1, <2>2, MovedQuietly DEF Places
<1>. QED  BY <1>2, <1>3

\* Every step of the queue is one of these.
LEMMA NextCases ==
    ASSUME IInv, Next
    PROVE  \/ \E j \in Jobs : NewJob(j)
           \/ \E j \in Jobs, place \in Places : Moved(j, place)
           \/ \E j \in Jobs : Released(j)
           \/ \E o \in Owners : CancelByOwner(o) \/ FreeOwner(o)
           \/ Finalize
           \/ \E p \in Pools : PoolFreed(p)
           \/ UNCHANGED vars
<1>. DEFINE Goal == \/ \E j \in Jobs, place \in Places : Moved(j, place)
                    \/ \E j \in Jobs : Released(j)
<1>. USE DEF Places, States
<1>1. ASSUME NEW p \in Pools, NEW outcome \in Outcomes, Execute(p, outcome)
      PROVE  Goal
  <2>. DEFINE j == Head(pool[p])
  <2>1. /\ p \in {"normal", "priority"} /\ pool[p] # <<>>
        /\ UNCHANGED <<stage, callback, owner, alive>>
    BY <1>1 DEF Execute, fixed
  <2>2. j \in Jobs /\ at[j] = "queued" /\ Live(j) /\ state[j] = "PENDING"
    BY <2>1, QueueHeads DEF Live, IInv, StateFollowsPlace, StateFits
  <2>3. CASE ~callback[j] /\ Free(j) /\ UNCHANGED state
    BY <2>1, <2>2, <2>3, FreeReleases
  <2>4. CASE /\ outcome \in {"worker", "async", "lost"}
             /\ Goto(j, outcome) /\ UNCHANGED <<counters, state>>
    <3>1. StateFits(outcome, state'[j]) /\ jobs' = jobs
      BY <2>2, <2>4 DEF StateFits, counters
    <3>. QED  BY <2>1, <2>2, <2>4, <3>1, MovedQuietly
  <2>5. CASE SetState(j, "FAILED") /\ Goto(j, "result") /\ UNCHANGED counters
    <3>1. /\ StateFits("result", state'[j]) /\ jobs' = jobs
          /\ \A k \in Jobs \ {j} : state'[k] = state[k]
      BY <2>2, <2>5, SetStateFits DEF StateFits, counters
    <3>. QED  BY <2>1, <2>2, <2>5, <3>1, MovedQuietly
  <2>. QED  BY <1>1, <2>3, <2>4, <2>5 DEF Execute
<1>2. ASSUME NEW j \in Jobs, WorkerFinish(j) \/ AsyncDone(j) PROVE Goal
  BY <1>2, FinishMoves DEF WorkerFinish, AsyncDone, fixed
<1>3. ASSUME NEW j \in Jobs, WorkerFilter(j) PROVE Goal
  <2>1. /\ StateFits("filtering", state'[j])
        /\ \A k \in Jobs \ {j} : state'[k] = state[k]
    BY <1>3, SetStateFits DEF WorkerFilter, StateFits
  <2>. QED  BY <1>3, <2>1, MovedQuietly DEF WorkerFilter, Live, counters, fixed
<1>4. ASSUME NEW j \in Jobs, WorkerFiltered(j) PROVE Goal
  <2>1. /\ StateFits("result", state'[j])
        /\ \A k \in Jobs \ {j} : state'[k] = state[k]
    BY <1>4, SetStateFits DEF WorkerFiltered, StateFits
  <2>. QED  BY <1>4, <2>1, MovedQuietly DEF WorkerFiltered, Live, counters, fixed
<1>5. CASE ResultTake
  <2>. DEFINE j == Head(pool["result"])
  <2>1. j \in Jobs /\ at[j] = "result" /\ Live(j)
    BY <1>5, QueueHeads DEF ResultTake, Live
  <2>2. StateFits("handing", state'[j]) /\ UNCHANGED state
    BY <1>5, <2>1 DEF ResultTake, IInv, StateFollowsPlace, StateFits
  <2>. QED  BY <1>5, <2>1, <2>2, MovedQuietly DEF ResultTake, counters, fixed
<1>6. ASSUME NEW j \in Jobs, ResultHand(j) PROVE Goal
  <2>1. StateFits("idle", state'[j]) /\ UNCHANGED state /\ Live(j)
    BY <1>6 DEF ResultHand, IInv, StateFollowsPlace, StateFits, Live
  <2>. QED  BY <1>6, <2>1, MovedQuietly DEF ResultHand, counters, fixed
<1>7. CASE Dispatch
  <2>. DEFINE j == Head(idles)
  <2>1. /\ j \in Jobs /\ at[j] = "idle" /\ Live(j)
        /\ stage = "up" /\ ~InCallback
        /\ UNCHANGED <<stage, callback, owner, alive, state>>
    BY <1>7, QueueHeads DEF Dispatch, Live, fixed
  <2>2. StateFits("callback", state'[j])
    BY <2>1 DEF IInv, StateFollowsPlace, StateFits
  <2>3. CASE callback[j]
    <3>1. Goto(j, "callback") /\ jobs' = jobs
      BY <1>7, <2>3 DEF Dispatch, counters
    <3>. QED  BY <2>1, <2>2, <2>3, <3>1, MovedQuietly
  <2>4. CASE ~callback[j]
    BY <1>7, <2>1, <2>4, FreeReleases DEF Dispatch
  <2>. QED  BY <2>3, <2>4
<1>8. ASSUME NEW j \in Jobs, CallbackDone(j) PROVE Goal
  BY <1>8, FreeReleases DEF CallbackDone, Live, fixed
<1>9. ASSUME NEW j \in Jobs, CallbackAgain(j) PROVE Goal
  <2>1. /\ StateFits("queued", state'[j]) /\ Live(j)
        /\ \A k \in Jobs \ {j} : state'[k] = state[k]
    BY <1>9, SetStateFits DEF CallbackAgain, StateFits, Live
  <2>2. stage = "up" /\ jobs' = jobs \union {j}
    <3>1. jobs' = jobs \union {j}
      BY <1>9, EnlistJobs DEF CallbackAgain
    <3>. QED
      BY <1>9, <3>1 DEF CallbackAgain, InCallback, IInv, QuietOnShutdown
  <2>. QED  BY <1>9, <2>1, <2>2 DEF CallbackAgain, Moved, fixed
<1>. QED
  BY <1>1, <1>2, <1>3, <1>4, <1>5, <1>6, <1>7, <1>8, <1>9
     DEF Next, Main, Workers, Exited

-----------------------------------------------------------------------------
LEMMA InitIInv == Init => IInv
<1>. SUFFICES ASSUME Init PROVE IInv
  OBVIOUS
<1>1. TypeOK
  BY InitTypeOK
<1>2. QueuesHoldJobsOnce
  <2>1. \A p \in Pools : pool[p] = <<>> /\ Waiting(p) = {}
    BY DEF Init, Waiting, Pools
  <2>2. idles = <<>> /\ {j \in Jobs : at[j] = "idle"} = {}
    BY DEF Init
  <2>. QED  BY <2>1, <2>2 DEF QueuesHoldJobsOnce, Holds, Injective, RangeOf
<1>3. ListHoldsLiveJobs /\ NoCallbackForDeadOwner /\ OneCallback
  BY DEF Init, ListHoldsLiveJobs, NoCallbackForDeadOwner, OneCallback, Live
<1>4. StateFollowsPlace /\ QuietOnShutdown
  BY DEF Init, StateFollowsPlace, StateFits, QuietOnShutdown
<1>. QED  BY <1>1, <1>2, <1>3, <1>4 DEF IInv

\* The conjuncts of IInv about the life of a job.
LifeInv ==
    /\ ListHoldsLiveJobs
    /\ NoCallbackForDeadOwner
    /\ StateFollowsPlace
    /\ OneCallback
    /\ QuietOnShutdown

LEMMA MovedKeepsLife ==
    ASSUME IInv, NEW j \in Jobs, NEW place, Moved(j, place)
    PROVE  LifeInv'
<1>1. /\ \A k \in Jobs : at'[k] = IF k = j THEN place ELSE at[k]
      /\ \A k \in Jobs : Live(k)' = Live(k)
  BY DEF IInv, TypeOK, Moved, Goto, Live
<1>2. ListHoldsLiveJobs'
  <2>1. stage # "up" => jobs' = jobs
    BY DEF Moved
  <2>2. stage = "up" => jobs' = jobs \union {j}
    BY DEF Moved
  <2>. QED  BY <1>1, <2>1, <2>2 DEF IInv, ListHoldsLiveJobs, Moved
<1>3. NoCallbackForDeadOwner'
  BY <1>1 DEF IInv, NoCallbackForDeadOwner, Moved
<1>4. StateFollowsPlace'
  BY <1>1 DEF IInv, StateFollowsPlace, Moved
<1>5. OneCallback'
  BY <1>1 DEF IInv, OneCallback, InCallback, Moved
<1>6. QuietOnShutdown'
  BY <1>1 DEF IInv, QuietOnShutdown, InCallback, Moved
<1>. QED  BY <1>2, <1>3, <1>4, <1>5, <1>6 DEF LifeInv

LEMMA ReleasedKeepsLife ==
    ASSUME IInv, NEW j \in Jobs, Released(j)
    PROVE  LifeInv'
<1>1. /\ \A k \in Jobs : at'[k] = IF k = j THEN "freed" ELSE at[k]
      /\ \A k \in Jobs : Live(k)' = (Live(k) /\ k # j)
  BY DEF IInv, TypeOK, Released, Goto, Live
<1>2. ListHoldsLiveJobs'
  BY <1>1 DEF IInv, ListHoldsLiveJobs, Released
<1>3. NoCallbackForDeadOwner'
  BY <1>1 DEF IInv, NoCallbackForDeadOwner, Released
<1>4. StateFollowsPlace'
  BY <1>1 DEF IInv, StateFollowsPlace, StateFits, Released
<1>5. OneCallback'
  BY <1>1 DEF IInv, OneCallback
<1>6. QuietOnShutdown'
  BY <1>1 DEF IInv, QuietOnShutdown, InCallback, Released
<1>. QED  BY <1>2, <1>3, <1>4, <1>5, <1>6 DEF LifeInv

LEMMA NewJobKeepsLife ==
    ASSUME IInv, NEW j \in Jobs, NewJob(j)
    PROVE  LifeInv'
<1>1. /\ \A k \in Jobs : at'[k] = IF k = j THEN "queued" ELSE at[k]
      /\ \A k \in Jobs : Live(k)' = (Live(k) \/ k = j)
      /\ \A k \in Jobs : callback'[k] = (callback[k] \/ k = j)
      /\ \A k \in Jobs : state'[k] = IF k = j THEN "PENDING" ELSE state[k]
      /\ jobs' = jobs \union {j}
      /\ stage = "up" /\ at[j] = "none" /\ owner[j] \in alive
      /\ UNCHANGED <<stage, owner, alive>>
  BY EnlistJobs DEF IInv, TypeOK, NewJob, Goto, SetState, Live, fixed
<1>2. ListHoldsLiveJobs'
  BY <1>1 DEF IInv, ListHoldsLiveJobs
<1>3. NoCallbackForDeadOwner'
  BY <1>1 DEF IInv, NoCallbackForDeadOwner
<1>4. StateFollowsPlace'
  BY <1>1 DEF IInv, StateFollowsPlace, StateFits
<1>5. OneCallback'
  BY <1>1 DEF IInv, OneCallback
<1>6. QuietOnShutdown'
  BY <1>1 DEF QuietOnShutdown
<1>. QED  BY <1>2, <1>3, <1>4, <1>5, <1>6 DEF LifeInv

\* The owner's jobs are all in the list, so none of them keeps its callback.
LEMMA CancelKeepsLife ==
    ASSUME IInv, NEW o \in Owners, CancelByOwner(o) \/ FreeOwner(o)
    PROVE  LifeInv'
<1>1. /\ stage = "up" /\ UNCHANGED <<stage, jobs, at, state, owner>>
      /\ \A k \in Jobs : callback'[k] = (callback[k] /\ k \notin JobsOf(o))
      /\ alive \ {o} \subseteq alive'
      /\ \A k \in Jobs : Live(k)' = Live(k)
  BY DEF CancelByOwner, FreeOwner, CancelJobs, Live, counters, fixed
<1>2. ListHoldsLiveJobs'
  BY <1>1 DEF IInv, ListHoldsLiveJobs
<1>3. NoCallbackForDeadOwner'
  BY <1>1 DEF IInv, NoCallbackForDeadOwner, ListHoldsLiveJobs, JobsOf
<1>4. StateFollowsPlace' /\ OneCallback' /\ QuietOnShutdown'
  BY <1>1 DEF IInv, StateFollowsPlace, OneCallback, QuietOnShutdown
<1>. QED  BY <1>2, <1>3, <1>4 DEF LifeInv

LEMMA FinalizeKeepsLife ==
    ASSUME IInv, Finalize
    PROVE  LifeInv'
<1>1. RangeOf(pool["normal"]) = Waiting("normal")
  BY DEF IInv, QueuesHoldJobsOnce, Holds, Pools
<1>2. /\ \A k \in Jobs : at'[k] \in {at[k], "dropped"}
      /\ \A k \in Jobs : at'[k] # at[k] => at[k] = "queued"
      /\ \A k \in Jobs : Live(k)' = Live(k)
  BY <1>1 DEF Finalize, Discard, Waiting, Live
<1>3. /\ stage = "up" /\ stage' = "normal" /\ ~InCallback
      /\ UNCHANGED <<jobs, state, owner, alive>>
      /\ \A k \in Jobs : callback'[k] = (callback[k] /\ k \notin jobs)
  BY DEF Finalize, CancelJobs, counters, fixed
<1>4. jobs = {k \in Jobs : Live(k)}
  BY <1>3 DEF IInv, ListHoldsLiveJobs
<1>5. ListHoldsLiveJobs'
  BY <1>2, <1>3, <1>4 DEF ListHoldsLiveJobs
<1>6. QuietOnShutdown'
  BY <1>2, <1>3, <1>4 DEF QuietOnShutdown, InCallback
<1>7. NoCallbackForDeadOwner' /\ StateFollowsPlace' /\ OneCallback'
  BY <1>2, <1>3, <1>4
     DEF IInv, NoCallbackForDeadOwner, StateFollowsPlace, StateFits, OneCallback
<1>. QED  BY <1>5, <1>6, <1>7 DEF LifeInv

LEMMA PoolFreedKeepsLife ==
    ASSUME IInv, NEW p \in Pools, PoolFreed(p)
    PROVE  LifeInv'
<1>1. \A q \in Pools : RangeOf(pool[q]) = Waiting(q)
  BY DEF IInv, QueuesHoldJobsOnce, Holds
<1>2. (\E q \in Pools : Discard(q)) \/ UNCHANGED at
  BY DEF PoolFreed, Pools
<1>3. /\ \A k \in Jobs : at'[k] \in {at[k], "dropped"}
      /\ \A k \in Jobs : at'[k] # at[k] => at[k] \in {"queued", "result"}
  BY <1>1, <1>2 DEF Discard, Waiting
<1>4. \A k \in Jobs : Live(k)' = Live(k)
  BY <1>3 DEF Live
<1>5. /\ stage # "up" /\ stage # "closed" /\ stage' # "up"
      /\ stage' # "closed" => jobs' = jobs
      /\ UNCHANGED <<state, callback, owner, alive>>
  BY DEF PoolFreed, Pools, fixed
<1>6. ListHoldsLiveJobs' /\ QuietOnShutdown'
  BY <1>3, <1>4, <1>5 DEF IInv, ListHoldsLiveJobs, QuietOnShutdown, InCallback
<1>7. NoCallbackForDeadOwner' /\ StateFollowsPlace' /\ OneCallback'
  BY <1>3, <1>4, <1>5
     DEF IInv, NoCallbackForDeadOwner, StateFollowsPlace, StateFits, OneCallback
<1>. QED  BY <1>6, <1>7 DEF LifeInv

LEMMA NextIInv == IInv /\ [Next]_vars => IInv'
<1>. SUFFICES ASSUME IInv, [Next]_vars PROVE IInv'
  OBVIOUS
<1>1. TypeOK' /\ QueuesHoldJobsOnce'
  BY NextTypeOK, NextQueues DEF IInv
<1>2. LifeInv'
  <2>1. CASE UNCHANGED vars
    BY <2>1 DEF vars, IInv, LifeInv, ListHoldsLiveJobs, NoCallbackForDeadOwner,
                StateFollowsPlace, StateFits, OneCallback, QuietOnShutdown,
                InCallback, Live
  <2>2. CASE Next
    BY <2>1, <2>2, NextCases, MovedKeepsLife, ReleasedKeepsLife, NewJobKeepsLife,
       CancelKeepsLife, FinalizeKeepsLife, PoolFreedKeepsLife
  <2>. QED  BY <2>1, <2>2
<1>. QED  BY <1>1, <1>2 DEF IInv, LifeInv

THEOREM Invariance == Spec => []IInv
<1>. QED  BY InitIInv, NextIInv, PTL DEF Spec

\* Cancelling by owner reaches every job that could still call back, and leaves
\* freed ones alone.
THEOREM ListIsComplete == Spec => []ListHoldsLiveJobs
<1>1. IInv => ListHoldsLiveJobs
  BY DEF IInv
<1>. QED  BY Invariance, <1>1, PTL

\* No thread pool and no idle source holds a job twice, or a freed one.
THEOREM QueuesAreExact == Spec => []QueuesHoldJobsOnce
<1>1. IInv => QueuesHoldJobsOnce
  BY DEF IInv
<1>. QED  BY Invariance, <1>1, PTL

\* The owner of a job that will call back is still there.
THEOREM OwnersAreAlive == Spec => []NoCallbackForDeadOwner
<1>1. IInv => NoCallbackForDeadOwner
  BY DEF IInv
<1>. QED  BY Invariance, <1>1, PTL

\* The assertions on job->state never fail.
THEOREM AssertionsHold == Spec => []StateFollowsPlace
<1>1. IInv => StateFollowsPlace
  BY DEF IInv
<1>. QED  BY Invariance, <1>1, PTL

\* Result callbacks do not nest.
THEOREM CallbacksAreSerial == Spec => []OneCallback
<1>1. IInv => OneCallback
  BY DEF IInv
<1>. QED  BY Invariance, <1>1, PTL

\* Once the queue is being finalized nobody is called back.
THEOREM ShutdownIsQuiet == Spec => []QuietOnShutdown
<1>1. IInv => QuietOnShutdown
  BY DEF IInv
<1>. QED  BY Invariance, <1>1, PTL

-----------------------------------------------------------------------------
(***************************************************************************)
(* JobQueue implements AsyncRequest.                                       *)
(***************************************************************************)
PhaseMap == [j \in Jobs |-> RequestPhase(j)]

\* A step that gives one job the phase ph maps to a move of that request.
LEMMA PhaseUpdate ==
    ASSUME NEW j \in Jobs, NEW ph, RequestPhase(j)' = ph,
           \A k \in Jobs \ {j} : at'[k] = at[k]
    PROVE  PhaseMap' = [PhaseMap EXCEPT ![j] = ph]
<1>1. \A k \in Jobs \ {j} : RequestPhase(k)' = RequestPhase(k)
  BY DEF RequestPhase
<1>. QED  BY <1>1 DEF PhaseMap

LEMMA PhasesSame ==
    ASSUME \A k \in Jobs : RequestPhase(k)' = RequestPhase(k)
    PROVE  PhaseMap' = PhaseMap
BY DEF PhaseMap

LEMMA RefinesInit == Init => Promise!Init
BY DEF Init, Promise!Init, RequestPhase

\* Clearing the callbacks of a set of live jobs is the abstract Cancel.
LEMMA RefinesCancel ==
    ASSUME IInv, NEW S \in SUBSET jobs, stage = "up", CancelJobs(S),
           \A k \in Jobs : RequestPhase(k)' = RequestPhase(k)
    PROVE  Promise!Next
<1>1. S \in SUBSET Jobs
  BY DEF IInv, TypeOK
<1>2. \A r \in S : PhaseMap[r] \in {"open", "serving"}
  BY <1>1 DEF IInv, ListHoldsLiveJobs, PhaseMap, RequestPhase, Live
<1>3. PhaseMap' = PhaseMap
  BY PhasesSame
<1>4. Promise!Cancel(S)
  BY <1>2, <1>3 DEF Promise!Cancel, CancelJobs, PhaseMap
<1>. QED  BY <1>1, <1>4 DEF Promise!Next

LEMMA RefinesMoved ==
    ASSUME IInv, NEW j \in Jobs, NEW place \in Places, Moved(j, place)
    PROVE  Promise!Next \/ UNCHANGED Promise!vars
<1>1. /\ \A k \in Jobs \ {j} : at'[k] = at[k]
      /\ at'[j] = place /\ callback' = callback
  BY DEF Moved, Goto, IInv, TypeOK
<1>2. CASE place = "callback"
  <2>1. PhaseMap' = [PhaseMap EXCEPT ![j] = "serving"]
    BY <1>1, <1>2, PhaseUpdate DEF RequestPhase
  <2>2. /\ callback[j] /\ \A k \in Jobs : PhaseMap[k] # "serving"
        /\ PhaseMap[j] = "open"
    BY <1>2 DEF Moved, InCallback, PhaseMap, RequestPhase, Live
  <2>3. Promise!Serve(j)
    BY <1>1, <2>1, <2>2 DEF Promise!Serve, Promise!Move, PhaseMap
  <2>. QED  BY <2>3 DEF Promise!Next
<1>3. CASE place # "callback" /\ at[j] = "callback"
  <2>1. PhaseMap' = [PhaseMap EXCEPT ![j] = "open"]
    BY <1>1, <1>3, PhaseUpdate DEF RequestPhase, Moved
  <2>2. PhaseMap[j] = "serving"
    BY <1>3 DEF PhaseMap, RequestPhase
  <2>3. Promise!Again(j)
    BY <1>1, <2>1, <2>2 DEF Promise!Again, Promise!Move, PhaseMap
  <2>. QED  BY <2>3 DEF Promise!Next
<1>4. CASE place # "callback" /\ at[j] # "callback"
  <2>1. \A k \in Jobs : RequestPhase(k)' = RequestPhase(k)
    BY <1>1, <1>4 DEF RequestPhase, Moved, Live
  <2>. QED  BY <1>1, <2>1, PhasesSame DEF Promise!vars, PhaseMap
<1>. QED  BY <1>2, <1>3, <1>4

LEMMA RefinesReleased ==
    ASSUME IInv, NEW j \in Jobs, Released(j)
    PROVE  Promise!Next
<1>1. /\ \A k \in Jobs \ {j} : at'[k] = at[k]
      /\ at'[j] = "freed" /\ callback' = callback
  BY DEF Released, Goto, IInv, TypeOK
<1>2. PhaseMap' = [PhaseMap EXCEPT ![j] = "closed"]
  BY <1>1, PhaseUpdate DEF RequestPhase
<1>3. CASE at[j] = "callback"
  <2>1. PhaseMap[j] = "serving"
    BY <1>3 DEF PhaseMap, RequestPhase
  <2>2. Promise!Close(j)
    BY <1>1, <1>2, <2>1 DEF Promise!Close, Promise!Move, PhaseMap
  <2>. QED  BY <2>2 DEF Promise!Next
<1>4. CASE at[j] # "callback"
  <2>1. PhaseMap[j] = "open" /\ ~callback[j]
    BY <1>4 DEF PhaseMap, RequestPhase, Released, Live
  <2>2. Promise!Drop(j)
    BY <1>1, <1>2, <2>1 DEF Promise!Drop, Promise!Move, PhaseMap
  <2>. QED  BY <2>2 DEF Promise!Next
<1>. QED  BY <1>3, <1>4

LEMMA RefinesNewJob ==
    ASSUME IInv, NEW j \in Jobs, NewJob(j)
    PROVE  Promise!Next
<1>1. /\ \A k \in Jobs \ {j} : at'[k] = at[k]
      /\ at[j] = "none" /\ at'[j] = "queued"
      /\ callback' = [callback EXCEPT ![j] = TRUE]
  BY DEF NewJob, Goto, IInv, TypeOK
<1>2. PhaseMap' = [PhaseMap EXCEPT ![j] = "open"] /\ PhaseMap[j] = "idle"
  BY <1>1, PhaseUpdate DEF RequestPhase, PhaseMap
<1>3. Promise!Submit(j)
  BY <1>1, <1>2 DEF Promise!Submit, Promise!Move, PhaseMap
<1>. QED  BY <1>3 DEF Promise!Next

\* Discarding the tasks of a pool does not change what a requester sees.
LEMMA DiscardKeepsPhases ==
    ASSUME IInv, NEW p \in Pools, Discard(p)
    PROVE  \A k \in Jobs : RequestPhase(k)' = RequestPhase(k)
<1>1. RangeOf(pool[p]) = Waiting(p)
  BY DEF IInv, QueuesHoldJobsOnce, Holds
<1>2. \A k \in Jobs : at'[k] = IF k \in Waiting(p) THEN "dropped" ELSE at[k]
  BY <1>1 DEF Discard
<1>3. \A k \in Waiting(p) : at[k] \in {"queued", "result"}
  BY DEF Waiting
<1>. QED  BY <1>2, <1>3 DEF RequestPhase

LEMMA RefinesNext == IInv /\ [Next]_vars => [Promise!Next]_(Promise!vars)
<1>. SUFFICES ASSUME IInv, [Next]_vars
              PROVE  Promise!Next \/ UNCHANGED Promise!vars
  OBVIOUS
<1>1. CASE UNCHANGED vars
  BY <1>1 DEF vars, Promise!vars, RequestPhase
<1>2. ASSUME NEW o \in Owners, CancelByOwner(o) \/ FreeOwner(o)
      PROVE  Promise!Next
  <2>1. JobsOf(o) \in SUBSET jobs
    BY DEF JobsOf
  <2>2. stage = "up" /\ CancelJobs(JobsOf(o)) /\ UNCHANGED at
    BY <1>2 DEF CancelByOwner, FreeOwner
  <2>3. \A k \in Jobs : RequestPhase(k)' = RequestPhase(k)
    BY <2>2 DEF RequestPhase
  <2>. QED  BY <2>1, <2>2, <2>3, RefinesCancel
<1>3. CASE Finalize
  <2>1. "normal" \in Pools
    BY DEF Pools
  <2>2. stage = "up" /\ CancelJobs(jobs) /\ Discard("normal")
    BY <1>3 DEF Finalize
  <2>. QED  BY <2>1, <2>2, DiscardKeepsPhases, RefinesCancel
<1>4. ASSUME NEW p \in Pools, PoolFreed(p)
      PROVE  UNCHANGED Promise!vars
  <2>1. /\ UNCHANGED callback
        /\ (\E q \in Pools : Discard(q)) \/ UNCHANGED at
    BY <1>4 DEF PoolFreed, Pools
  <2>2. \A k \in Jobs : RequestPhase(k)' = RequestPhase(k)
    <3>1. CASE UNCHANGED at
      BY <3>1 DEF RequestPhase
    <3>. QED  BY <2>1, <3>1, DiscardKeepsPhases
  <2>. QED  BY <2>1, <2>2, PhasesSame DEF Promise!vars, PhaseMap
<1>5. CASE Next
  BY <1>1, <1>2, <1>3, <1>4, <1>5, NextCases, RefinesNewJob, RefinesMoved,
     RefinesReleased
<1>. QED  BY <1>1, <1>5

\* Every behaviour of the job queue is one the requesters were promised.
THEOREM Refinement == Spec => KeepsPromise
<1>. QED
  BY RefinesInit, RefinesNext, Invariance, PTL DEF KeepsPromise, Spec, Promise!Spec

-----------------------------------------------------------------------------
(***************************************************************************)
(* The counters behind the progress message.                               *)
(***************************************************************************)
FeedJobs == {j \in jobs : flags[j].feed}

LEMMA FeedJobsFinite ==
    ASSUME TypeOK
    PROVE  IsFiniteSet(FeedJobs) /\ Cardinality(FeedJobs) \in Nat
<1>1. FeedJobs \in SUBSET Jobs
  BY DEF FeedJobs, TypeOK
<1>. QED  BY <1>1, FS_Subset, FS_CardinalityType, JobQueueAssumption

\* What get_count() leaves behind, whatever it is called with.
LEMMA SetCountsFits ==
    ASSUME NEW list, NEW c \in Nat, NEW m \in Nat, SetCounts(list, c, m),
           list = {} => c = 0
    PROVE  /\ currentJobCount' = c
           /\ currentJobCount' <= maxCount'
           /\ currentJobCount' = 0 /\ m = 0 => maxCount' = 0
           /\ currentJobCount' = 0 => maxCount' = 0
BY DEF SetCounts

LEMMA CountsEnlist ==
    ASSUME TypeOK, CountsMatchList, stage # "closed",
           NEW j \in Jobs, Enlist(j), UNCHANGED flags
    PROVE  CountsMatchList'
<1>. USE FeedJobsFinite DEF TypeOK
<1>1. currentJobCount = Cardinality(FeedJobs)
  BY DEF CountsMatchList, FeedJobs
<1>2. CASE j \in jobs
  BY <1>1, <1>2 DEF Enlist, counters, CountsMatchList, FeedJobs
<1>3. CASE j \notin jobs /\ flags[j].feed
  <2>1. FeedJobs' = FeedJobs \union {j} /\ j \notin FeedJobs
    BY <1>3 DEF Enlist, FeedJobs
  <2>2. Cardinality(FeedJobs') = currentJobCount + 1
    BY <1>1, <2>1, FS_AddElement
  <2>3. SetCounts(jobs', currentJobCount + 1, maxCount + 1) /\ jobs' # {}
    BY <1>3 DEF Enlist
  <2>4. /\ currentJobCount' = currentJobCount + 1
        /\ currentJobCount' <= maxCount'
        /\ currentJobCount' = 0 => maxCount' = 0
    BY <2>3, SetCountsFits
  <2>. QED  BY <2>2, <2>4 DEF CountsMatchList, FeedJobs
<1>4. CASE j \notin jobs /\ ~flags[j].feed
  <2>1. FeedJobs' = FeedJobs
    BY <1>4 DEF Enlist, FeedJobs
  <2>2. UNCHANGED <<currentJobCount, maxCount>>
    BY <1>4 DEF Enlist
  <2>. QED  BY <1>1, <2>1, <2>2 DEF CountsMatchList, FeedJobs
<1>. QED  BY <1>2, <1>3, <1>4

LEMMA CountsUnlist ==
    ASSUME TypeOK, CountsMatchList,
           NEW j \in Jobs, Unlist(j), UNCHANGED <<stage, flags>>
    PROVE  CountsMatchList'
<1>. USE FeedJobsFinite DEF TypeOK
<1>1. CASE stage = "closed" \/ j \notin jobs
  BY <1>1 DEF Unlist, counters, CountsMatchList
<1>2. CASE stage # "closed" /\ j \in jobs /\ flags[j].feed
  <2>1. currentJobCount = Cardinality(FeedJobs)
    BY <1>2 DEF CountsMatchList, FeedJobs
  <2>2. FeedJobs' = FeedJobs \ {j} /\ j \in FeedJobs
    BY <1>2 DEF Unlist, FeedJobs
  <2>3. /\ Cardinality(FeedJobs') = currentJobCount - 1
        /\ IsFiniteSet(FeedJobs')
    BY <2>1, <2>2, FS_RemoveElement
  <2>4. currentJobCount > 0 /\ currentJobCount - 1 \in Nat
    <3>1. FeedJobs # {}
      BY <2>2
    <3>. QED  BY <2>1, <3>1, FS_EmptySet
  <2>5. SetCounts(jobs', currentJobCount - 1, maxCount)
    BY <1>2, <2>4 DEF Unlist
  <2>6. jobs' = {} => currentJobCount - 1 = 0
    <3>1. jobs' = {} => FeedJobs' = {}
      BY DEF FeedJobs
    <3>. QED  BY <2>3, <3>1, FS_EmptySet
  <2>7. /\ currentJobCount' = currentJobCount - 1
        /\ currentJobCount' <= maxCount'
        /\ currentJobCount' = 0 => maxCount' = 0
    BY <2>4, <2>5, <2>6, SetCountsFits
  <2>. QED  BY <2>3, <2>7 DEF CountsMatchList, FeedJobs
<1>3. CASE stage # "closed" /\ j \in jobs /\ ~flags[j].feed
  <2>1. FeedJobs' = FeedJobs
    BY <1>3 DEF Unlist, FeedJobs
  <2>2. UNCHANGED <<currentJobCount, maxCount>>
    BY <1>3 DEF Unlist
  <2>. QED  BY <1>3, <2>1, <2>2 DEF CountsMatchList, FeedJobs
<1>. QED  BY <1>1, <1>2, <1>3

LEMMA CountsSame ==
    ASSUME CountsMatchList, stage # "closed" \/ UNCHANGED stage,
           UNCHANGED <<counters, flags>>
    PROVE  CountsMatchList'
BY DEF CountsMatchList, counters

LEMMA InitCounts == Init => CountsMatchList
<1>. SUFFICES ASSUME Init PROVE CountsMatchList
  OBVIOUS
<1>1. {j \in jobs : flags[j].feed} = {} /\ currentJobCount = 0 /\ maxCount = 0
  BY DEF Init
<1>. QED  BY <1>1, FS_EmptySet DEF CountsMatchList

LEMMA NextCounts == IInv /\ CountsMatchList /\ [Next]_vars => CountsMatchList'
<1>. SUFFICES ASSUME IInv, CountsMatchList, [Next]_vars PROVE CountsMatchList'
  OBVIOUS
<1>. TypeOK
  BY DEF IInv
<1>1. CASE UNCHANGED vars
  BY <1>1, CountsSame DEF vars, counters
<1>2. ASSUME NEW j \in Jobs, NewJob(j) \/ CallbackAgain(j)
      PROVE  CountsMatchList'
  <2>1. stage = "up"
    BY <1>2 DEF NewJob, CallbackAgain, IInv, QuietOnShutdown, InCallback
  <2>. QED  BY <1>2, <2>1, CountsEnlist DEF NewJob, CallbackAgain, fixed
<1>3. ASSUME NEW o \in Owners, CancelByOwner(o) \/ FreeOwner(o)
      PROVE  CountsMatchList'
  BY <1>3, CountsSame DEF CancelByOwner, FreeOwner, fixed
<1>4. ASSUME NEW p \in Pools, NEW outcome \in Outcomes, Execute(p, outcome)
      PROVE  CountsMatchList'
  <2>1. /\ UNCHANGED <<stage, flags>>
        /\ p \in {"normal", "priority"} /\ pool[p] # <<>>
        /\ Unlist(Head(pool[p])) \/ UNCHANGED counters
    BY <1>4 DEF Execute, Free, fixed
  <2>2. Head(pool[p]) \in Jobs
    BY <2>1, QueueHeads
  <2>. QED  BY <2>1, <2>2, CountsUnlist, CountsSame
<1>5. ASSUME NEW j \in Jobs, WorkerFinish(j) \/ AsyncDone(j)
      PROVE  CountsMatchList'
  <2>1. UNCHANGED <<stage, flags>> /\ (Unlist(j) \/ UNCHANGED counters)
    BY <1>5 DEF WorkerFinish, AsyncDone, Finish, Free, fixed
  <2>. QED  BY <2>1, CountsUnlist, CountsSame
<1>6. ASSUME NEW j \in Jobs,
             WorkerFilter(j) \/ WorkerFiltered(j) \/ ResultHand(j)
      PROVE  CountsMatchList'
  BY <1>6, CountsSame DEF WorkerFilter, WorkerFiltered, ResultHand, fixed
<1>7. CASE Dispatch
  <2>1. Head(idles) \in Jobs
    BY <1>7, QueueHeads DEF Dispatch
  <2>2. UNCHANGED <<stage, flags>> /\ (Unlist(Head(idles)) \/ UNCHANGED counters)
    BY <1>7 DEF Dispatch, Free, fixed
  <2>. QED  BY <2>1, <2>2, CountsUnlist, CountsSame
<1>8. ASSUME NEW j \in Jobs, CallbackDone(j) PROVE CountsMatchList'
  BY <1>8, CountsUnlist DEF CallbackDone, Free, fixed
<1>9. CASE Finalize
  BY <1>9, CountsSame DEF Finalize, fixed
<1>10. ASSUME NEW p \in Pools, PoolFreed(p) PROVE CountsMatchList'
  <2>1. stage # "closed" /\ UNCHANGED <<currentJobCount, maxCount, flags>>
    BY <1>10 DEF PoolFreed, Pools, fixed
  <2>2. stage' = "closed" \/ UNCHANGED jobs
    BY <1>10 DEF PoolFreed
  <2>. QED  BY <2>1, <2>2 DEF CountsMatchList
<1>11. CASE ResultTake
  BY <1>11, CountsSame DEF ResultTake, fixed
<1>. QED
  BY <1>1, <1>2, <1>3, <1>4, <1>5, <1>6, <1>7, <1>8, <1>9, <1>10, <1>11
     DEF Next, Main, Workers, Exited

\* The header bar never shows a negative or stale progress.
THEOREM CountsAreRight == Spec => []CountsMatchList
<1>. QED  BY InitCounts, NextCounts, Invariance, PTL DEF Spec

-----------------------------------------------------------------------------
(***************************************************************************)
(* Shutdown order: a pool that has been freed stays without tasks and      *)
(* without busy threads, because whatever fills it was freed before it.    *)
(***************************************************************************)
ShutdownOrder ==
    /\ stage # "up" => pool["normal"] = <<>>
    /\ stage \notin {"up", "normal"} =>
        Busy("normal") = {} /\ pool["priority"] = <<>>
    /\ stage \in {"result", "closed"} =>
        Busy("priority") = {} /\ pool["result"] = <<>>
    /\ stage = "closed" => Busy("result") = {}

\* A worker thread holding a job belongs to one of the two request pools.
LEMMA WorkersAreBusy ==
    ASSUME TypeOK, NEW j \in Jobs, at[j] \in {"worker", "filtering"}
    PROVE  j \in Busy("normal") \/ j \in Busy("priority")
BY PoolOfType DEF Busy

\* Before the queue is finalized there is nothing to show.
LEMMA OrderUp ==
    ASSUME stage' = "up"
    PROVE  ShutdownOrder'
BY DEF ShutdownOrder

\* A step that fills no pool and makes no thread busy.
LEMMA OrderShrinks ==
    ASSUME ShutdownOrder, UNCHANGED <<stage, flags>>,
           \A p \in Pools : pool[p] = <<>> => pool'[p] = <<>>,
           \A k \in Jobs :
                /\ at'[k] \in {"worker", "filtering"} =>
                        at[k] \in {"worker", "filtering"}
                /\ at'[k] = "handing" => at[k] = "handing"
    PROVE  ShutdownOrder'
BY DEF ShutdownOrder, Busy, PoolOf, Pools

LEMMA NextOrder == IInv /\ ShutdownOrder /\ [Next]_vars => ShutdownOrder'
<1>. SUFFICES ASSUME IInv, ShutdownOrder, [Next]_vars PROVE ShutdownOrder'
  OBVIOUS
<1>. TypeOK
  BY DEF IInv
<1>1. CASE UNCHANGED vars
  BY <1>1, OrderShrinks DEF vars
<1>2. ASSUME NEW j \in Jobs,
             NewJob(j) \/ AsyncDone(j) \/ CallbackDone(j) \/ CallbackAgain(j)
      PROVE  ShutdownOrder'
  BY <1>2, OrderUp
     DEF NewJob, AsyncDone, CallbackDone, CallbackAgain, IInv, QuietOnShutdown,
         InCallback
<1>3. ASSUME NEW o \in Owners, CancelByOwner(o) \/ FreeOwner(o)
      PROVE  ShutdownOrder'
  BY <1>3, OrderUp DEF CancelByOwner, FreeOwner
<1>4. CASE Dispatch
  BY <1>4, OrderUp DEF Dispatch
<1>5. ASSUME NEW p \in Pools, NEW outcome \in Outcomes, Execute(p, outcome)
      PROVE  ShutdownOrder'
  <2>. DEFINE j == Head(pool[p])
  <2>1. /\ p \in {"normal", "priority"} /\ pool[p] # <<>>
        /\ UNCHANGED <<stage, flags>>
        /\ stage \in {"up", "normal"}
        /\ stage = "normal" => p = "priority"
    BY <1>5 DEF Execute, fixed, ShutdownOrder, IInv, TypeOK, Stages
  <2>2. j \in Jobs /\ at[j] = "queued"
    BY <2>1, QueueHeads
  <2>3. stage = "normal" => pool'["normal"] = pool["normal"]
    BY <1>5, <2>1 DEF Execute, Pop, TypeOK, Pools
  <2>. QED  BY <2>1, <2>3 DEF ShutdownOrder
<1>6. ASSUME NEW j \in Jobs, WorkerFinish(j) \/ WorkerFiltered(j)
      PROVE  ShutdownOrder'
  <2>1. /\ at[j] \in {"worker", "filtering"} /\ UNCHANGED <<stage, flags>>
        /\ Goto(j, "freed") \/ Goto(j, "result")
        /\ pool' = pool \/ Push("result", j)
    BY <1>6 DEF WorkerFinish, WorkerFiltered, Finish, Free, fixed
  <2>2. stage \notin {"result", "closed"}
    BY <2>1, WorkersAreBusy DEF ShutdownOrder
  <2>3. /\ pool'["normal"] = pool["normal"]
        /\ pool'["priority"] = pool["priority"]
    BY <2>1 DEF Push, TypeOK, Pools
  <2>4. Busy("normal")' \subseteq Busy("normal")
    BY <2>1 DEF Busy, Goto, PoolOf, TypeOK
  <2>. QED  BY <2>1, <2>2, <2>3, <2>4 DEF ShutdownOrder
<1>7. ASSUME NEW j \in Jobs, WorkerFilter(j) \/ ResultHand(j)
      PROVE  ShutdownOrder'
  <2>1. /\ UNCHANGED <<stage, flags, pool>>
        /\ \A k \in Jobs :
            /\ at'[k] \in {"worker", "filtering"} =>
                    at[k] \in {"worker", "filtering"}
            /\ at'[k] = "handing" => at[k] = "handing"
    BY <1>7 DEF WorkerFilter, ResultHand, Goto, TypeOK, fixed
  <2>. QED  BY <2>1, OrderShrinks
<1>8. CASE ResultTake
  <2>1. stage \notin {"result", "closed"} /\ UNCHANGED <<stage, flags>>
    BY <1>8 DEF ResultTake, fixed
  <2>2. /\ pool'["normal"] = pool["normal"]
        /\ pool'["priority"] = pool["priority"]
    BY <1>8 DEF ResultTake, Pop, TypeOK, Pools
  <2>3. Busy("normal")' \subseteq Busy("normal")
    BY <1>8, <2>1 DEF ResultTake, Busy, Goto, PoolOf, TypeOK
  <2>. QED  BY <2>1, <2>2, <2>3 DEF ShutdownOrder
<1>9. CASE Finalize
  BY <1>9 DEF Finalize, Discard, ShutdownOrder, TypeOK, Pools
<1>10. ASSUME NEW p \in Pools, PoolFreed(p) PROVE ShutdownOrder'
  <2>1. /\ stage = p /\ Busy(p) = {} /\ stage' # "up" /\ UNCHANGED flags
        /\ (\E q \in Pools : Discard(q)) \/ UNCHANGED <<pool, at>>
    BY <1>10 DEF PoolFreed, Drained, Pools, fixed
  <2>2. \A q \in Pools : Busy(q)' \subseteq Busy(q)
    BY <2>1 DEF Discard, Busy, PoolOf
  <2>3. \A q \in Pools : pool[q] = <<>> => pool'[q] = <<>>
    BY <2>1 DEF Discard, TypeOK
  <2>4. CASE p = "normal"
    <3>1. stage' = "priority" /\ pool'["priority"] = <<>>
      BY <1>10, <2>4 DEF PoolFreed, Discard, TypeOK, Pools
    <3>. QED  BY <2>1, <2>2, <2>3, <2>4, <3>1 DEF ShutdownOrder, Pools
  <2>5. CASE p = "priority"
    <3>1. stage' = "result" /\ pool'["result"] = <<>>
      BY <1>10, <2>5 DEF PoolFreed, Discard, TypeOK, Pools
    <3>. QED  BY <2>1, <2>2, <2>3, <2>5, <3>1 DEF ShutdownOrder, Pools
  <2>6. CASE p = "result"
    <3>1. stage' = "closed"
      BY <1>10, <2>6 DEF PoolFreed
    <3>. QED  BY <2>1, <2>2, <2>3, <2>6, <3>1 DEF ShutdownOrder, Pools
  <2>. QED  BY <2>4, <2>5, <2>6 DEF Pools
<1>. QED
  BY <1>1, <1>2, <1>3, <1>4, <1>5, <1>6, <1>7, <1>8, <1>9, <1>10
     DEF Next, Main, Workers, Exited

\* When update_job_queue_finalize() returns, no thread holds a job.
THEOREM NothingRunsAfterClose == Spec => []NoThreadAfterClose
<1>1. Init => ShutdownOrder
  BY DEF Init, ShutdownOrder
<1>2. IInv /\ ShutdownOrder => NoThreadAfterClose
  <2>. SUFFICES ASSUME IInv, ShutdownOrder, stage = "closed"
                PROVE  /\ \A p \in Pools : Busy(p) = {} /\ pool[p] = <<>>
                       /\ \A j \in Jobs : at[j] # "queued"
    BY DEF NoThreadAfterClose
  <2>1. \A p \in Pools : Busy(p) = {} /\ pool[p] = <<>>
    BY DEF ShutdownOrder, Pools
  <2>2. \A p \in Pools : Waiting(p) = {}
    <3>1. RangeOf(<<>>) = {}
      BY DEF RangeOf
    <3>. QED  BY <2>1, <3>1 DEF IInv, QueuesHoldJobsOnce, Holds
  <2>3. \A j \in Jobs : at[j] # "queued"
    BY <2>2, PoolOfType DEF Waiting, IInv
  <2>. QED  BY <2>1, <2>3
<1>. QED  BY <1>1, <1>2, NextOrder, Invariance, PTL DEF Spec

-----------------------------------------------------------------------------
(***************************************************************************)
(* CommandJob.                                                             *)
(***************************************************************************)

\* The steps of update_exec_cmd() after the one that attaches a source.
StepsAfter ==
    [child_watch |-> {"io_watch", "timeout", "done"},
     io_watch    |-> {"timeout", "done"},
     timeout     |-> {"done"}]

\* The worker has attached the source.
Attached(s) == worker \in StepsAfter[s] \/ (worker = s /\ holding)

\* Nothing is attached before its turn, and before there is a child only the
\* worker has acted.
InTurn ==
    /\ child = "none" <=> worker \in {"spawn", "failed"}
    /\ child = "none" =>
        /\ sources = {} /\ ids = {}
        /\ ~fd /\ ~pid /\ ~killed /\ ~reading
        /\ job = "executing" /\ finishes = 0
    /\ \A s \in Tracked : s \in sources => Attached(s)

\* Whoever closes the descriptor also detaches the watch that reads from it:
\* while the job lives a watch has its descriptor, and before the timer may fire
\* the watch's id is known to the handlers.
WatchHasFd ==
    /\ Exists /\ "io_watch" \in sources => fd
    /\ Exists /\ child # "none" /\ ~Attached("io_watch") => fd
    /\ Exists /\ worker \in {"timeout", "done"} /\ "io_watch" \in sources
        => "io_watch" \in ids
    /\ reading => Exists /\ "io_watch" \in sources

\* The two timers follow each other, and the signal is the end of both.
OneTimer ==
    /\ "timeout" \in sources => ~killed
    /\ "reap" \in sources =>
        /\ ~killed
        /\ "timeout" \notin sources
        /\ Attached("timeout")
        /\ httpstatus \in {200, 504}
    /\ killed => Attached("timeout")

\* The job is passed on once for the child that was waited for and once for the
\* child that was killed, never more.
FinishedBy ==
    /\ child # "none" /\ ~pid => "child_watch" \notin sources
                                 /\ Attached("child_watch")
    /\ finishes = (IF killed THEN 1 ELSE 0)
                + (IF child # "none" /\ ~pid THEN 1 ELSE 0)

CommandIInv ==
    /\ CommandTypeOK
    /\ ClosedOnce
    /\ InTurn
    /\ WatchHasFd
    /\ OneTimer
    /\ FinishedBy

-----------------------------------------------------------------------------
\* There is a child from here on, its descriptor is open and no source is attached.
LEMMA SpawnStep ==
    ASSUME CommandIInv, Spawn
    PROVE  CommandIInv'
<1>. USE DEF CommandIInv, Spawn, setup, process, output, Tracked
<1>1. ClosedOnce'
  BY DEF ClosedOnce, Exists, WatchHasFd, InTurn
<1>2. InTurn'
  BY DEF InTurn, Attached
<1>3. WatchHasFd'
  BY DEF WatchHasFd, Exists, Attached, InTurn, StepsAfter
<1>4. OneTimer'
  BY DEF OneTimer, Attached, InTurn, StepsAfter, Exists
<1>5. FinishedBy'
  BY DEF FinishedBy, Attached, InTurn, StepsAfter, Exists
<1>6. CommandTypeOK'
  <2>1. closes' \in 0..2 /\ finishes' \in 0..2
    BY <1>1, <1>5 DEF ClosedOnce, FinishedBy
  <2>2. written' \in 0..MaxWrites /\ received' \in 0..written'
    BY CommandJobAssumption DEF CommandTypeOK, Sources
  <2>3. worker' \in {"spawn", "done", "failed"} \union Tracked
    BY DEF CommandTypeOK, Sources
  <2>4. httpstatus' \in {0, 200, 404, 500, 504}
    BY DEF CommandTypeOK, Sources
  <2>5. pid' \in BOOLEAN /\ fd' \in BOOLEAN /\ reading' \in BOOLEAN
    <3>1. CASE worker' = "failed"
      BY <3>1 DEF CommandTypeOK
    <3>2. CASE worker' = "child_watch"
      BY <3>2 DEF CommandTypeOK
    <3>. QED  BY <3>1, <3>2
  <2>. QED  BY <2>1, <2>2, <2>3, <2>4, <2>5 DEF CommandTypeOK
<1>. QED  BY <1>1, <1>2, <1>3, <1>4, <1>5, <1>6

\* An attached source is new, and the descriptor it needs is open.
LEMMA AttachStep ==
    ASSUME CommandIInv, NEW s \in Tracked, Attach(s)
    PROVE  CommandIInv'
<1>. USE DEF CommandIInv, Attach, setup, process, output, Tracked
<1>1. ClosedOnce'
  BY DEF ClosedOnce, Exists
<1>2. InTurn'
  BY DEF InTurn, Attached
<1>3. WatchHasFd'
  BY DEF WatchHasFd, Exists, Attached, InTurn, StepsAfter
<1>4. OneTimer'
  BY DEF OneTimer, Attached, InTurn, StepsAfter, Exists
<1>5. FinishedBy'
  BY DEF FinishedBy, Attached, InTurn, StepsAfter, Exists
<1>6. CommandTypeOK'
  BY <1>1, <1>5, CommandJobAssumption DEF ClosedOnce, FinishedBy, CommandTypeOK,
     Sources
<1>. QED  BY <1>1, <1>2, <1>3, <1>4, <1>5, <1>6

\* A stored id is the one of the source attached last.
LEMMA StoreIdStep ==
    ASSUME CommandIInv, NEW s \in Tracked, StoreId(s)
    PROVE  CommandIInv'
<1>. USE DEF CommandIInv, StoreId, AfterStore, setup, process, output, Tracked
<1>1. ClosedOnce'
  BY DEF ClosedOnce, Exists
<1>2. InTurn'
  BY DEF InTurn, Attached, StepsAfter
<1>3. WatchHasFd'
  BY DEF WatchHasFd, Exists, Attached, InTurn, StepsAfter
<1>4. OneTimer'
  BY DEF OneTimer, Attached, InTurn, StepsAfter, Exists
<1>5. FinishedBy'
  BY DEF FinishedBy, Attached, InTurn, StepsAfter, Exists
<1>6. CommandTypeOK'
  <2>1. closes' \in 0..2 /\ finishes' \in 0..2
    BY <1>1, <1>5 DEF ClosedOnce, FinishedBy
  <2>2. written' \in 0..MaxWrites /\ received' \in 0..written'
    BY CommandJobAssumption DEF CommandTypeOK, Sources
  <2>3. worker' \in {"spawn", "done", "failed"} \union Tracked
    BY DEF CommandTypeOK, Sources
  <2>4. sources' \subseteq Sources /\ ids' \subseteq Tracked
    BY DEF CommandTypeOK, Sources
  <2>5. httpstatus' \in {0, 200, 404, 500, 504}
    BY DEF CommandTypeOK, Sources
  <2>6. pid' \in BOOLEAN /\ fd' \in BOOLEAN /\ reading' \in BOOLEAN
    BY DEF CommandTypeOK, Sources
  <2>7. killed' \in BOOLEAN /\ job' \in {"executing", "finished", "freed"}
    BY DEF CommandTypeOK, Sources
  <2>. QED  BY <2>1, <2>2, <2>3, <2>4, <2>5, <2>6, <2>7, ZenonT(60) DEF CommandTypeOK
<1>. QED  BY <1>1, <1>2, <1>3, <1>4, <1>5, <1>6

\* The child's own steps touch the output and the exit status only.
LEMMA ChildWritesStep ==
    ASSUME CommandIInv, ChildWrites
    PROVE  CommandIInv'
<1>. USE DEF CommandIInv, ChildWrites, setup, process, output, Tracked
<1>1. ClosedOnce'
  BY DEF ClosedOnce, Exists
<1>2. InTurn'
  BY DEF InTurn, Attached
<1>3. WatchHasFd'
  BY DEF WatchHasFd, Exists, Attached
<1>4. OneTimer'
  BY DEF OneTimer, Attached
<1>5. FinishedBy'
  BY DEF FinishedBy, Attached
<1>6. CommandTypeOK'
  BY <1>1, <1>5, CommandJobAssumption DEF ClosedOnce, FinishedBy, CommandTypeOK,
     Sources
<1>. QED  BY <1>1, <1>2, <1>3, <1>4, <1>5, <1>6

LEMMA ChildClosesStep ==
    ASSUME CommandIInv, ChildCloses
    PROVE  CommandIInv'
<1>. USE DEF CommandIInv, ChildCloses, setup, process, output, Tracked
<1>1. ClosedOnce'
  BY DEF ClosedOnce, Exists
<1>2. InTurn'
  BY DEF InTurn, Attached
<1>3. WatchHasFd'
  BY DEF WatchHasFd, Exists, Attached
<1>4. OneTimer'
  BY DEF OneTimer, Attached
<1>5. FinishedBy'
  BY DEF FinishedBy, Attached
<1>6. CommandTypeOK'
  BY <1>1, <1>5, CommandJobAssumption DEF ClosedOnce, FinishedBy, CommandTypeOK,
     Sources
<1>. QED  BY <1>1, <1>2, <1>3, <1>4, <1>5, <1>6

LEMMA ChildExitsStep ==
    ASSUME CommandIInv, NEW how \in {"ok", "bad"}, ChildExits(how)
    PROVE  CommandIInv'
<1>. USE DEF CommandIInv, ChildExits, setup, process, output, Tracked
<1>1. ClosedOnce'
  BY DEF ClosedOnce, Exists
<1>2. InTurn'
  BY DEF InTurn, Attached
<1>3. WatchHasFd'
  BY DEF WatchHasFd, Exists, Attached
<1>4. OneTimer'
  BY DEF OneTimer, Attached
<1>5. FinishedBy'
  BY DEF FinishedBy, Attached
<1>6. CommandTypeOK'
  BY <1>1, <1>5, CommandJobAssumption DEF ClosedOnce, FinishedBy, CommandTypeOK,
     Sources
<1>. QED  BY <1>1, <1>2, <1>3, <1>4, <1>5, <1>6

\* The pid is cleared here and nowhere else, so the job is passed on once for it.
LEMMA ChildWatchStep ==
    ASSUME CommandIInv, ChildWatch
    PROVE  CommandIInv'
<1>. USE DEF CommandIInv, ChildWatch, Ready, Finished, Removes, setup, process,
   output, Tracked
<1>1. ClosedOnce'
  BY DEF ClosedOnce, Exists
<1>2. InTurn'
  BY DEF InTurn, Attached
<1>3. WatchHasFd'
  BY DEF WatchHasFd, Exists, Attached
<1>4. OneTimer'
  BY DEF OneTimer, Attached, ExitStatus
<1>5. FinishedBy'
  BY DEF FinishedBy, Attached, InTurn, StepsAfter, Exists
<1>6. CommandTypeOK'
  <2>1. closes' \in 0..2 /\ finishes' \in 0..2
    BY <1>1, <1>5 DEF ClosedOnce, FinishedBy
  <2>2. written' \in 0..MaxWrites /\ received' \in 0..written'
    BY CommandJobAssumption DEF CommandTypeOK, Sources
  <2>3. worker' \in {"spawn", "done", "failed"} \union Tracked
    BY DEF CommandTypeOK, Sources
  <2>4. sources' \subseteq Sources /\ ids' \subseteq Tracked
    <3>1. CASE cancelled
      BY <3>1, ZenonT(60) DEF CommandTypeOK, Sources
    <3>2. CASE ~cancelled
      BY <3>2, ZenonT(60) DEF CommandTypeOK, Sources
    <3>. QED  BY <3>1, <3>2
  <2>5. httpstatus' \in {0, 200, 404, 500, 504}
    BY DEF CommandTypeOK, Sources, ExitStatus
  <2>6. pid' \in BOOLEAN /\ fd' \in BOOLEAN /\ reading' \in BOOLEAN
    BY DEF CommandTypeOK, Sources
  <2>7. killed' \in BOOLEAN /\ job' \in {"executing", "finished", "freed"}
    BY DEF CommandTypeOK, Sources
  <2>. QED  BY <2>1, <2>2, <2>3, <2>4, <2>5, <2>6, <2>7 DEF CommandTypeOK
<1>. QED  BY <1>1, <1>2, <1>3, <1>4, <1>5, <1>6

\* The loop that reads the output keeps its watch.
LEMMA OutWatchReadStep ==
    ASSUME CommandIInv, OutWatchRead
    PROVE  CommandIInv'
<1>. USE DEF CommandIInv, OutWatchRead, Ready, setup, process, output, Tracked
<1>1. ClosedOnce'
  BY DEF ClosedOnce, Exists
<1>2. InTurn'
  BY DEF InTurn, Attached
<1>3. WatchHasFd'
  BY DEF WatchHasFd, Exists, Attached
<1>4. OneTimer'
  BY DEF OneTimer, Attached
<1>5. FinishedBy'
  BY DEF FinishedBy, Attached
<1>6. CommandTypeOK'
  BY <1>1, <1>5, CommandJobAssumption DEF ClosedOnce, FinishedBy, CommandTypeOK,
     Sources
<1>. QED  BY <1>1, <1>2, <1>3, <1>4, <1>5, <1>6

LEMMA OutWatchEndStep ==
    ASSUME CommandIInv, OutWatchEnd
    PROVE  CommandIInv'
<1>. USE DEF CommandIInv, OutWatchEnd, setup, process, output, Tracked
<1>1. ClosedOnce'
  BY DEF ClosedOnce, Exists
<1>2. InTurn'
  BY DEF InTurn, Attached
<1>3. WatchHasFd'
  BY DEF WatchHasFd, Exists, Attached
<1>4. OneTimer'
  BY DEF OneTimer, Attached
<1>5. FinishedBy'
  BY DEF FinishedBy, Attached
<1>6. CommandTypeOK'
  <2>1. closes' \in 0..2 /\ finishes' \in 0..2
    BY <1>1, <1>5 DEF ClosedOnce, FinishedBy
  <2>2. written' \in 0..MaxWrites /\ received' \in 0..written'
    BY CommandJobAssumption DEF CommandTypeOK, Sources
  <2>3. pid' \in BOOLEAN /\ fd' \in BOOLEAN /\ reading' \in BOOLEAN
    BY ZenonT(60) DEF CommandTypeOK, Sources
  <2>. QED  BY <2>1, <2>2, <2>3 DEF CommandTypeOK
<1>. QED  BY <1>1, <1>2, <1>3, <1>4, <1>5, <1>6

\* The watch that is dispatched has its descriptor: it is closed once.
LEMMA OutWatchErrorStep ==
    ASSUME CommandIInv, OutWatchError
    PROVE  CommandIInv'
<1>. USE DEF CommandIInv, OutWatchError, CloseOutput, setup, process, output, Tracked
<1>1. ClosedOnce'
  BY DEF ClosedOnce, Exists, WatchHasFd, InTurn
<1>2. InTurn'
  BY DEF InTurn, Attached
<1>3. WatchHasFd'
  BY DEF WatchHasFd, Exists, Attached, InTurn, StepsAfter
<1>4. OneTimer'
  BY DEF OneTimer, Attached
<1>5. FinishedBy'
  BY DEF FinishedBy, Attached
<1>6. CommandTypeOK'
  <2>1. closes' \in 0..2 /\ finishes' \in 0..2
    BY <1>1, <1>5 DEF ClosedOnce, FinishedBy
  <2>2. written' \in 0..MaxWrites /\ received' \in 0..written'
    BY CommandJobAssumption DEF CommandTypeOK, Sources
  <2>3. sources' \subseteq Sources /\ ids' \subseteq Tracked
    BY DEF CommandTypeOK, Sources
  <2>4. pid' \in BOOLEAN /\ fd' \in BOOLEAN /\ reading' \in BOOLEAN
    BY DEF CommandTypeOK, Sources
  <2>. QED  BY <2>1, <2>2, <2>3, <2>4 DEF CommandTypeOK
<1>. QED  BY <1>1, <1>2, <1>3, <1>4, <1>5, <1>6

LEMMA OutWatchHupStep ==
    ASSUME CommandIInv, OutWatchHup
    PROVE  CommandIInv'
<1>. USE DEF CommandIInv, OutWatchHup, Ready, CloseOutput, setup, process, output,
   Tracked
<1>1. ClosedOnce'
  BY DEF ClosedOnce, Exists, WatchHasFd, InTurn
<1>2. InTurn'
  BY DEF InTurn, Attached
<1>3. WatchHasFd'
  BY DEF WatchHasFd, Exists, Attached, InTurn, StepsAfter
<1>4. OneTimer'
  BY DEF OneTimer, Attached
<1>5. FinishedBy'
  BY DEF FinishedBy, Attached
<1>6. CommandTypeOK'
  <2>1. closes' \in 0..2 /\ finishes' \in 0..2
    BY <1>1, <1>5 DEF ClosedOnce, FinishedBy
  <2>2. written' \in 0..MaxWrites /\ received' \in 0..written'
    BY CommandJobAssumption DEF CommandTypeOK, Sources
  <2>3. sources' \subseteq Sources /\ ids' \subseteq Tracked
    BY DEF CommandTypeOK, Sources
  <2>4. pid' \in BOOLEAN /\ fd' \in BOOLEAN /\ reading' \in BOOLEAN
    BY DEF CommandTypeOK, Sources
  <2>. QED  BY <2>1, <2>2, <2>3, <2>4 DEF CommandTypeOK
<1>. QED  BY <1>1, <1>2, <1>3, <1>4, <1>5, <1>6

\* The timer closes the descriptor only if nobody has, and detaches the watch.
LEMMA TimeoutStep ==
    ASSUME CommandIInv, Timeout
    PROVE  CommandIInv'
<1>. USE DEF CommandIInv, Timeout, Ready, TimeoutRemoves, AfterTimeout,
   FdAfterTimeout, setup, process, output, Tracked
<1>1. ClosedOnce'
  BY DEF ClosedOnce, Exists, WatchHasFd, InTurn
<1>2. InTurn'
  BY DEF InTurn, Attached
<1>3. WatchHasFd'
  BY DEF WatchHasFd, Exists, Attached, InTurn, StepsAfter
<1>4. OneTimer'
  BY DEF OneTimer, Attached, InTurn, StepsAfter, Exists
<1>5. FinishedBy'
  BY DEF FinishedBy, Attached
<1>6. CommandTypeOK'
  <2>1. closes' \in 0..2 /\ finishes' \in 0..2
    BY <1>1, <1>5 DEF ClosedOnce, FinishedBy
  <2>2. written' \in 0..MaxWrites /\ received' \in 0..written'
    BY CommandJobAssumption DEF CommandTypeOK, Sources
  <2>3. sources' \subseteq Sources /\ ids' \subseteq Tracked
    BY DEF CommandTypeOK, Sources
  <2>4. httpstatus' \in {0, 200, 404, 500, 504}
    BY DEF CommandTypeOK, Sources
  <2>5. pid' \in BOOLEAN /\ fd' \in BOOLEAN /\ reading' \in BOOLEAN
    BY DEF CommandTypeOK, Sources
  <2>. QED  BY <2>1, <2>2, <2>3, <2>4, <2>5 DEF CommandTypeOK
<1>. QED  BY <1>1, <1>2, <1>3, <1>4, <1>5, <1>6

\* The signal is sent once, for a child that was not waited for.
LEMMA ReapStep ==
    ASSUME CommandIInv, Reap
    PROVE  CommandIInv'
<1>. USE DEF CommandIInv, Reap, Ready, Finished, Removes, setup, process, output,
   Tracked
<1>1. ClosedOnce'
  BY DEF ClosedOnce, Exists, WatchHasFd, InTurn
<1>2. InTurn'
  BY DEF InTurn, Attached
<1>3. WatchHasFd'
  BY DEF WatchHasFd, Exists, Attached
<1>4. OneTimer'
  BY DEF OneTimer, Attached
<1>5. FinishedBy'
  BY DEF FinishedBy, Attached, InTurn, StepsAfter, Exists, OneTimer, CommandTypeOK
<1>6. CommandTypeOK'
  <2>1. closes' \in 0..2 /\ finishes' \in 0..2
    BY <1>1, <1>5 DEF ClosedOnce, FinishedBy
  <2>2. written' \in 0..MaxWrites /\ received' \in 0..written'
    BY CommandJobAssumption DEF CommandTypeOK, Sources
  <2>3. sources' \subseteq Sources /\ ids' \subseteq Tracked
    BY ZenonT(60) DEF CommandTypeOK, Sources
  <2>4. httpstatus' \in {0, 200, 404, 500, 504}
    BY DEF CommandTypeOK, Sources
  <2>5. pid' \in BOOLEAN /\ fd' \in BOOLEAN /\ reading' \in BOOLEAN
    BY ZenonT(60) DEF CommandTypeOK, Sources
  <2>6. killed' \in BOOLEAN /\ job' \in {"executing", "finished", "freed"}
    BY ZenonT(60) DEF CommandTypeOK, Sources
  <2>. QED  BY <2>1, <2>2, <2>3, <2>4, <2>5, <2>6 DEF CommandTypeOK
<1>. QED  BY <1>1, <1>2, <1>3, <1>4, <1>5, <1>6

LEMMA CancelStep ==
    ASSUME CommandIInv, Cancel
    PROVE  CommandIInv'
<1>. USE DEF CommandIInv, Cancel, setup, process, output, Tracked
<1>1. ClosedOnce'
  BY DEF ClosedOnce, Exists
<1>2. InTurn'
  BY DEF InTurn, Attached
<1>3. WatchHasFd'
  BY DEF WatchHasFd, Exists, Attached
<1>4. OneTimer'
  BY DEF OneTimer, Attached
<1>5. FinishedBy'
  BY DEF FinishedBy, Attached
<1>6. CommandTypeOK'
  BY <1>1, <1>5, CommandJobAssumption DEF ClosedOnce, FinishedBy, CommandTypeOK,
     Sources
<1>. QED  BY <1>1, <1>2, <1>3, <1>4, <1>5, <1>6

\* The freed job takes the descriptor with it.
LEMMA DeliverStep ==
    ASSUME CommandIInv, Deliver
    PROVE  CommandIInv'
<1>. USE DEF CommandIInv, Deliver, Removes, setup, process, output, Tracked
<1>1. ClosedOnce'
  BY DEF ClosedOnce, Exists, WatchHasFd, InTurn
<1>2. InTurn'
  BY DEF InTurn, Attached
<1>3. WatchHasFd'
  BY DEF WatchHasFd, Exists, Attached
<1>4. OneTimer'
  BY DEF OneTimer, Attached
<1>5. FinishedBy'
  BY DEF FinishedBy, Attached
<1>6. CommandTypeOK'
  <2>1. closes' \in 0..2 /\ finishes' \in 0..2
    BY <1>1, <1>5 DEF ClosedOnce, FinishedBy
  <2>2. written' \in 0..MaxWrites /\ received' \in 0..written'
    BY CommandJobAssumption DEF CommandTypeOK, Sources
  <2>3. sources' \subseteq Sources /\ ids' \subseteq Tracked
    BY DEF CommandTypeOK, Sources
  <2>4. pid' \in BOOLEAN /\ fd' \in BOOLEAN /\ reading' \in BOOLEAN
    BY DEF CommandTypeOK, Sources
  <2>5. killed' \in BOOLEAN /\ job' \in {"executing", "finished", "freed"}
    BY DEF CommandTypeOK, Sources
  <2>. QED  BY <2>1, <2>2, <2>3, <2>4, <2>5 DEF CommandTypeOK
<1>. QED  BY <1>1, <1>2, <1>3, <1>4, <1>5, <1>6

-----------------------------------------------------------------------------
LEMMA CommandInitIInv == CommandInit => CommandIInv
<1>. SUFFICES ASSUME CommandInit
              PROVE  CommandIInv
  OBVIOUS
<1>1. CommandTypeOK
  <2>1. written \in 0..MaxWrites /\ received \in 0..written
    BY CommandJobAssumption DEF CommandInit
  <2>2. ids \subseteq Tracked /\ sources \subseteq Sources
    BY DEF CommandInit
  <2>3. closes \in 0..2 /\ finishes \in 0..2
    BY DEF CommandInit
  <2>4. /\ holding \in BOOLEAN /\ killed \in BOOLEAN /\ reading \in BOOLEAN
        /\ pid \in BOOLEAN /\ fd \in BOOLEAN /\ cancelled \in BOOLEAN
    BY DEF CommandInit
  <2>. QED  BY <2>1, <2>2, <2>3, <2>4 DEF CommandInit, CommandTypeOK
<1>2. ClosedOnce
  BY DEF CommandInit, ClosedOnce, Exists
<1>3. InTurn /\ WatchHasFd
  BY DEF CommandInit, InTurn, WatchHasFd
<1>4. OneTimer /\ FinishedBy
  BY DEF CommandInit, OneTimer, FinishedBy
<1>. QED  BY <1>1, <1>2, <1>3, <1>4 DEF CommandIInv

LEMMA CommandNextIInv == CommandIInv /\ [CommandNext]_commandVars => CommandIInv'
<1>. SUFFICES ASSUME CommandIInv, [CommandNext]_commandVars
              PROVE  CommandIInv'
  OBVIOUS
<1>1. CASE Spawn
  BY <1>1, SpawnStep
<1>2. ASSUME NEW s \in Tracked, Attach(s) \/ StoreId(s)
      PROVE  CommandIInv'
  BY <1>2, AttachStep, StoreIdStep
<1>3. CASE ChildWrites
  BY <1>3, ChildWritesStep
<1>4. CASE ChildCloses
  BY <1>4, ChildClosesStep
<1>5. ASSUME NEW how \in {"ok", "bad"}, ChildExits(how)
      PROVE  CommandIInv'
  BY <1>5, ChildExitsStep
<1>6. CASE ChildWatch
  BY <1>6, ChildWatchStep
<1>7. CASE OutWatchRead
  BY <1>7, OutWatchReadStep
<1>8. CASE OutWatchEnd
  BY <1>8, OutWatchEndStep
<1>9. CASE OutWatchError
  BY <1>9, OutWatchErrorStep
<1>10. CASE OutWatchHup
  BY <1>10, OutWatchHupStep
<1>11. CASE Timeout
  BY <1>11, TimeoutStep
<1>12. CASE Reap
  BY <1>12, ReapStep
<1>13. CASE Cancel
  BY <1>13, CancelStep
<1>14. CASE Deliver
  BY <1>14, DeliverStep
<1>15. CASE UNCHANGED commandVars
  BY <1>15 DEF commandVars, setup, process, output, CommandIInv, CommandTypeOK, ClosedOnce, InTurn,
               WatchHasFd, OneTimer, FinishedBy, Exists, Attached
<1>. QED
  BY <1>1, <1>2, <1>3, <1>4, <1>5, <1>6, <1>7, <1>8, <1>9, <1>10, <1>11, <1>12,
     <1>13, <1>14, <1>15 DEF CommandNext

\* The invariant holds in every behaviour.
THEOREM CommandInvariant == CommandSpec => []CommandIInv
BY CommandInitIInv, CommandNextIInv, PTL DEF CommandSpec

\* Every variable keeps its type: in particular the job is passed on at most
\* twice and the descriptor closed at most twice, whatever the sources do.
THEOREM CommandTypeCorrect == CommandSpec => []CommandTypeOK
BY CommandInvariant, PTL DEF CommandIInv

\* close() is called exactly once for the output of every child, whichever of the
\* four callbacks, the cancelled job and the freed job gets to it first.
THEOREM DescriptorClosedOnce == CommandSpec => []ClosedOnce
BY CommandInvariant, PTL DEF CommandIInv

\* A job that waits for the reap timer has the status of a timeout or of success.
THEOREM TimeoutReported == CommandSpec => []TimeoutIsReported
<1>1. CommandIInv => TimeoutIsReported
  BY DEF CommandIInv, OneTimer, TimeoutIsReported
<1>. QED  BY <1>1, CommandInvariant, PTL

\* The loop that reads the output, which may block for as long as the child likes,
\* has an open descriptor all the time: neither a timer nor a cancelled job closes
\* it under the loop.
THEOREM ReadsOpenDescriptor == CommandSpec => [](reading => fd)
<1>1. CommandIInv => (reading => fd)
  BY DEF CommandIInv, WatchHasFd
<1>. QED  BY <1>1, CommandInvariant, PTL
=============================================================================
