------------------------------ MODULE JobQueue ------------------------------
(***************************************************************************)
(* The update job queue: src/update_job_queue.c and the life of an         *)
(* UpdateJob in src/update_job.c.                                          *)
(*                                                                         *)
(* Three kinds of threads share a job.  The GLib main loop creates jobs,   *)
(* cancels them by owner, receives the answers of asynchronous downloads   *)
(* and runs the result callbacks.  Worker threads of two pools (normal and *)
(* high priority) execute requests.  Worker threads of the result pool     *)
(* hand processed jobs back to the main loop as idle sources.              *)
(*                                                                         *)
(* A cancelled job is not removed: its callback pointer is cleared, and    *)
(* whoever looks at the pointer next drops the job.  Everything rests on   *)
(* where that look happens.                                                *)
(*                                                                         *)
(* Abstractions.  The list queue->jobs is a set (its order shows only in a *)
(* debug dump); one operation on it and its counters is one step (module   *)
(* JobListRace takes that apart); the request, its URL and its result are  *)
(* left out: how a request is executed is a choice made by the worker.     *)
(***************************************************************************)
EXTENDS Integers, Sequences, FiniteSets

CONSTANTS
    Jobs,           \* identities of UpdateJob objects
    Owners,         \* subscriptions, nodes, node sources
    Flags,          \* the request flags in use: [feed, prio] records
    MaxThreads,     \* setting max-update-threads
    MaxRounds       \* bound on how often a flow is continued

ASSUME JobQueueAssumption ==
    /\ IsFiniteSet(Jobs)
    /\ Flags \subseteq [feed : BOOLEAN, prio : BOOLEAN]
    /\ MaxThreads \in Nat \ {0}
    /\ MaxRounds \in Nat

VARIABLES
    stage,              \* of the queue's life: see Stages
    jobs,               \* queue->jobs
    currentJobCount,
    maxCount,
    pool,               \* unprocessed tasks of the three thread pools
    idles,              \* pending update_job_process_result_idle_cb sources
    at,                 \* who holds the job: see Places
    state,              \* job->state
    callback,           \* job->callback # NULL
    owner,
    flags,
    round,              \* continuations of the flow so far
    alive               \* owners whose memory is valid

counters == <<jobs, currentJobCount, maxCount>>
fixed == <<owner, flags>>
vars == <<stage, jobs, currentJobCount, maxCount, pool, idles, at, state,
          callback, owner, flags, round, alive>>

Pools == {"normal", "priority", "result"}

\* "up", then which thread pool update_job_queue_finalize() is waiting for,
\* then "closed".
Stages == {"up", "normal", "priority", "result", "closed"}

Places == {
    "none",         \* not created yet
    "queued",       \* in the normal or priority pool
    "worker",       \* being loaded by a worker thread
    "filtering",    \* a worker thread runs the post filter
    "async",        \* libsoup or a child process has it, no thread does
    "result",       \* in the result pool
    "handing",      \* a result pool thread is about to add the idle source
    "idle",         \* in the idle source
    "callback",     \* the main loop is inside its result callback
    "lost",         \* execution returned without finishing it
    "dropped",      \* discarded with its pool on shutdown
    "freed"}

States == {"PENDING", "FILTERING", "FINISHED", "FAILED"}

Live(j) == at[j] \notin {"none", "freed"}

RangeOf(s) == {s[i] : i \in 1..Len(s)}

PoolOf(j) == IF flags[j].prio THEN "priority" ELSE "normal"

\* The threads of a pool that are busy with a job.
Busy(p) ==
    IF p = "result"
    THEN {j \in Jobs : at[j] = "handing"}
    ELSE {j \in Jobs : at[j] \in {"worker", "filtering"} /\ PoolOf(j) = p}

\* The main loop runs one thing at a time.
InCallback == \E j \in Jobs : at[j] = "callback"

TypeOK ==
    /\ stage \in Stages
    /\ jobs \subseteq Jobs
    /\ currentJobCount \in Nat
    /\ maxCount \in Nat
    /\ pool \in [Pools -> Seq(Jobs)]
    /\ idles \in Seq(Jobs)
    /\ at \in [Jobs -> Places]
    /\ state \in [Jobs -> States]
    /\ callback \in [Jobs -> BOOLEAN]
    /\ owner \in [Jobs -> Owners]
    /\ flags \in [Jobs -> [feed : BOOLEAN, prio : BOOLEAN]]
    /\ round \in [Jobs -> 0..MaxRounds]
    /\ alive \subseteq Owners

Init ==
    /\ stage = "up"
    /\ jobs = {}
    /\ currentJobCount = 0
    /\ maxCount = 0
    /\ pool = [p \in Pools |-> <<>>]
    /\ idles = <<>>
    /\ at = [j \in Jobs |-> "none"]
    /\ state = [j \in Jobs |-> "PENDING"]
    /\ callback = [j \in Jobs |-> FALSE]
    /\ owner \in [Jobs -> Owners]
    /\ flags \in [Jobs -> Flags]
    /\ round = [j \in Jobs |-> 0]
    /\ alive = Owners

-----------------------------------------------------------------------------
(***************************************************************************)
(* The list and its counters.  Every change of the number of feed jobs     *)
(* emits "update-running", whose handler in the shell calls                *)
(* update_job_queue_get_count(), and that call corrects the counters.      *)
(***************************************************************************)
SetCounts(list, current, max) ==
    LET count == IF list = {} THEN 0 ELSE current
    IN  /\ currentJobCount' = count
        /\ maxCount' = IF count > max THEN count ELSE IF count = 0 THEN 0 ELSE max

\* The list part of update_job_queue_add(): a continued flow is in the list
\* already and is not counted again.
Enlist(j) ==
    IF j \in jobs
    THEN UNCHANGED counters
    ELSE /\ jobs' = jobs \union {j}
         /\ IF flags[j].feed
            THEN SetCounts(jobs', currentJobCount + 1, maxCount + 1)
            ELSE UNCHANGED <<currentJobCount, maxCount>>

\* Mutant of Unlist: counts favicons and logins too, and below zero.
UnlistUnguarded(j) ==
    /\ jobs' = jobs \ {j}
    /\ SetCounts(jobs', currentJobCount - 1, maxCount)

Unlist(j) ==
    IF stage = "closed" \/ j \notin jobs
    THEN UNCHANGED counters
    ELSE /\ jobs' = jobs \ {j}
         /\ IF flags[j].feed
            THEN SetCounts(jobs', IF currentJobCount > 0
                                  THEN currentJobCount - 1
                                  ELSE currentJobCount, maxCount)
            ELSE UNCHANGED <<currentJobCount, maxCount>>

Push(p, j) == pool' = [pool EXCEPT ![p] = Append(@, j)]

Pop(p) == pool' = [pool EXCEPT ![p] = Tail(@)]

Goto(j, place) == at' = [at EXCEPT ![j] = place]

SetState(j, s) == state' = [state EXCEPT ![j] = s]

\* g_object_unref() of the only reference, and update_job_finalize().
Free(j) == Goto(j, "freed") /\ Unlist(j)

-----------------------------------------------------------------------------
(***************************************************************************)
(* Main loop: requesting and cancelling.  Both also happen from inside a   *)
(* result callback (feed auto discovery cancels and requests again).       *)
(***************************************************************************)

\* update_job_new(), update_job_new_flow().  A flow has no request at first:
\* update_job_new_flow() calls job->callback at once to prepare one
\* (update_job.c:544-546), within this step.  That call neither cancels nor creates
\* jobs, it only sets job->request, which the queue does not look at.
NewJob(j) ==
    /\ stage = "up"
    /\ at[j] = "none"
    /\ owner[j] \in alive
    /\ callback' = [callback EXCEPT ![j] = TRUE]
    /\ SetState(j, "PENDING")
    /\ Enlist(j)
    /\ Push(PoolOf(j), j)
    /\ Goto(j, "queued")
    /\ UNCHANGED <<stage, idles, fixed, round, alive>>

CancelJobs(S) == callback' = [j \in Jobs |-> callback[j] /\ j \notin S]

\* Mutant of JobsOf: "cancel all pending requests", taken literally.
PendingJobsOf(o) == {j \in jobs : owner[j] = o /\ state[j] = "PENDING"}

JobsOf(o) == {j \in jobs : owner[j] = o}

CancelByOwner(o) ==
    /\ stage = "up"
    /\ CancelJobs(JobsOf(o))
    /\ UNCHANGED <<stage, counters, pool, idles, at, state, fixed, round, alive>>

\* subscription_free(), node_finalize(), node_source_free(): the owner cancels
\* its requests and its memory goes away.
FreeOwner(o) ==
    /\ stage = "up"
    /\ o \in alive
    /\ CancelJobs(JobsOf(o))
    /\ alive' = alive \ {o}
    /\ UNCHANGED <<stage, counters, pool, idles, at, state, fixed, round>>

-----------------------------------------------------------------------------
(***************************************************************************)
(* Workers of the normal and the priority pool.                            *)
(***************************************************************************)

\* How update_job_execute() leaves the job: still loading in this thread (local
\* files, gopher), handed to libsoup or a child process, failed at once
\* (refused command, invalid URI, rate limit), or forgotten (the command could
\* not be spawned; the gopher server was not reached).
Outcomes == {"worker", "async", "failed", "lost"}

\* A free thread takes the oldest task: update_job_execute().  A cancelled job
\* is freed right here, in the worker thread.
Execute(p, outcome) ==
    LET j == Head(pool[p]) IN
    /\ p \in {"normal", "priority"}
    /\ stage \notin {p, "result", "closed"}
    /\ pool[p] # <<>>
    /\ Cardinality(Busy(p)) < MaxThreads
    /\ \/ /\ ~callback[j]
          /\ Pop(p)
          /\ Free(j)
          /\ UNCHANGED state
       \/ /\ callback[j]
          /\ outcome \in {"worker", "async", "lost"}
          /\ Pop(p)
          /\ Goto(j, outcome)
          /\ UNCHANGED <<counters, state>>
       \/ /\ callback[j]
          /\ outcome = "failed"
          /\ pool' = [pool EXCEPT ![p] = Tail(@),
                                  !["result"] = Append(@, j)]
          /\ SetState(j, "FAILED")
          /\ Goto(j, "result")
          /\ UNCHANGED counters
    /\ UNCHANGED <<stage, idles, callback, fixed, round, alive>>

\* update_job_finished() up to the post filter: the second look at the
\* callback, then the hand-over to the result pool.
Finish(j) ==
    \/ /\ ~callback[j]
       /\ Free(j)
       /\ UNCHANGED <<pool, state>>
    \/ /\ callback[j]
       /\ SetState(j, "FINISHED")
       /\ Push("result", j)
       /\ Goto(j, "result")
       /\ UNCHANGED counters

WorkerFinish(j) ==
    /\ at[j] = "worker"
    /\ Finish(j)
    /\ UNCHANGED <<stage, idles, callback, fixed, round, alive>>

\* The post filter is an external program: it takes time, and the callback is
\* not looked at again when it returns.
WorkerFilter(j) ==
    /\ at[j] = "worker"
    /\ callback[j]
    /\ SetState(j, "FILTERING")
    /\ Goto(j, "filtering")
    /\ UNCHANGED <<stage, counters, pool, idles, callback, fixed, round, alive>>

WorkerFiltered(j) ==
    /\ at[j] = "filtering"
    /\ SetState(j, "FINISHED")
    /\ Push("result", j)
    /\ Goto(j, "result")
    /\ UNCHANGED <<stage, counters, idles, callback, fixed, round, alive>>

\* The answer of an asynchronous request arrives on the main loop:
\* network_process_callback(), update_exec_cmd_cb_child_watch().  A post filter
\* blocks the main loop, which makes it part of this step.
AsyncDone(j) ==
    /\ stage = "up"
    /\ ~InCallback
    /\ at[j] = "async"
    /\ Finish(j)
    /\ UNCHANGED <<stage, idles, callback, fixed, round, alive>>

-----------------------------------------------------------------------------
(***************************************************************************)
(* Results: the result pool and the idle callback.                         *)
(***************************************************************************)

\* A thread of the result pool takes a job ...
ResultTake ==
    /\ stage \notin {"result", "closed"}
    /\ pool["result"] # <<>>
    /\ Cardinality(Busy("result")) < MaxThreads
    /\ Pop("result")
    /\ Goto(Head(pool["result"]), "handing")
    /\ UNCHANGED <<stage, counters, idles, state, callback, fixed, round, alive>>

\* Mutant of ResultHand: the result pool thread runs the callback itself.
ResultHandDirect(j) ==
    /\ at[j] = "handing"
    /\ Goto(j, "callback")
    /\ UNCHANGED <<stage, counters, pool, idles, state, callback, fixed, round,
                   alive>>

\* ... and adds the idle source: update_job_process_result().
ResultHand(j) ==
    /\ at[j] = "handing"
    /\ idles' = Append(idles, j)
    /\ Goto(j, "idle")
    /\ UNCHANGED <<stage, counters, pool, state, callback, fixed, round, alive>>

\* update_job_process_result_idle_cb() as far as the callback's first line.
Dispatch ==
    LET j == Head(idles) IN
    /\ stage = "up"
    /\ ~InCallback
    /\ idles # <<>>
    /\ idles' = Tail(idles)
    /\ IF callback[j]
       THEN Goto(j, "callback") /\ UNCHANGED counters
       ELSE Free(j)
    /\ UNCHANGED <<stage, pool, state, callback, fixed, round, alive>>

\* The callback returned TRUE: the job is done.
CallbackDone(j) ==
    /\ at[j] = "callback"
    /\ Free(j)
    /\ UNCHANGED <<stage, pool, idles, state, callback, fixed, round, alive>>

\* The callback returned FALSE: update_job_continue_flow() queues the job again,
\* even when the callback itself cancelled it.
CallbackAgain(j) ==
    /\ at[j] = "callback"
    /\ round[j] < MaxRounds
    /\ round' = [round EXCEPT ![j] = @ + 1]
    /\ SetState(j, "PENDING")
    /\ Enlist(j)
    /\ Push(PoolOf(j), j)
    /\ Goto(j, "queued")
    /\ UNCHANGED <<stage, idles, callback, fixed, alive>>

-----------------------------------------------------------------------------
(***************************************************************************)
(* update_job_queue_finalize(): the main loop has ended.  Every callback   *)
(* is cleared, then each pool is freed in turn: its unprocessed tasks are  *)
(* discarded and its busy threads are waited for.                          *)
(***************************************************************************)
Discard(p) ==
    /\ pool' = [pool EXCEPT ![p] = <<>>]
    /\ at' = [j \in Jobs |-> IF j \in RangeOf(pool[p]) THEN "dropped" ELSE at[j]]

Finalize ==
    /\ stage = "up"
    /\ ~InCallback
    /\ stage' = "normal"
    /\ CancelJobs(jobs)
    /\ Discard("normal")
    /\ UNCHANGED <<counters, idles, state, fixed, round, alive>>

DrainedOfAll(p) == jobs = {}

Drained(p) == Busy(p) = {}

PoolFreed(p) ==
    /\ stage = p
    /\ Drained(p)
    /\ \/ /\ p = "normal"
          /\ stage' = "priority"
          /\ Discard("priority")
          /\ UNCHANGED jobs
       \/ /\ p = "priority"
          /\ stage' = "result"
          /\ Discard("result")
          /\ UNCHANGED jobs
       \/ /\ p = "result"
          /\ stage' = "closed"
          /\ jobs' = {}
          /\ UNCHANGED <<pool, at>>
    /\ UNCHANGED <<currentJobCount, maxCount, idles, state, callback, fixed,
                   round, alive>>

\* The process exits.
Exited == stage = "closed" /\ UNCHANGED vars

-----------------------------------------------------------------------------
Main ==
    \/ \E j \in Jobs :
        NewJob(j) \/ AsyncDone(j) \/ CallbackDone(j) \/ CallbackAgain(j)
    \/ \E o \in Owners : CancelByOwner(o) \/ FreeOwner(o)
    \/ Dispatch
    \/ Finalize
    \/ \E p \in Pools : PoolFreed(p)

Workers ==
    \/ \E p \in Pools, outcome \in Outcomes : Execute(p, outcome)
    \/ \E j \in Jobs :
        WorkerFinish(j) \/ WorkerFilter(j) \/ WorkerFiltered(j) \/ ResultHand(j)
    \/ ResultTake

Next == Main \/ Workers \/ Exited

Spec == Init /\ [][Next]_vars

\* Thread pools run their tasks, filters and downloads end (libsoup and the
\* command timeout see to that; CommandJob has the exceptions), and the main
\* loop dispatches its sources.  Nothing obliges anybody to request, to cancel
\* or to quit.
Fairness ==
    /\ \A p \in {"normal", "priority"} :
        WF_vars(\E outcome \in Outcomes : Execute(p, outcome))
    /\ \A j \in Jobs :
        /\ WF_vars(WorkerFinish(j) \/ WorkerFilter(j))
        /\ WF_vars(WorkerFiltered(j))
        /\ WF_vars(AsyncDone(j))
        /\ WF_vars(ResultHand(j))
        /\ WF_vars(CallbackDone(j) \/ CallbackAgain(j))
    /\ WF_vars(ResultTake)
    /\ WF_vars(Dispatch)
    /\ \A p \in Pools : WF_vars(PoolFreed(p))

FairSpec == Spec /\ Fairness

-----------------------------------------------------------------------------
(***************************************************************************)
(* Properties.                                                             *)
(***************************************************************************)

Injective(s) == \A m, n \in 1..Len(s) : s[m] = s[n] => m = n

\* The sequence holds exactly the members of the set, each of them once.
Holds(s, S) == Injective(s) /\ RangeOf(s) = S

\* The jobs that wait in the queue of a pool.
Waiting(p) ==
    IF p = "result"
    THEN {j \in Jobs : at[j] = "result"}
    ELSE {j \in Jobs : at[j] = "queued" /\ PoolOf(j) = p}

\* Every pointer a thread pool or an idle source holds is held once and by one
\* of them only: no job is executed, answered or freed twice, whatever the
\* three groups of threads do to it.
QueuesHoldJobsOnce ==
    /\ \A p \in Pools : Holds(pool[p], Waiting(p))
    /\ Holds(idles, {j \in Jobs : at[j] = "idle"})

\* update_job_cancel_by_owner() finds jobs through queue->jobs only, so the list
\* has to hold every job that could still call back, wherever it is, and no job
\* whose memory is gone.
ListHoldsLiveJobs == stage # "closed" => jobs = {j \in Jobs : Live(j)}

\* A job that will run its callback has an owner to run it for.
NoCallbackForDeadOwner ==
    \A j \in Jobs : Live(j) /\ callback[j] => owner[j] \in alive

\* The progress shown in the header bar: the current count is the number of feed
\* jobs in the list, and "max - count" is never negative nor left over from an
\* earlier batch.
CountsMatchList ==
    /\ stage # "closed" =>
        currentJobCount = Cardinality({j \in jobs : flags[j].feed})
    /\ currentJobCount <= maxCount
    /\ currentJobCount = 0 => maxCount = 0

\* The assertions of update_job_queue_add(), update_job_queue_finish() and
\* update_job_continue_flow() on job->state.
StateFits(place, s) ==
    /\ place \in {"queued", "worker", "async"} => s = "PENDING"
    /\ place \in {"result", "handing", "idle", "callback"} =>
        s \in {"FINISHED", "FAILED"}

StateFollowsPlace == \A j \in Jobs : StateFits(at[j], state[j])

\* Callbacks never nest: they are entered from the main loop only.
OneCallback ==
    \A i, j \in Jobs : at[i] = "callback" /\ at[j] = "callback" => i = j

\* When the pools have been freed no thread touches a job any more.
NoThreadAfterClose ==
    stage = "closed" =>
        /\ \A p \in Pools : Busy(p) = {} /\ pool[p] = <<>>
        /\ \A j \in Jobs : at[j] # "queued"

\* From the first step of update_job_queue_finalize() on no callback is running
\* and no job is left that could enter one.
QuietOnShutdown ==
    stage # "up" => ~InCallback /\ \A j \in Jobs : Live(j) => ~callback[j]

\* What the requesters see of a job.
RequestPhase(j) ==
    IF at[j] = "none" THEN "idle"
    ELSE IF at[j] = "callback" THEN "serving"
    ELSE IF at[j] = "freed" THEN "closed"
    ELSE "open"

Promise == INSTANCE AsyncRequest WITH
    Requests <- Jobs,
    phase <- [j \in Jobs |-> RequestPhase(j)],
    wanted <- callback

\* The queue keeps its promise: cancelling reaches every request and is final, a
\* callback is entered only for a wanted request and only one at a time.
KeepsPromise == Promise!Spec

\* Freeing the thread pools waits for their threads, and that wait ends.
ShutdownEnds == stage # "up" ~> stage = "closed"

\* The comment in update_job_execute(): the execution methods "pass the
\* processed job to update_job_finished/failed() for result dequeuing".
ExecutionFinishesJob ==
    \A j \in Jobs :
        at[j] = "queued" ~>
            (at[j] \in {"result", "freed"} \/ stage # "up")
=============================================================================
