---------------------------- MODULE JobListRace -----------------------------
(***************************************************************************)
(* The list queue->jobs of src/update_job_queue.c as memory, without a     *)
(* lock.  The main loop appends jobs and frees processed ones; a worker    *)
(* thread that finds its job cancelled frees it there and then, and the    *)
(* finalizer removes it from the same list.                                *)
(*                                                                         *)
(* g_slist_append() and g_slist_remove() walk the list and then write one  *)
(* link; the caller stores the returned head.  Walking and writing are two *)
(* steps here, so that another thread may come in between.                 *)
(***************************************************************************)
EXTENDS Naturals, FiniteSets

CONSTANTS
    Jobs,       \* identities of UpdateJob objects, each with its list cell
    Threads,    \* the main loop and the worker threads that free jobs
    Main,       \* the main loop, one of the threads
    Nil         \* no job

VARIABLES
    head,       \* queue->jobs
    next,       \* the link of each cell
    live,       \* jobs that exist
    used,       \* jobs that existed at some time
    op          \* the list operation each thread is in the middle of

vars == <<head, next, live, used, op>>

NoOp == [kind |-> "none", job |-> Nil, start |-> Nil, link |-> Nil]

Init ==
    /\ head = Nil
    /\ next = [j \in Jobs |-> Nil]
    /\ live = {}
    /\ used = {}
    /\ op = [t \in Threads |-> NoOp]

\* The cells a walk from a given cell comes across.
CellsFrom(c) ==
    LET walk[n \in 0..Cardinality(Jobs)] ==
            IF n = 0 THEN {c} \ {Nil}
            ELSE walk[n - 1] \union ({next[d] : d \in walk[n - 1]} \ {Nil})
    IN  walk[Cardinality(Jobs)]

Listed == CellsFrom(head)

\* Where the walk to the end stops; a list bent into a circle has no such cell.
LastCells == IF Listed = {} THEN {Nil} ELSE {c \in Listed : next[c] = Nil}

Begin(t, k, j, lnk) ==
    op' = [op EXCEPT ![t] = [kind |-> k, job |-> j, start |-> head, link |-> lnk]]

Idle(t) == op[t].kind = "none"

-----------------------------------------------------------------------------
\* update_job_queue_add() up to the end of the walk to the last cell.
AppendWalk(j) ==
    /\ Idle(Main)
    /\ j \notin used
    /\ used' = used \union {j}
    /\ live' = live \union {j}
    /\ \E c \in LastCells : Begin(Main, "append", j, c)
    /\ UNCHANGED <<head, next>>

\* ... the write of the link, and the assignment to queue->jobs.
AppendLink ==
    LET o == op[Main] IN
    /\ o.kind = "append"
    /\ next' = [c \in Jobs |-> IF c = o.link THEN o.job
                               ELSE IF c = o.job THEN Nil
                               ELSE next[c]]
    /\ head' = IF o.start = Nil THEN o.job ELSE o.start
    /\ op' = [op EXCEPT ![Main] = NoOp]
    /\ UNCHANGED <<live, used>>

\* A thread drops the last reference: update_job_queue_remove() up to the end of
\* the walk to the job's predecessor.  A job that is not found stays unlisted.
RemoveWalk(t, j) ==
    /\ Idle(t)
    /\ j \in live
    /\ \A u \in Threads : op[u].job # j
    /\ IF j \in Listed
       THEN /\ Begin(t, "remove", j, IF j = head THEN Nil
                                     ELSE CHOOSE c \in Listed : next[c] = j)
            /\ UNCHANGED live
       ELSE live' = live \ {j} /\ UNCHANGED op
    /\ UNCHANGED <<head, next, used>>

\* The head that a removal assigns to queue->jobs.
HeadAfter(o) == IF o.link = Nil THEN next[o.job] ELSE o.start

\* ... the write of the predecessor's link, the assignment to queue->jobs, and
\* the end of the cell and of the job.
RemoveLink(t) ==
    LET o == op[t] IN
    /\ o.kind = "remove"
    /\ next' = [c \in Jobs |-> IF c = o.link THEN next[o.job] ELSE next[c]]
    /\ head' = HeadAfter(o)
    /\ live' = live \ {o.job}
    /\ op' = [op EXCEPT ![t] = NoOp]
    /\ UNCHANGED used

Next ==
    \/ \E j \in Jobs : AppendWalk(j) \/ \E t \in Threads : RemoveWalk(t, j)
    \/ AppendLink
    \/ \E t \in Threads : RemoveLink(t)

Spec == Init /\ [][Next]_vars

-----------------------------------------------------------------------------
Quiet == \A t \in Threads : Idle(t)

\* update_job_queue.h says that update_job_cancel_by_owner() cancels "all pending
\* requests for the given owner".  It goes through the list, so when nobody is
\* changing the list, every live job has to be in it.
CancelFindsEveryJob == Quiet => live \subseteq Listed
=============================================================================
