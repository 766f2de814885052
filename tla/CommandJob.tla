----------------------------- MODULE CommandJob -----------------------------
(***************************************************************************)
(* One job that runs a command (a source starting with '|'): the function  *)
(* update_exec_cmd() and the four GLib sources of src/update_job.c that    *)
(* work on the job afterwards.                                             *)
(*                                                                         *)
(* update_exec_cmd() runs in a worker thread and attaches its sources to   *)
(* the main loop one by one; from the moment a source is attached the main *)
(* loop may dispatch it.  The child writes, exits, or hangs as it likes.   *)
(* When the job has been passed to update_job_finished() it waits for its  *)
(* callback (see JobQueue) and is then freed; a cancelled job is freed     *)
(* at once.  Once it is freed the model stops: whatever still points to it *)
(* reads freed memory.                                                     *)
(***************************************************************************)
EXTENDS Naturals

CONSTANT
    MaxWrites       \* bound on what the child writes to its output

ASSUME CommandJobAssumption == MaxWrites \in Nat

VARIABLES
    worker,         \* the next step of update_exec_cmd()
    holding,        \* has it attached a source whose id is not stored yet?
    child,          \* "none", "running", "silent" (running, output closed),
                    \* "ok" (exit status 0), "bad"
    killed,         \* SIGKILL has been sent
    written,        \* chunks the child wrote
    received,       \* chunks in job->result->data
    reading,        \* the main loop is inside the loop that reads the output
    sources,        \* the sources attached to the main loop
    ids,            \* the source ids stored in job->cmd
    pid,            \* job->cmd.pid # 0
    fd,             \* job->cmd.fd >= 0
    closes,         \* close() calls on the descriptor
    httpstatus,
    job,            \* "executing", "finished", "freed"
    finishes,       \* calls of update_job_finished()
    cancelled       \* job->callback = NULL

setup == <<worker, holding>>
process == <<child, killed, written>>
output == <<reading, received>>
commandVars == <<setup, process, output, sources, ids, pid, fd, closes,
                 httpstatus, job, finishes, cancelled>>

\* The sources whose id the job keeps; the reap timer's is not kept.
Tracked == {"child_watch", "io_watch", "timeout"}
Sources == Tracked \union {"reap"}

CommandTypeOK ==
    /\ worker \in {"spawn", "done", "failed"} \union Tracked
    /\ holding \in BOOLEAN
    /\ child \in {"none", "running", "silent", "ok", "bad"}
    /\ killed \in BOOLEAN
    /\ written \in 0..MaxWrites
    /\ received \in 0..written
    /\ reading \in BOOLEAN
    /\ sources \subseteq Sources
    /\ ids \subseteq Tracked
    /\ pid \in BOOLEAN
    /\ fd \in BOOLEAN
    /\ closes \in 0..2
    /\ httpstatus \in {0, 200, 404, 500, 504}
    /\ job \in {"executing", "finished", "freed"}
    /\ finishes \in 0..2
    /\ cancelled \in BOOLEAN

CommandInit ==
    /\ worker = "spawn"
    /\ holding = FALSE
    /\ child = "none"
    /\ killed = FALSE
    /\ written = 0
    /\ received = 0
    /\ reading = FALSE
    /\ sources = {}
    /\ ids = {}
    /\ pid = FALSE
    /\ fd = FALSE
    /\ closes = 0
    /\ httpstatus = 0
    /\ job = "executing"
    /\ finishes = 0
    /\ cancelled = FALSE

Exists == job # "freed"

\* update_exec_cmd() has returned.
SetUp == worker \in {"done", "failed"}

\* The main loop dispatches a source.
Ready(s) == Exists /\ ~reading /\ s \in sources

\* The sources update_job_finalize() removes: those it has an id of.
Removes(tracked) == tracked

\* update_job_finished() on this job, with the sources and ids that its caller
\* leaves.  Without a callback the job is freed: update_job_finalize() closes
\* the descriptor and removes sources.
Finished(srcs, tracked) ==
    /\ finishes' = finishes + 1
    /\ IF cancelled
       THEN /\ job' = "freed"
            /\ sources' = srcs \ Removes(tracked)
            /\ ids' = {}
            /\ fd' = FALSE
            /\ closes' = IF fd THEN closes + 1 ELSE closes
       ELSE /\ job' = "finished"
            /\ sources' = srcs
            /\ ids' = tracked
            /\ UNCHANGED <<fd, closes>>

-----------------------------------------------------------------------------
(***************************************************************************)
(* update_exec_cmd(), in the worker thread.                                *)
(***************************************************************************)
Spawn ==
    /\ worker = "spawn"
    /\ \/ /\ worker' = "child_watch"
          /\ child' = "running"
          /\ pid' = TRUE
          /\ fd' = TRUE
          /\ UNCHANGED httpstatus
       \/ /\ worker' = "failed"
          /\ httpstatus' = 404
          /\ UNCHANGED <<child, pid, fd>>
    /\ UNCHANGED <<holding, killed, written, output, sources, ids, closes, job,
                   finishes, cancelled>>

\* g_child_watch_add(), g_io_add_watch(), g_timeout_add(): the source is live ...
Attach(s) ==
    /\ Exists
    /\ worker = s
    /\ ~holding
    /\ holding' = TRUE
    /\ sources' = sources \union {s}
    /\ UNCHANGED <<worker, process, output, ids, pid, fd, closes, httpstatus,
                   job, finishes, cancelled>>

AfterStore ==
    [child_watch |-> "io_watch", io_watch |-> "timeout", timeout |-> "done"]

\* ... before its id is stored, so a source that is dispatched in between leaves
\* a stale id behind.
StoreId(s) ==
    /\ Exists
    /\ worker = s
    /\ holding
    /\ holding' = FALSE
    /\ ids' = ids \union {s}
    /\ worker' = AfterStore[s]
    /\ UNCHANGED <<process, output, sources, pid, fd, closes, httpstatus, job,
                   finishes, cancelled>>

-----------------------------------------------------------------------------
(***************************************************************************)
(* The child process.                                                      *)
(***************************************************************************)
ChildWrites ==
    /\ child = "running"
    /\ written < MaxWrites
    /\ written' = written + 1
    /\ UNCHANGED <<setup, child, killed, output, sources, ids, pid, fd, closes,
                   httpstatus, job, finishes, cancelled>>

ChildCloses ==
    /\ child = "running"
    /\ child' = "silent"
    /\ UNCHANGED <<setup, killed, written, output, sources, ids, pid, fd,
                   closes, httpstatus, job, finishes, cancelled>>

ChildExits(how) ==
    /\ child \in {"running", "silent"}
    /\ killed => how = "bad"
    /\ child' = how
    /\ UNCHANGED <<setup, killed, written, output, sources, ids, pid, fd,
                   closes, httpstatus, job, finishes, cancelled>>

-----------------------------------------------------------------------------
(***************************************************************************)
(* The sources, in the main loop.                                          *)
(***************************************************************************)

\* Mutant of ExitStatus: "no more specific error code" is not asked for.
ExitStatusPlain == IF child = "ok" THEN 200 ELSE 500

\* The status after the child is gone: success, or 500 unless something more
\* specific is known.
ExitStatus ==
    IF child = "ok" THEN 200 ELSE IF httpstatus = 0 THEN 500 ELSE httpstatus

\* update_exec_cmd_cb_child_watch()
ChildWatch ==
    /\ Ready("child_watch")
    /\ child \in {"ok", "bad"}
    /\ pid' = FALSE
    /\ httpstatus' = ExitStatus
    /\ Finished(sources \ ({"child_watch"} \union (ids \ {"child_watch"})), {})
    /\ UNCHANGED <<setup, process, output, cancelled>>

\* update_exec_cmd_cb_out_watch() for G_IO_IN.  The descriptor is a blocking one
\* and the loop asks for more after every read, so it returns at the end of the
\* output only; the main loop is in it all the time.
OutWatchRead ==
    /\ Ready("io_watch")
    /\ child = "running"
    /\ received < written
    /\ reading' = TRUE
    /\ UNCHANGED <<setup, process, received, sources, ids, pid, fd, closes,
                   httpstatus, job, finishes, cancelled>>

\* End of file: the watch stays, and is told of the hang-up next.
OutWatchEnd ==
    /\ reading
    /\ child # "running"
    /\ reading' = FALSE
    /\ received' = written
    /\ UNCHANGED <<setup, process, sources, ids, pid, fd, closes, httpstatus,
                   job, finishes, cancelled>>

\* What closes the descriptor and ends the watch.
CloseOutput ==
    /\ closes' = closes + 1
    /\ fd' = FALSE
    /\ sources' = sources \ {"io_watch"}
    /\ ids' = ids \ {"io_watch"}

\* A read error, such as output that is not UTF-8: the rest is not read.
OutWatchError ==
    /\ reading
    /\ reading' = FALSE
    /\ received' \in received..written
    /\ CloseOutput
    /\ UNCHANGED <<setup, process, pid, httpstatus, job, finishes, cancelled>>

\* The same function for G_IO_HUP, which is looked at first: the other end is
\* closed, and what may be left in the pipe is not read.
OutWatchHup ==
    /\ Ready("io_watch")
    /\ child # "running"
    /\ CloseOutput
    /\ UNCHANGED <<setup, process, output, pid, httpstatus, job, finishes,
                   cancelled>>

\* Mutant of AfterTimeout: the signal is trusted to end the child.
TrustSignal == {}

\* The timers update_exec_cmd_cb_timeout() leaves behind.
AfterTimeout == {"reap"}

\* Mutant of FdAfterTimeout: the field keeps the closed descriptor.
FdKept == fd

\* job->cmd.fd after update_exec_cmd_cb_timeout() has closed it.
FdAfterTimeout == FALSE

\* What update_exec_cmd_cb_timeout() detaches.
TimeoutRemoves == {"timeout"} \union (ids \cap {"io_watch"})

\* update_exec_cmd_cb_timeout(): the child is sent SIGTERM, which it may ignore,
\* and the reap timer is added.
Timeout ==
    /\ Ready("timeout")
    /\ sources' = (sources \ TimeoutRemoves) \union AfterTimeout
    /\ ids' = ids \ {"timeout", "io_watch"}
    /\ closes' = IF fd THEN closes + 1 ELSE closes
    /\ fd' = FdAfterTimeout
    /\ httpstatus' = 504
    /\ UNCHANGED <<setup, process, output, pid, job, finishes, cancelled>>

\* update_exec_cmd_cb_reap_timeout()
Reap ==
    /\ Ready("reap")
    /\ IF pid
       THEN /\ killed' = TRUE
            /\ httpstatus' = 504
            /\ Finished(sources \ {"reap"}, ids)
       ELSE /\ sources' = sources \ {"reap"}
            /\ UNCHANGED <<killed, httpstatus, finishes, job, ids, fd, closes>>
    /\ UNCHANGED <<setup, child, written, output, pid, cancelled>>

-----------------------------------------------------------------------------
(***************************************************************************)
(* The rest of the job's life: see JobQueue.                               *)
(***************************************************************************)
Cancel ==
    /\ Exists
    /\ ~reading
    /\ ~cancelled
    /\ cancelled' = TRUE
    /\ UNCHANGED <<setup, process, output, sources, ids, pid, fd, closes,
                   httpstatus, job, finishes>>

\* The idle callback has run the result callback and frees the job.
Deliver ==
    /\ job = "finished"
    /\ ~reading
    /\ job' = "freed"
    /\ sources' = sources \ Removes(ids)
    /\ ids' = {}
    /\ closes' = IF fd THEN closes + 1 ELSE closes
    /\ fd' = FALSE
    /\ UNCHANGED <<setup, process, output, pid, httpstatus, finishes,
                   cancelled>>

CommandNext ==
    \/ Spawn
    \/ \E s \in Tracked : Attach(s) \/ StoreId(s)
    \/ ChildWrites
    \/ ChildCloses
    \/ \E how \in {"ok", "bad"} : ChildExits(how)
    \/ ChildWatch
    \/ OutWatchRead
    \/ OutWatchEnd
    \/ OutWatchError
    \/ OutWatchHup
    \/ Timeout
    \/ Reap
    \/ Cancel
    \/ Deliver

CommandSpec == CommandInit /\ [][CommandNext]_commandVars

\* Threads run, timers fire, a killed child dies and is reaped.  A child that has
\* not been killed may run, and block, for ever.
CommandFairness ==
    /\ WF_commandVars(Spawn)
    /\ \A s \in Tracked : WF_commandVars(Attach(s)) /\ WF_commandVars(StoreId(s))
    /\ WF_commandVars(killed /\ ChildExits("bad"))
    /\ WF_commandVars(ChildWatch)
    /\ WF_commandVars(OutWatchEnd)
    /\ WF_commandVars(OutWatchHup)
    /\ WF_commandVars(Timeout)
    /\ WF_commandVars(Reap)
    /\ WF_commandVars(Deliver)

CommandFairSpec == CommandSpec /\ CommandFairness

-----------------------------------------------------------------------------
(***************************************************************************)
(* Properties.                                                             *)
(***************************************************************************)

\* The descriptor of the child's output is closed exactly once, by whichever of
\* the read error, the timeout and the end of the job comes first: a second
\* close() could hit a descriptor another thread has just opened.
ClosedOnce ==
    /\ closes = IF child # "none" /\ ~fd THEN 1 ELSE 0
    /\ ~Exists => ~fd

\* A command that ran into the timeout and is then gone is reported as timed out,
\* or as successful if it managed to end well, never as a plain failure.
TimeoutIsReported ==
    "reap" \in sources /\ job = "finished" => httpstatus \in {200, 504}

\* Every command that was started ends, even a child that ignores SIGTERM and
\* never closes its output, unless it got the main loop to read from it.
UnreadCommandEnds == child # "none" ~> job \in {"finished", "freed"} \/ reading

\* "Catch zombies": the reap timer is for jobs that are still waiting for their
\* child.
ReapTimerHasJob == "reap" \in sources => Exists

\* A command that runs well delivers what it wrote (test case tc_script_ok).
SuccessIsComplete == httpstatus = 200 => received = written
=============================================================================
