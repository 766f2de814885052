----------------------------- MODULE WebDAVSync -----------------------------
(***************************************************************************)
(* Synchronisation of a feed list between several clients over a WebDAV    *)
(* server (src/node_sources/webdav_source.c, webdav_source_flows.c and     *)
(* webdav_source_feed_list.c).                                             *)
(*                                                                         *)
(* The server has an index of the feeds with the times of their last       *)
(* uploads, and for each feed a file about the node and one with the       *)
(* states of its items.  A client uploads what is dirty after a delay, and *)
(* polls the index, fetches the files that are newer than what it has and  *)
(* writes the index anew from its own tree.  There is no lock and no       *)
(* conditional request: every file is the last one written.                *)
(*                                                                         *)
(* Folders are not nested.  An item has one mark, which stands for read    *)
(* and for flagged.  All items of a feed arrive with its first download.   *)
(* Two equal requests of one client that are under way count as one.       *)
(***************************************************************************)
EXTENDS Integers, FiniteSets

CONSTANTS
    Clients,
    Feeds,              \* ids of feeds on the server
    Items,              \* the items of every feed
    Folders,
    Top,                \* the root of the source as a parent
    Absent,             \* where a feed is that is not in the tree
    NoIndex,            \* there is no index.json
    Owner,              \* the client that was first
    InitialTrees,       \* what each client has when it first starts
    MaxClock,           \* bound on the seconds in which uploads happen
    MaxOps,             \* bound on the merges of one client under way
    MaxPolls,           \* bound on polls of the index, but for those of logins
    MaxJobs,            \* bound on the requests of one client that are under way
                        \* when it starts another one
    MaxEvents,          \* bound on what users do and on failures
    MaxRestarts

VARIABLES
    client,         \* the state of each client, a record
    jobs,           \* requests under way
    ops,            \* WebDAVMergeOp: the merges of each client
    server,         \* the files of the collection
    clock,          \* g_get_real_time() in seconds, the same everywhere
    budget          \* what is left of the bounds

vars == <<client, jobs, ops, server, clock, budget>>

ASSUME WebDAVSyncAssumption ==
    /\ Top \notin Folders /\ Absent \notin Folders \union {Top}
    /\ InitialTrees \subseteq [Clients -> [Feeds -> Folders \union {Top, Absent}]]
    /\ {MaxClock, MaxOps} \subseteq Nat \ {0}
    /\ Owner \in Clients
    /\ MaxPolls \in Nat /\ MaxJobs \in Nat \ {0} /\ MaxEvents \in Nat /\ MaxRestarts \in Nat

Places == Folders \union {Top}
Local(k) == {f \in Feeds : k.tree[f] # Absent}
FeedsIn(k, d) == {f \in Feeds : k.tree[f] = d}
JobsOf(c) == {j \in jobs : j.client = c}
JobsOfOp(c, n) == {j \in JobsOf(c) : j.kind \in {"getFeed", "getState"} /\ j.op = n}

-----------------------------------------------------------------------------
(* What a client does on its own.                                          *)

\* webdav_source_mark_items_dirty(): the timer starts anew.
MarkItemsDirty(k, f) == [k EXCEPT !.stateTimer = @ \union {f}]
MarkFeedDirty(k, f) == [k EXCEPT !.feedTimer = @ \union {f}]

\* webdav_on_node_updated() for feed f, whose counters have changed
NodeUpdated(k, f) == MarkFeedDirty(MarkItemsDirty(k, f), f)

\* webdav_source_feed_list_upload(): the index is built from the own tree.
IndexOf(k) ==
    [folders |-> k.folders,
     feeds |-> [f \in Local(k) |-> [parent |-> k.tree[f],
                                    feedMtime |-> k.feedMtime[f],
                                    stateMtime |-> k.stateMtime[f]]]]

Waiting == [status |-> "waiting"]
NotFound == [status |-> "404"]

PutIndex(c, k) ==
    [client |-> c, kind |-> "putIndex", body |-> IndexOf(k)]

\* webdav_on_node_updated() for the folder of f, which has new counters too
FolderUpdated(c, k, f) == IF k.tree[f] \in Folders THEN {PutIndex(c, k)} ELSE {}

\* node_source_new(): everything is to be imported, no times are known.
Restarted(k) ==
    [k EXCEPT !.login = "NONE", !.initial = Local(k), !.feedTimer = {}, !.stateTimer = {},
              !.feedMtime = [f \in Feeds |-> 0], !.stateMtime = [f \in Feeds |-> 0]]

StartedForgetting(k) == Restarted(k)

\* The first count of all items tells the source of every feed that has any.
Started(k) == [Restarted(k) EXCEPT !.feedTimer = k.loaded, !.stateTimer = k.loaded]

StartJobs(c, k) == UNION {FolderUpdated(c, Started(k), f) : f \in k.loaded}

FirstStart(tree) ==
    LET local == {f \in Feeds : tree[f] # Absent}
    IN  Started([tree |-> tree, folders |-> {d \in Folders : \E f \in local : tree[f] = d},
                 loaded |-> local, marks |-> [f \in Feeds |-> {}],
                 login |-> "NONE", initial |-> {}, feedTimer |-> {}, stateTimer |-> {},
                 feedMtime |-> <<>>, stateMtime |-> <<>>,
                 removed |-> {}, excused |-> {}])

-----------------------------------------------------------------------------
\* The owner starts, and nothing was ever uploaded; the others are not running.
NewAccount(trees) ==
    /\ client = [c \in Clients |->
                    IF c = Owner THEN FirstStart(trees[c]) ELSE [FirstStart(trees[c]) EXCEPT !.login = "OFF"]]
    /\ jobs = StartJobs(Owner, client[Owner])
    /\ server = [collection |-> FALSE, index |-> NoIndex, nodes |-> {},
                 state |-> [f \in {} |-> {}], writer |-> [f \in {} |-> 0]]
    /\ budget = [events |-> 0, polls |-> 0, restarts |-> 0]

\* A client with a tree that is uploaded
UpToDate(tree) ==
    LET k == FirstStart(tree)
        once == [f \in Feeds |-> IF f \in Local(k) THEN 1 ELSE 0]
    IN  [k EXCEPT !.login = "ACTIVE", !.initial = {}, !.feedTimer = {}, !.stateTimer = {},
                  !.feedMtime = once, !.stateMtime = once]

AccountOf(k) ==
    [collection |-> TRUE, index |-> IndexOf(k), nodes |-> Local(k),
     state |-> [f \in Local(k) |-> {}], writer |-> [f \in Local(k) |-> Owner]]

\* The owner has uploaded all it has, and the others start.
JoinedAccount(trees) ==
    /\ client = [c \in Clients |-> IF c = Owner THEN UpToDate(trees[c]) ELSE FirstStart(trees[c])]
    /\ jobs = UNION {StartJobs(c, client[c]) : c \in Clients \ {Owner}}
    /\ server = AccountOf(UpToDate(trees[Owner]))
    /\ budget = [events |-> MaxEvents, polls |-> MaxPolls, restarts |-> 0]

\* All have the same, and any of them may be restarted.
SharedAccount(trees) ==
    /\ client = [c \in Clients |-> UpToDate(trees[Owner])]
    /\ jobs = {}
    /\ server = AccountOf(UpToDate(trees[Owner]))
    /\ budget = [events |-> MaxEvents, polls |-> 0, restarts |-> MaxRestarts]

Init ==
    /\ \E trees \in InitialTrees : NewAccount(trees) \/ JoinedAccount(trees) \/ SharedAccount(trees)
    /\ ops = [c \in Clients |-> [n \in {} |-> 0]]
    /\ clock = 1

Room(c) == client[c].login # "OFF" /\ Cardinality(JobsOf(c)) < MaxJobs

Spend(what) == budget[what] > 0 /\ budget' = [budget EXCEPT ![what] = @ - 1]

(* Users. *)

LoggedIn(c) == client[c].login = "ACTIVE"

\* webdav_source_item_read_changed(), webdav_source_item_flag_changed() and the
\* recount that follows
ItemChanged(c, f, i) ==
    LET k == client[c]
        marked == [k EXCEPT !.marks[f] = IF i \in @ THEN @ \ {i} ELSE @ \union {i}]
    IN  /\ Spend("events")
        /\ f \in k.loaded
        /\ client' = [client EXCEPT ![c] = NodeUpdated(marked, f)]
        /\ jobs' = jobs \union FolderUpdated(c, k, f)
        /\ UNCHANGED <<ops, server, clock>>

\* webdav_source_add_subscription(): a new feed has an id nobody has.
AddSubscription(c, f, place) ==
    LET k == [client[c] EXCEPT !.tree[f] = place]
    IN  /\ Spend("events")
        /\ LoggedIn(c) /\ place \in client[c].folders \union {Top}
        /\ \A x \in Clients : f \notin Local(client[x]) \union client[x].removed
        /\ client' = [client EXCEPT ![c] = NodeUpdated(k, f)]
        /\ jobs' = jobs \union {PutIndex(c, k)}
        /\ UNCHANGED <<ops, server, clock>>

\* webdav_source_add_folder()
AddFolder(c, d) ==
    LET k == [client[c] EXCEPT !.folders = @ \union {d}]
    IN  /\ Spend("events")
        /\ LoggedIn(c) /\ \A x \in Clients : d \notin client[x].folders
        /\ client' = [client EXCEPT ![c] = k]
        /\ jobs' = jobs \union {PutIndex(c, k)}
        /\ UNCHANGED <<ops, server, clock>>

\* webdav_source_remove_node(): neither the timers nor the index are touched.
RemoveNode(c, f) ==
    /\ Spend("events")
    /\ LoggedIn(c) /\ f \in Local(client[c])
    /\ client' = [client EXCEPT ![c].tree[f] = Absent, ![c].loaded = @ \ {f},
                                ![c].marks[f] = {}, ![c].removed = @ \union {f}]
    /\ UNCHANGED <<jobs, ops, server, clock>>

\* The update of a feed that has no items yet
Download(c, f) ==
    LET k == [client[c] EXCEPT !.loaded = @ \union {f}]
    IN  /\ f \in Local(client[c]) \ client[c].loaded
        /\ client' = [client EXCEPT ![c] = NodeUpdated(k, f)]
        /\ jobs' = jobs \union FolderUpdated(c, k, f)
        /\ UNCHANGED <<ops, server, clock, budget>>

\* node_source_auto_update() and webdav_source_login()
Login(c) ==
    /\ Room(c) /\ client[c].login = "NONE"
    /\ client' = [client EXCEPT ![c].login = "IN_PROGRESS"]
    /\ jobs' = jobs \union {[client |-> c, kind |-> "bootstrap", step |-> "MKCOL"]}
    /\ UNCHANGED <<ops, server, clock, budget>>

PollJob(c) == [client |-> c, kind |-> "poll", result |-> Waiting]
Polling(s, c) == \E j \in s : j.client = c /\ j.kind = "poll"
Polled(s, c) == IF Polling(s, c) THEN s ELSE s \union {PollJob(c)}

\* subscription_update() of the root, by the timer or by the user
Poll(c) ==
    /\ Spend("polls")
    /\ Room(c) /\ ~Polling(jobs, c)
    /\ jobs' = Polled(jobs, c)
    /\ UNCHANGED <<client, ops, server, clock>>

\* Exit or crash, and the next start
Restart(c) ==
    /\ Spend("restarts")
    /\ client[c].login # "OFF"
    /\ client' = [client EXCEPT ![c] = Started(@)]
    /\ jobs' = (jobs \ JobsOf(c)) \union StartJobs(c, client[c])
    /\ ops' = [ops EXCEPT ![c] = [n \in {} |-> 0]]
    /\ UNCHANGED <<server, clock>>

-----------------------------------------------------------------------------
(* The server.                                                             *)

\* The index and state files are read at one time and their contents used at
\* another.  All other requests are answered and the answers processed at once:
\* nothing they carry can be old by then.
Serve(j) ==
    /\ j.kind \in {"poll", "getState"} /\ j.result = Waiting
    /\ \/ /\ j.kind = "poll"
          /\ jobs' = (jobs \ {j}) \union {[j EXCEPT !.result =
                IF server.index = NoIndex THEN NotFound
                ELSE [status |-> "ok", body |-> server.index, known |-> server.nodes]]}
       \/ /\ j.kind = "getState"
          /\ jobs' = (jobs \ {j}) \union {[j EXCEPT !.result =
                IF j.feed \notin DOMAIN server.state THEN NotFound
                ELSE [status |-> "ok", body |-> server.state[j.feed]]]}
    /\ UNCHANGED <<client, ops, server, clock, budget>>

\* The network or the server fails.
Fails == Spend("events")
Works == UNCHANGED budget

\* Nobody looks at the result for the index.  A file needs its collection.
IndexPut(j) ==
    /\ j.kind = "putIndex"
    /\ \/ Works /\ server' = IF server.collection THEN [server EXCEPT !.index = j.body] ELSE server
       \/ Fails /\ UNCHANGED server
    /\ jobs' = jobs \ {j}
    /\ UNCHANGED <<client, ops, clock>>

-----------------------------------------------------------------------------
(* Uploads: webdav_source_flow_upload_feed_step().                         *)

Put(fun, f, x) == [g \in DOMAIN fun \union {f} |-> IF g = f THEN x ELSE fun[g]]

Written(j) ==
    IF j.what = "feed" THEN [server EXCEPT !.nodes = @ \union {j.feed}]
    ELSE [server EXCEPT !.state = Put(@, j.feed, j.body), !.writer = Put(@, j.feed, j.client)]

\* The time is taken when the file is about to be sent.  At the bound the clock
\* stands still, as it does for uploads within a second.
Tick == IF clock < MaxClock THEN clock + 1 ELSE clock

SendFile(c, k, f, what, t) ==
    [k |-> IF what = "feed" THEN [k EXCEPT !.initial = @ \ {f}, !.feedMtime[f] = t]
           ELSE [k EXCEPT !.stateMtime[f] = t],
     job |-> [client |-> c, kind |-> "upload", feed |-> f, what |-> what,
              body |-> IF what = "feed" THEN {} ELSE k.marks[f]]]

\* A file that is not sent, by an error that tells nothing of the login or by a
\* 401, which calls node_source_set_auth_failed()
Unsent(k, f, login) == [k EXCEPT !.excused = @ \union {f}, !.login = login]
LoginsAfterFailure(k) == {k.login, "AUTH_FAILED"}

\* MKCOL for the feed's collection, which needs that of the account and may be
\* there already, and then the file
StartUpload(c, k, f, what) ==
    \/ /\ server.collection /\ f \in Local(k) /\ Works
       /\ clock' = Tick
       /\ client' = [client EXCEPT ![c] = SendFile(c, k, f, what, Tick).k]
       /\ jobs' = jobs \union {SendFile(c, k, f, what, Tick).job}
    \/ /\ \E login \in LoginsAfterFailure(k) :
            /\ client' = [client EXCEPT ![c] = Unsent(k, f, login)]
            /\ \/ Works /\ (~server.collection \/ f \notin Local(k)) /\ login = k.login
               \/ Fails /\ f \in Local(k)
       /\ UNCHANGED <<jobs, clock>>

\* webdav_flush_feed_cb()
FlushFeed(c, f) ==
    /\ Room(c) /\ f \in client[c].feedTimer
    /\ StartUpload(c, [client[c] EXCEPT !.feedTimer = @ \ {f}], f, "feed")
    /\ UNCHANGED <<ops, server>>

\* webdav_flush_state_cb().  Nothing keeps two uploads of one file from being
\* under way.
Uploading(c, f) == \E j \in JobsOf(c) : j.kind = "upload" /\ j.feed = f /\ j.what = "state"

FlushState(c, f) ==
    /\ Room(c) /\ f \in client[c].stateTimer
    /\ StartUpload(c, [client[c] EXCEPT !.stateTimer = @ \ {f},
                            !.excused = IF Uploading(c, f) THEN @ \union {f} ELSE @], f, "state")
    /\ UNCHANGED <<ops, server>>

\* After PUT; the index follows, if the node is still there.
UploadPut(j) ==
    LET c == j.client
    IN  /\ j.kind = "upload"
        /\ server' = Written(j)
        /\ jobs' = (jobs \ {j}) \union (IF j.feed \in Local(client[c])
                                        THEN {PutIndex(c, client[c])} ELSE {})
        /\ UNCHANGED <<client, ops, clock, budget>>

\* A failed request ends the upload, and nobody tries again.
UploadFails(j) ==
    /\ j.kind = "upload"
    /\ Fails
    /\ jobs' = jobs \ {j}
    /\ \E login \in LoginsAfterFailure(client[j.client]) :
          client' = [client EXCEPT ![j.client] = Unsent(@, j.feed, login)]
    /\ UNCHANGED <<ops, server, clock>>

-----------------------------------------------------------------------------
(* Polls and merges.                                                       *)

\* webdav_parse_index_json(): an index without entries is taken for invalid.
Parses(ix) == ix.folders # {} \/ DOMAIN ix.feeds # {}

\* webdav_cleanup_stale_folders()
CleanedUp(k, ix) ==
    [k EXCEPT !.folders = {d \in @ : d \in ix.folders \/ FeedsIn(k, d) # {}}]

\* webdav_merge_index(): the folders of the index are made, others that are
\* empty go.
MergeIndex(k, ix) == CleanedUp([k EXCEPT !.folders = @ \union ix.folders], ix)

\* webdav_source_flow_bootstrap_step()
BootstrapMkcol(j) ==
    /\ j.kind = "bootstrap" /\ j.step = "MKCOL"
    /\ server' = [server EXCEPT !.collection = TRUE]
    /\ jobs' = (jobs \ {j}) \union {[j EXCEPT !.step = "GET_INDEX"]}
    /\ UNCHANGED <<client, ops, clock, budget>>

\* webdav_source_feed_list_index_fetch_cb()
BootstrapIndex(j) ==
    LET c == j.client
        ix == server.index
    IN  /\ j.kind = "bootstrap" /\ j.step = "GET_INDEX"
        /\ jobs' = Polled(jobs \ {j}, c)
        /\ client' = IF ix = NoIndex THEN client ELSE IF ~Parses(ix) THEN client
                     ELSE [client EXCEPT ![c] = MergeIndex(@, ix)]
        /\ UNCHANGED <<ops, server, clock, budget>>

\* An error that ends a login in progress
LoginFailed(c) ==
    client' = [client EXCEPT ![c].login = IF @ = "IN_PROGRESS" THEN "AUTH_FAILED" ELSE @]

\* A 401 does more: it ends any login.
Denied(c) == client' = [client EXCEPT ![c].login = "AUTH_FAILED"]

BootstrapFails(j) ==
    /\ j.kind = "bootstrap"
    /\ Fails
    /\ LoginFailed(j.client) \/ Denied(j.client)
    /\ jobs' = jobs \ {j}
    /\ UNCHANGED <<ops, server, clock>>

\* What webdav_subscription_process_update_result() asks for: files the index
\* says are newer, or whose time nobody knows, unless the own are about to be
\* uploaded.
UploadPending(k, timer, f) == f \in Local(k) /\ f \in timer

Newer(mtime, known) == mtime <= 0 \/ mtime > known

Request(c, kind, f, n, e, mtime) ==
    [client |-> c, kind |-> kind, feed |-> f, op |-> n, parent |-> e.parent,
     mtime |-> mtime, result |-> Waiting]

Requests(c, k, ix, n) ==
    {Request(c, "getFeed", f, n, ix.feeds[f], ix.feeds[f].feedMtime) :
        f \in {f \in DOMAIN ix.feeds : /\ ~UploadPending(k, k.feedTimer, f)
                                       /\ Newer(ix.feeds[f].feedMtime, k.feedMtime[f])}}
    \union
    {Request(c, "getState", f, n, ix.feeds[f], ix.feeds[f].stateMtime) :
        f \in {f \in DOMAIN ix.feeds : /\ ~UploadPending(k, k.stateTimer, f)
                                       /\ Newer(ix.feeds[f].stateMtime, k.stateMtime[f])}}

\* Feeds the index has are no longer to be imported; those it lacks are
\* uploaded, but only if they are children of the root.
Imported(k, ix) ==
    LET initial == k.initial \ (DOMAIN ix.feeds \intersect Local(k))
        missing == initial \intersect FeedsIn(k, Top)
    IN  [k EXCEPT !.folders = @ \union ix.folders, !.initial = initial,
                  !.feedTimer = @ \union missing, !.stateTimer = @ \union missing]

\* webdav_merge_op_finalize(); s are the jobs left.
Finalize(c, k, s, op) ==
    LET clean == CleanedUp(k, op.index)
        active == [clean EXCEPT !.login = IF @ = "IN_PROGRESS" THEN "ACTIVE" ELSE @]
    IN  /\ client' = [client EXCEPT ![c] = IF op.error THEN clean ELSE active]
        /\ jobs' = IF op.error THEN s ELSE s \union {PutIndex(c, clean)}

Without(op, n) == [x \in DOMAIN op \ {n} |-> op[x]]

\* webdav_subscription_process_update_result()
PollResult(j) ==
    LET c == j.client
        k == client[c]
        ix == j.result.body
    IN  /\ j.kind = "poll" /\ j.result.status = "ok" /\ Parses(ix)
        /\ \E n \in 1..MaxOps :
              LET op == [index |-> ix, error |-> FALSE, known |-> j.result.known]
                  asked == Requests(c, k, ix, n)
              IN  /\ n \notin DOMAIN ops[c] /\ \A x \in 1..(n - 1) : x \in DOMAIN ops[c]
                  /\ IF asked = {}
                     THEN Finalize(c, Imported(k, ix), jobs \ {j}, op) /\ UNCHANGED ops
                     ELSE /\ client' = [client EXCEPT ![c] = Imported(k, ix)]
                          /\ jobs' = (jobs \ {j}) \union asked
                          /\ ops' = [ops EXCEPT ![c] = Put(@, n, op)]
        /\ UNCHANGED <<server, clock, budget>>

PollInvalid(j) ==
    /\ j.kind = "poll" /\ j.result.status = "ok" /\ ~Parses(j.result.body)
    /\ LoginFailed(j.client)
    /\ jobs' = jobs \ {j}
    /\ UNCHANGED <<ops, server, clock, budget>>

\* Errors, 401 too, end in subscription_process_update_result(), which leaves the
\* login state as it is: webdav_subscription_process_update_result() is called only
\* with data and a status below 400, and fails the login if that is not 200.
PollFails(j) ==
    /\ j.kind = "poll"
    /\ \/ Works /\ j.result = NotFound /\ UNCHANGED client
       \/ Fails /\ j.result = Waiting /\ (UNCHANGED client \/ LoginFailed(j.client))
    /\ jobs' = jobs \ {j}
    /\ UNCHANGED <<ops, server, clock>>

\* webdav_merge_op_resolve_parent(): the index entries have been freed by now.
\* The folder is found if their memory still is as it was.
ResolvedParents(k, j) == {Top} \union ({j.parent} \intersect k.folders)

\* webdav_node_from_feed_json(): a known node is moved.  Moving updates node
\* and folders.
FeedMerged(k, j, place) ==
    LET f == j.feed
        placed == [k EXCEPT !.tree[f] = place, !.feedMtime[f] = j.mtime]
    IN  IF f \in Local(k) /\ k.tree[f] # place THEN NodeUpdated(placed, f) ELSE placed

MoveJobs(c, k, k2, f) ==
    IF f \in Local(k) /\ k.tree[f] # k2.tree[f]
    THEN FolderUpdated(c, k2, f) \union (IF k.tree[f] \in Folders THEN {PutIndex(c, k2)} ELSE {})
    ELSE {}

StampedMerged(k, j) == [k EXCEPT !.feedMtime[j.feed] = IF j.mtime > 0 THEN j.mtime ELSE 1]

\* A file that is not there is no error, and will be asked for again.
NotFoundMerged(k, j) == k

\* webdav_async_merge_state_result(): marks are only ever added, to the items
\* the feed has by now.
StateMerged(k, j) ==
    LET f == j.feed
        new == IF f \in k.loaded THEN j.result.body \ k.marks[f] ELSE {}
        merged == [k EXCEPT !.marks[f] = @ \union new, !.stateMtime[f] = j.mtime]
    IN  IF new = {} THEN merged ELSE NodeUpdated(merged, f)

StateJobs(c, k, j) ==
    IF j.feed \in k.loaded /\ ~(j.result.body \subseteq k.marks[j.feed])
    THEN FolderUpdated(c, StateMerged(k, j), j.feed) ELSE {}

CompleteOneLost(j, k, more, error) ==
    LET c == j.client
        op == ops[c][j.op]
    IN  /\ jobs' = (jobs \ {j}) \union more
        /\ client' = [client EXCEPT ![c] = k]
        /\ ops' = IF JobsOfOp(c, j.op) = {j} /\ ~error THEN [ops EXCEPT ![c] = Without(@, j.op)] ELSE ops

\* webdav_merge_op_complete_one() after the request j; the last one ends the
\* merge.
CompleteOne(j, k, more, error) ==
    LET c == j.client
        op == [ops[c][j.op] EXCEPT !.error = @ \/ error]
        left == (jobs \ {j}) \union more
    IN  IF JobsOfOp(c, j.op) = {j}
        THEN Finalize(c, k, left, op) /\ ops' = [ops EXCEPT ![c] = Without(@, j.op)]
        ELSE /\ client' = [client EXCEPT ![c] = k] /\ jobs' = left
             /\ ops' = [ops EXCEPT ![c][j.op] = op]

FeedResult(j) ==
    LET k == client[j.client]
    IN  /\ j.kind = "getFeed"
        /\ UNCHANGED <<server, clock>>
        /\ \/ /\ Works /\ j.feed \in server.nodes
              /\ \E place \in ResolvedParents(k, j) :
                    LET k2 == FeedMerged(k, j, place)
                    IN  CompleteOne(j, k2, MoveJobs(j.client, k, k2, j.feed), FALSE)
           \/ /\ Works /\ j.feed \notin server.nodes
              /\ CompleteOne(j, NotFoundMerged(k, j), {}, FALSE)
           \/ Fails /\ CompleteOne(j, k, {}, TRUE)

StateResult(j) ==
    LET k == client[j.client]
        applies == j.result.status = "ok" /\ j.feed \in Local(k)
    IN  /\ j.kind = "getState"
        /\ UNCHANGED <<server, clock>>
        /\ \/ /\ Works /\ applies
              /\ CompleteOne(j, StateMerged(k, j), StateJobs(j.client, k, j), FALSE)
           \/ Works /\ ~applies /\ j.result # Waiting /\ CompleteOne(j, k, {}, FALSE)
           \/ Fails /\ j.result = Waiting /\ CompleteOne(j, k, {}, TRUE)

-----------------------------------------------------------------------------
Process(j) ==
    \/ UploadPut(j) \/ UploadFails(j) \/ IndexPut(j)
    \/ BootstrapMkcol(j) \/ BootstrapIndex(j) \/ BootstrapFails(j)
    \/ PollResult(j) \/ PollInvalid(j) \/ PollFails(j)
    \/ FeedResult(j) \/ StateResult(j)

User ==
    \E c \in Clients :
        \/ \E f \in Feeds : \E i \in Items : ItemChanged(c, f, i)
        \/ \E f \in Feeds : RemoveNode(c, f) \/ \E p \in Places : AddSubscription(c, f, p)
        \/ \E d \in Folders : AddFolder(c, d)

Own ==
    \E c \in Clients :
        \/ Login(c) \/ Poll(c) \/ Restart(c)
        \/ \E f \in Feeds : Download(c, f) \/ FlushFeed(c, f) \/ FlushState(c, f)

Next == User \/ Own \/ \E j \in jobs : Serve(j) \/ Process(j)

Spec == Init /\ [][Next]_vars

-----------------------------------------------------------------------------
\* What the variables may hold; without the bodies of requests.
TypeOK ==
    /\ \A c \in Clients :
        /\ client[c].tree \in [Feeds -> Places \union {Absent}]
        /\ client[c].folders \subseteq Folders /\ client[c].marks \in [Feeds -> SUBSET Items]
        /\ client[c].login \in {"OFF", "NONE", "IN_PROGRESS", "ACTIVE", "AUTH_FAILED"}
        /\ client[c].loaded \union client[c].initial \subseteq Feeds
        /\ client[c].feedMtime \in [Feeds -> 0..MaxClock]
        /\ client[c].stateMtime \in [Feeds -> 0..MaxClock]
    /\ server.nodes \subseteq Feeds /\ DOMAIN server.state = DOMAIN server.writer
    /\ \A j \in jobs : j.client \in Clients

\* A mark of a client is on the server, or its upload is scheduled or under
\* way, through restarts, merges and other uploads.  Excused are a state file
\* that another client wrote last, and a feed with a failed upload or with two
\* at once, of which the older one may arrive last.
MarksAreUploaded ==
    \A c \in Clients : \A f \in Local(client[c]) \ client[c].excused : \A i \in client[c].marks[f] :
        \/ f \in client[c].stateTimer
        \/ f \in DOMAIN server.writer /\ (i \in server.state[f] \/ server.writer[f] # c)
        \/ \E j \in JobsOf(c) : /\ j.kind = "upload" /\ j.feed = f /\ j.what = "state"
                                /\ i \in j.body

\* A merge that ends without an error leaves out no feed: each one that the
\* index lists and whose file was there is in the tree, or was removed here.
NothingMissing ==
    [][\A c \in Clients : \A n \in DOMAIN ops[c] :
         (/\ n \notin DOMAIN ops'[c] /\ budget' = budget
          /\ ~ops[c][n].error)
         => DOMAIN ops[c][n].index.feeds \intersect ops[c][n].known
                \subseteq Local(client'[c]) \union client'[c].removed]_vars

\* No merge waits for nothing: it has requests under way until it ends, so its
\* data is freed and the login that it belongs to can become active.
MergesGoOn ==
    \A c \in Clients : \A n \in DOMAIN ops[c] : JobsOfOp(c, n) # {}

\* webdav_source.c says of item states that they are merged by union and never
\* cleared by synchronisation.  So when all is exchanged, and a poll would fetch
\* nothing and write the index as it is, the clients have the same marks.
Settled(c) ==
    /\ client[c].login = "ACTIVE"
    /\ client[c].feedTimer = {} /\ client[c].stateTimer = {}
    /\ Local(client[c]) = client[c].loaded
    /\ IndexOf(client[c]) = server.index
    /\ Requests(c, client[c], server.index, 1) = {}

AgreeWhenQuiet ==
    (jobs = {} /\ server.index # NoIndex /\ \A c \in Clients : Settled(c))
    => \A c, x \in Clients : \A f \in Local(client[c]) \intersect Local(client[x]) :
          client[c].marks[f] = client[x].marks[f]

=============================================================================
