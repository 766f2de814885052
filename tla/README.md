# A TLA+ model of Liferea

Liferea is a desktop feed reader written in C on GLib, GTK, libsoup, SQLite and
WebKit. This directory holds TLA+ models of the parts of it in which things
happen at the same time, late, twice, in another order or not at all; TLC
configurations that check the models on small instances; and proofs, checked by
TLAPS, of what matters most for instances of any size. Paths below are relative
to the repository's `src/`, so `subscription.c` is `src/subscription.c`.

Contents: 1 the system, 2 how it runs, 3 the modules and the code, 4 what the
runs show, 5 where the code disagrees with what it says, 6 what is proved,
7 what is not modelled, 8 plan.

## 1. The system: inventory

For each part: its state, its operations, whom it talks to, what is hard about
it and what makes it correct; in brackets the module that models it.

**Update job queue** (`update_job_queue.c`, `update_job.c`) [`JobQueue`]. State:
the list `queue->jobs` with two counters, three thread pools (normal, high
priority, results), the idle sources of the main loop, and per job its state,
callback, owner and flags. Operations: create a job or a flow, cancel by owner,
execute, filter, finish or fail, hand over to the main loop, run the callback,
continue a flow, finalize. Everything that downloads uses it. Hard: three groups
of threads share the job; cancelling only clears a pointer that others look at
later; the list has no lock; shutdown happens in the middle of anything. Correct:
a callback runs only for an owner that exists and still wants it, one at a time,
in the main loop; cancelling finds every job; the counters shown in the header
bar are right; shutdown ends.

**Command execution** (`update_job.c`) [`CommandJob`]. A source that starts with
`|` is run as a command. State: child process, pipe, four GLib sources (child
watch, output watch, timeout, reap timer) and the ids the job keeps of them.
Hard: the sources are attached by a worker thread while the main loop already
dispatches them, fire in any order, and the job may be cancelled or freed in
between. Correct: the pipe is closed once, the status is right, the job ends.

**Updating a subscription** (`subscription.c`, `feed_parser.c`,
`node_providers/feed.c`, request and answer in `net.c`) [`Subscription`]. State:
source, update job, validators (ETag, Last-Modified), error flag, discontinued
mark, discovery counter, feed handler, items. Operations: update, process the
result, discover a feed on a page, follow a redirect, edit the source, store and
load. Hard: the answer belongs to the state the subscription had when it asked;
discovery asks again from inside the callback of the previous answer; validators
are kept when content was not; half of the state survives a restart, from two
different places. Correct: one update at a time; lost content is fetched again or
flagged; discovery ends; a feed that exists is shown in the end.

**Documents** (`feed_parser.c`, `parsers/`, `metadata.c`, `item.c`)
[`Documents`]. State while parsing: the item and the feed's metadata, extended,
overwritten or respected by one element after the other; after it: metadata and
dates that stay with the subscription. Hard: elements come in any order, several
name spaces write the same field, and data of the last document is left for the
next. Correct: what an item gets does not depend on the order of its elements
where the code says that one of them wins.

**Google Reader API accounts** (`node_sources/google_reader_api*.c`,
`theoldreader_source*.c`) [`ReaderEdit`]. State: login state, the queue of edits,
requests on their way. Operations: push an edit, request a token, post, process
the answer, poll item states and the feed list. Hard: each edit is two requests,
several of them overlap, polls are older than the edits they meet, requests
fail. Correct: every edit is sent once, the server ends up with what the user
wanted, polls do not undo edits for good.

**Accounts** (`node_source.c`, `google_source*.c`, `reedah_source*.c`,
`ttrss_source*.c`, `opml_source.c`) [`Accounts`]. State: login state and token,
the account's part of the tree, ids stored with its feeds, its OPML copy.
Operations: login, polls of the list, merges, subscribing and removing,
conversion to local feeds, saving, restart. Hard: the list of the server meets
changes of the user that are still on their way; logins and polls fail or cross;
conversion happens under answers that are to come. Correct: ids are stored when
they are known, logins end, the list settles on that of the server, a converted
account is left alone.

**WebDAV synchronization** (`node_sources/webdav_*.c`) [`WebDAVSync`]. Several
clients share one directory: an index and two files per feed. State: times of
the last uploads, timers, merges under way. Operations: delayed uploads, polls,
merges, initial import, login. Hard: no locks, no conditional requests, every
file is the last one written. Correct: merges end, marks get to the server, a
merge leaves out no feed.

**Feed list and counters** (`feedlist.c`, `node.c`, `node_providers/`,
`item_state.c`) [`NodeTree`, `FeedList`]. State: the tree of nodes with cached
unread counters and marks for a recount, two timers, the selected node, the
items in the database. Operations: merging, marking, adding, moving and removing
nodes and items, recount, save, restart. Hard: counters are recounted up to half
a second later, bottom up, from the database; what memory has is lost in a
crash. Correct: a counter that is not marked is right; marks are recounted;
items of local nodes survive.

**Item set merging** (`itemset.c`) [`FeedList`]: new items are compared with
those in the cache by id or content, old ones are dropped at the limit.

**Feed list view, feed list file and dialogs** (`ui/feed_list_view.c`,
`export.c`, `ui/ui_dnd.c`, `ui/subscription_dialog.c`) [`FeedListView`,
`SubscriptionSettings`]. State: the stores of rows that GTK asked for, the
selection of the widget and that of the feed list, which folders are open, the
OPML file, the settings in an open dialog. Hard: the widget only follows
signals, and its selection moves by itself. Correct: rows match the tree, the
highlighted node is the selected one, the list comes back after a restart.

**Search folders and item list** (`node_providers/vfolder.c`, `vfolder_loader.c`,
`rule.c`, `itemlist.c`, `ui/item_list_view.c`, `item_history.c`) [`SearchRules`,
`ItemView`]. State: the items of the search folder, its loader with an offset,
the shown items, rows, the selected item, a deferred removal, filters and sort
order. Hard: the folder is rebuilt in batches by an idle callback while items
come and go; removing a row moves the selection, which loads and marks another
item. Correct: a finished rebuild holds exactly the matching items, a shown feed
is listed completely, a rebuild ends.

**Database** (`db.c`, `comments.c`) [`Database`]. State: tables, triggers, the
schema version. Operations: opening, migrations from each old schema, cleaning,
storing and removing items, their metadata and comments. Hard: the process may
die between any two statements. Correct: no article is lost, the program starts,
comments are fetched once.

**Web view** (`ui/browser_tabs.c`, `ui/liferea_browser.c`, `ui/content_view.c`,
`browser_history.c`, `webkit/`) [`Browser`]. State: tabs, and in each the
location, history and bars; the web process behind each view and its D-Bus
connection; what the headlines pane thinks it shows. Hard: loads are committed
later than they are asked for, and processes come, fail and go. Correct: bars
belong to the page, stepping through the history keeps it, pages are known.

**Networking** (`net.c`, `net_monitor.c`, `auth.c`, `download.c`): libsoup
sessions, redirects, a pause after a 429, proxies. The asynchronous answer is in
`JobQueue`, redirects and revalidation in `Subscription`.

**Icons** (`subscription_icon.c`, `favicon.c`), **enclosures** (`enclosure.c`),
**life cycle** (`liferea_application.c`, `main.c`, `dbus.c`, `conf.c`),
**plugins** (`plugins/`) and the rest of **the user interface** (`ui/`,
`actions/`): see section 7.

## 2. How it runs

One main loop runs all callbacks, timers and GTK. Worker threads execute jobs and
filters. libsoup works asynchronously on the main loop; commands are child
processes watched by it; web pages run in processes of their own. The feed list,
the database and the subscriptions are touched by the main loop only, with one
exception: a worker that finds its job cancelled frees it, and that changes
`queue->jobs`.

```
 user, timers, node sources
        |  subscription_update(), google_reader_api_edit_push(), flows, ...
        v
   update_job_new() --> queue->jobs, pool --> worker --> libsoup / command / file
                                                             |
   callback <-- idle source <-- result pool <-- update_job_finished()
        |
        v
   subscription_process_update_result() --> parsers --> itemset_merge_items()
                                                             |
   widgets <-- signals "node-added", "node-updated", ... <-- feed list, database
```

The models follow these seams. `AsyncRequest` says what a requester may rely on;
`JobQueue` implements it; `Subscription`, `ReaderEdit`, `Accounts` and
`WebDAVSync` use requests exactly as `AsyncRequest` allows (asked once, answered
once or never, callbacks one at a time in the main loop) and leave the queue out.
`CommandJob` looks inside the one way of executing a job that has its own
concurrency, and `JobListRace` inside the one operation that `JobQueue` takes as
a single step although the code does not. `Documents` is what `Subscription`
takes for granted about an answer, `FeedList` what happens to its items,
`FeedListView` and `ItemView` what the user sees of both. The operators about
trees that `FeedList` and `FeedListView` share are in `NodeTree`; `ItemView`
takes the rules from `SearchRules`, `FeedListView` the dialog and the OPML
attributes of a subscription from `SubscriptionSettings`.

## 3. The modules and the code

| module | models | its state in the code |
|---|---|---|
| `AsyncRequest` | abstract: what the queue promises | a request's phase; does its owner want it |
| `JobQueue` | `update_job_queue.c`, the life of a job in `update_job.c` | `jobs`, `currentJobCount`, `maxCount` = the queue's fields; `pool` = the unprocessed tasks of the thread pools; `idles` = pending `update_job_process_result_idle_cb`; `at` = who holds the job; `callback` = is `job->callback` set |
| `JobListRace` | `queue->jobs` as linked memory without a lock | `head`, `next`: the list; `op`: a thread between its walk and its write |
| `CommandJob` | `update_exec_cmd()` and its four GLib sources | `worker` = the next statement of `update_exec_cmd()`; `sources` = what the main loop has attached; `ids` = what `job->cmd` knows of it |
| `Subscription` | one subscription, its update cycle, and the web | the fields of `struct subscription`; `jobs` = its update jobs; `site` = what is served; `saved` = the source and the handler in the feed list file |
| `Documents` | `feed_parser.c`, `parsers/`, `metadata.c`, `item.c` | `sub` = metadata, times and handler of the subscription; `kind`, `phase` = the parser loop; `item`, `items`, `title` = the fields of `feedParserCtxt` |
| `ReaderEdit` | `google_reader_api_edit.c` with TheOldReader's account | `queue` = `source->actionQueue`; `tokens`, `posts`, `answers` = requests on their way; `local`, `remote` = item and subscription states here and at the server |
| `Accounts` | `node_source.c`, google, Reedah, TinyTinyRSS and OPML accounts | `acct` = `struct nodeSource` and its subscription's state; `tree` = feeds and folders; `stored` = `subscription_metadata`; `saved` = the OPML copies; `edits` = requests on their way; `remote` = the server |
| `WebDAVSync` | `webdav_source*.c` on two clients and a server | `client` = tree, times, timers, login of each; `jobs` = requests; `ops` = `WebDAVMergeOp`; `server` = the files |
| `NodeTree` | operators on trees | a tree is a function from nodes to sequences of children |
| `FeedList` | `feedlist.c`, `node.c`, `node_providers/`, `itemset.c`, `item_state.c`, rows of `db.c` | `children`, `unreadCount`, `needsRecount` = the fields of `Node`; `db`, `nodeRows`, `folderItems` = tables; `saved` = the feed list file |
| `SubscriptionSettings` | `ui/subscription_dialog.c`, `subscription_export()`, `subscription_import()` | operators: a subscription to a form and back, to an outline and back |
| `FeedListView` | `ui/feed_list_view.c`, `export.c`, `ui/ui_dnd.c`, dialogs | `rows` = the `GListStore`s; `cursor` = the `GtkSingleSelection`; `selected` = `SELECTED`; `expanded` = `node->expanded`; `dialog`; `file` = `feedlist.opml` |
| `SearchRules` | `rule.c`, `ui/rule_editor.c`, `itemset_check_item()` | operators: rules on items, edits of a list of rules |
| `ItemView` | `itemlist.c`, `ui/item_list_view.c`, `vfolder.c`, `vfolder_loader.c`, `item_loader.c`, `item_history.c` | `st` = one record: items and their flags, the folder's table, the loader, the item list, the rows, the history |
| `Database` | `db.c`, `comments.c`, `metadata.c` | `disk`, `work` = tables and triggers as committed and as the connection sees them; `todo`, `execs` = what is left of `db_init()` |
| `Browser` | `ui/browser_tabs.c`, `ui/liferea_browser.c`, `ui/content_view.c`, `browser_history.c`, `webkit/` | `pages` = the notebook; `browser` = per view URL, history, bars, load; `process` = its web process; `content` = `content_view`'s fields |

The proofs about a component are in a module that extends it and `TLAPS`:
`JobQueueProofs` (which also has those about `CommandJob`), `SubscriptionProofs`,
`DocumentsProofs` (also `Accounts`), `FeedListProofs` (also `ReaderEdit`),
`ItemViewProofs`, `BrowserProofs`, `WebDAVSyncProofs` and `DatabaseProofs`
(section 6). Where two components share a proof module, the specification of one
carries the component's name: `CommandSpec`, `DocumentsSpec`, `FeedListSpec`.

Each action is one handler or one stretch of it between two points where others
can interfere. Some correspondences that are not obvious:

* `JobQueue`: `Execute` is the thread function `update_job_execute()` with its
  possible outcomes; `Finish` is `update_job_finished()`, `WorkerFilter` and
  `WorkerFiltered` its external filter; `ResultTake` and `ResultHand` are the
  result pool; `Dispatch`, `CallbackDone` and `CallbackAgain` are the idle callback
  split around the result callback, since that may cancel and create jobs itself.
  `SetCounts` includes the correction made by `update_job_queue_get_count()`, which
  the handler of "update-running" calls. `Finalize` and `PoolFreed` are
  `update_job_queue_finalize()`.
* `CommandJob`: `Attach` and `StoreId` are the two halves of
  `job->cmd.x = g_..._add (...)`. A worker thread is between them while the main
  loop may dispatch the source. The pipe is read in a blocking loop
  (`update_job.c:225-257`), so `OutWatchRead` takes the main loop until
  `OutWatchEnd`.
* `ReaderEdit`: `Pushed` is the end of `google_reader_api_edit_push()`;
  `TokenAnswer` is `..._token_cb()`, which posts whatever edit is at the head by
  then; `Server(k)` is external. Polls are taken at one moment and merged at
  another.
* `Subscription`: the six outcomes of `subscription_process_update_result()` are
  six actions; which one happens follows from the answer. `LinkFound` is discovery:
  `feed_parser.c:154` starts the next update before the callback it is in has
  stored its validators. The timer, the user and the authentication dialog all come
  down to `UpdateDue`.
* `Documents`: one action reads one element, in the loop of the parser that the
  root element chose; an element is a record whose handler is an operator. Texts
  have a length, since `metadata.c` and `item.c` compare lengths.
* `Accounts`: the type of an account is a record of what differs between the
  types (does it log in, does it store ids, what a removal asks for), so that an
  action is the shared code of `node_source.c` with the type's method in it.
* `WebDAVSync`: `Serve` is the server taking a request, `Process` the client
  taking the answer; in between anything happens. Two poll timers and two upload
  delays per feed are actions that their timers enable.
* `FeedList`: `RecountTimer` is `feedlist_flush_pending_node_recounts_cb()` with all
  its levels; `Update` is `itemset_merge_items()` with the truncation, the duplicate checks and
  the limit; `Restart` is an orderly end or a kill, then `db_init()`'s cleaning and
  the loading of the file.
* `FeedListView`: the widget is a record that operators turn into the next one,
  one operator per signal handler. What GTK decides is a choice: rows that vanish
  while open may or may not report that they close (`told`), and selecting no row
  may keep the old one (`kept`).
* `ItemView`: a handler is a cascade of signals, hence an operator on the whole
  state; `LoaderFetch` is one call of the idle callback.
* `Database`: one action executes one SQL statement, on what the connection sees;
  `Crash` is possible between any two.
* `Browser`: `Committed` is "load-changed" with WEBKIT_LOAD_COMMITTED, for the
  last or for a superseded load; `Announced` is the web extension's signal.

Abstractions worth knowing. In `JobQueue` a list operation is one step, which is
what the code would do with a lock; `JobListRace` shows what the missing lock
allows. In `Subscription` ETag and Last-Modified are one token that identifies URL
and content; a server may recognise the token of another URL (comparing dates
does); items are never dropped from the cache. History variables, which no guard
reads, are marked in the modules (`overlooked`, `undated`, `articles`, `excused`,
`forgotten`, ...); they let a property name what is known to go wrong, so that it
says exactly what holds.

Operators whose comment says "mutant", or that stand before a definition with the
same parameters and a telling name (`CanBeUpdatedGone`, `TriesUncounted`,
`InsertNodeItemLast`, ...), are wrong variants of it. They are not used by the
specifications: putting one of them in makes the property listed for it in
`PROJECT.json` fail, which shows that the property sees the code it is about.

## 4. What the runs show

| run | instance | states | what holds |
|---|---|---|---|
| `MCJobQueue` | 2 jobs, 2 owners, feed and favicon flags, 1 thread per pool, 1 continuation | 418,544 | no callback for a freed owner (`NoCallbackForDeadOwner`), right counters (`CountsMatchList`), `AsyncRequest` is implemented (`KeepsPromise`), shutdown ends |
| `MCCommandJob` | 1 job, 2 chunks of output | 2,178 | the pipe is closed once, a timeout is reported as one, a command ends |
| `MCSubscription` | 2 URLs, 7 documents, 2 interventions, 2 redirects | 210,311 | one update at a time, lost content is flagged, discovery without a handler is limited, the feed is shown |
| `MCDocuments` | documents of every format, 2 in a row, 4 elements | 1,354,869 | the date of an Atom entry does not depend on the order of its dates; undated items of an RSS document agree |
| `MCReaderEdit` | 1 item, 1 feed, 2 edits | 137,066 | edits are sent, once; the server ends as wanted; polls agree in the end |
| `MCAccounts` | 1 account of each type, 2 feeds, 1 folder, 1 server change, 1 event, 1 restart | 51,217 | ids are stored when known, logins end, the list settles, converted accounts are left alone |
| `MCWebDAVSync` | 2 clients, 1 feed with 1 item, 1 folder; a new, a joined and a shared account | 3,096,624 | merges go on until they end, marks get uploaded, a clean merge leaves out nothing |
| `MCFeedList` | 7 nodes of all kinds, 3 downloads, limit 2, 3 steps | 64,504 | unmarked counters are right, marks are recounted, local items survive, all is marked read |
| `MCFeedListView` | 8 nodes, 2 sources, 3 steps | 39,714 | rows match the tree, the highlight is the selection, the list comes back |
| `MCItemView` | 4 items (3 at first), 1 feed, 1 search folder with up to 2 rules, 5 steps | 358,816 | a rebuilt folder is exact, a shown feed is complete, a rebuild ends |
| `MCDatabase` | no file, and files of version 4, 5 to 11 and a newer one, 2 crashes | 75,810 | articles survive, the program starts with a file it supports (but for the two cases of section 5), comments are fetched once |
| `MCBrowser` | headlines and 1 tab, 3 URLs of which 1 is a download, 4 operations | 1,208,942 | bars belong to the page, history steps keep the locations, pages are known |

The bounds, and why they are enough.

* `MCJobQueue`: two jobs and two owners give every pair of a job being cancelled or
  freed and another one anywhere else; jobs interact only through the queue, the
  counters and the threads, and one thread per pool already makes them wait for
  each other. A second continuation repeats the first. `MCCommandJob`: two chunks
  allow output that was read, output that was not, and an error in between.
* `MCSubscription`: two URLs make redirects, links to each other (a circle) and a
  moved source; the documents are two versions of a feed, pages with a link, with a
  link and items of their own, a moved and a gone URL. Two interventions are enough
  for an edit followed by a restart, or a damaged answer followed by a repaired
  site; `MaxJobs` is 2 although one suffices, so that a second job would be seen.
  The proofs of section 6 remove the bounds for safety. `MCSubscriptionCircle` has
  three pages that link to each other and nothing else changes: the circle needs no
  intervention, only a handler, and that is recognised on a page that has items.
* `MCDocuments`: conflicts are between two elements that write one field and a
  third that sets the date of the feed; what one document leaves to the next needs
  two documents.
* `MCReaderEdit`: two edits are enough for a pair in the wrong order, two tokens on
  their way and a poll between edits; a third gives several million states.
* `MCAccounts`: one event, one change at the server and one restart in every order
  with logins and polls. A longer conflict is a sequence of such pairs, since a
  poll compares the tree with the list and keeps nothing of earlier ones.
* `MCWebDAVSync`: conflicts are between two clients about one file; two requests at
  a time per client are needed for one that overtakes the other.
* `MCFeedList`, `MCFeedListView`, `MCItemView`, `MCBrowser`: three to five steps of
  the user, between them all that timers and callbacks do. There is at least one
  node of each kind that the code distinguishes, nesting of two folders, an item
  beyond the batch (`Batch` is 1) and beyond the cache limit. `MaxProcesses` is 1 in
  `MCBrowser`: loads do not depend on web processes, and what is said of processes
  is about one view each.
* `MCDatabase`: two crashes put one into a migration and one into the repair.
  Version 12 stands for every newer one, 4 for every one too old. The two runs for
  `FatalIsUnsupported` begin without a file and with version 5 or 6.

`MCFeedListView` also evaluates an assumption, `SavedUnchanged`: saving the
subscription dialog as it was opened changes nothing, for a table of sources,
intervals, cache limits, filters and all sets of options.

Fairness, and why the code justifies it. `JobQueue`: threads of a GLib pool take
tasks as long as there are some; downloads end because libsoup has a timeout and
commands have one; idle sources are dispatched; nobody is obliged to request,
cancel or quit. `CommandJob`: threads run, timers fire, a child that was sent
SIGKILL dies; a child that was not may run for ever, which is why
`UnreadCommandEnds` excludes a child that wrote something and then hangs with its
output open: it keeps the main loop in the read loop, and no timer fires.
`ReaderEdit`: requests are answered or fail, feeds are polled. The login is not
assumed to succeed. `Subscription`: the update timer is periodic and requests end; nobody
is obliged to save the feed list. `FeedIsShown` is under two more conditions,
stated in it: the site does not answer 410, and the validators are not those of
another URL or of lost content. Both exceptions are real. `DiscoveryEnds` is
violated under the same fairness: each download ends, and the next one follows. `FeedList`: the recount
and save timers fire. `ItemView`: the loader's idle callback is called.
`Accounts`: the poll timer fires, a login request and a request for the list are
answered or fail, an answer is merged. All other modules are checked for safety
only and state no fairness.

`ItemsAsWanted` speaks of times when nothing is on its way and no request ever
failed or was overtaken by a later one. Posts are requests of their own, and
nothing keeps a server from applying two of them in the other order
(`google_reader_api_edit.c:358-360`, `410-411`).

## 5. Where the code disagrees with what it says

Each row is a property taken from a comment, a header or a test that TLC finds
violated by what the code does. Where a configuration is named, `tlc -config X.cfg M`
with the module in the second column shows the behaviour. Where none is, put the
property in place of those in that module's own configuration (for `CommandJob` with
`SPECIFICATION CommandSpec`, for `Subscription` with `SPECIFICATION Spec`, as no
fairness is needed):
`ReapTimerHasJob`, `SuccessIsComplete`, `SummaryIsFallback` and
`DeferredIsSelected` are invariants; `AnswersAreCurrent`, `MovedForGood`,
`RepeatAddsNothing` and `ListedItemsSurvive` are properties.

| configuration, property | module | the text | the code |
|---|---|---|---|
| `MCJobQueueLost`, `ExecutionFinishesJob` | `MCJobQueue` | `update_job.c:450-453`: execution methods "pass the processed job to update_job_finished/failed() for result dequeuing" | a command that cannot be spawned returns without (`update_job.c:354-358`): the job, and the subscription, wait for ever |
| `MCJobListRace`, `CancelFindsEveryJob` | `MCJobListRace` | `update_job_queue.h:64`: "Cancel all pending requests for the given owner." | a worker's `g_slist_remove()` (`update_job_queue.c:167`) meets the main loop's `g_slist_append()` (line 112) and a live job is no longer in the list |
| `ReapTimerHasJob` | `CommandJob` | `update_job.c:304`: "Catch zombies: force complete after timeout + 5 seconds grace" | the id of the timer is not kept; it fires after the job was freed |
| `SuccessIsComplete` | `CommandJob` | test `tc_script_ok` (`src/tests/update.c:47`) expects the script's output with status 200 | hang-up is looked at before the data (`update_job.c:220`): a quick script loses output and is still a success |
| `MCReaderEditFeeds`, `SubscriptionsAsWanted` | `MCReaderEdit` | `google_reader_api_edit.c:33-35`: edits "are put in a queue and processed in sequential order" | subscription edits are pushed to the head (lines 535, 567): two that wait together are sent in reverse |
| `MCSubscriptionCircle`, `DiscoveryEnds` | `MCSubscription` | `subscription.h:66`: "counter to break auto discovery redirect circles" | a handler left from an earlier document, or read from the feed list at the start (`subscription.c:547`), resets the counter (`feed_parser.c:303-305`): a circle of links is followed without end |
| `MCDatabaseFirstStart`, `FatalIsUnsupported` | `MCDatabase` | `db.c:273`: "This version of Liferea doesn't support migrating from such an old DB file!" | the file is this version's own: its table `info` and its version -1 are written by two statements, each committed alone (`db.c:138-143`); after a death in between the version is 0 and every start ends there |
| `MCDatabaseTriggers`, `FatalIsUnsupported` | `MCDatabase` | `db.c:276`: "dropping triggers in preparation of database migration"; only versions before 5 are refused (line 272) | the triggers of versions 5 and 6 are dropped in a transaction of their own; after a death before the migration the next `DROP TRIGGER` fails, its transaction stays open, every `BEGIN` fails and each start ends at line 462 |
| `AnswersAreCurrent` | `MCSubscription` | `subscription.h:147-149`: cancel "when removing subscriptions or retriggering the update upon user request" | the dialog does not cancel; the new update is refused, the old answer is merged |
| `MovedForGood` | `MCSubscription` | `net.c:133`: "FRB130: permanent HTTP 301"; `subscription.c:257` | the status noted at the redirect is overwritten (`net.c:197`) before it is read |
| `ListedItemsSurvive` | `MCFeedList` | `db.h:219-220`: clean "by comparing all DB nodes of a default source against the in-memory feed list of this source" | all rows are compared, and feeds of remote accounts are not looked for (`db.c:1683`): their rows go at every start and their items at the next, unless a feed is updated in between |
| `RepeatAddsNothing` | `MCFeedList` | `itemset.c:362-367`: downloads are truncated as items might be "dropped and added again on subsequent merges with the same feed content" | the limit is applied to the download alone (line 408) and the oldest by date are dropped, so an entry with an old date is added anew by every update |
| `DeferredIsSelected` | `MCItemView` | `itemlist.c:515-516`: "set a flag to do it when unselecting" | `itemlist_select_next_unread()` and `itemlist_select_from_history()` (442, 634) select without looking at the flag; the item selected next is deleted instead |
| `MCWebDAVSyncQuiet`, `AgreeWhenQuiet` | `MCWebDAVSync` | `webdav_source.c:59`: "read/flagged bits are sticky, never cleared by sync" | an upload replaces the file unread, and a late answer sets its time back (`webdav_source_feed_list.c:656`): the clients stay different with nothing left to exchange |
| `MCAccountsShared`, `MergeIsComplete` | `MCAccounts` | `node_source.h:367`: "Find a folder by the name under parent or create it." | the folder is looked up by type and name in all of the feed list (`node_source.c:579-580`): two accounts of a type share it, and each poll of one undoes the other |
| `SummaryIsFallback` | `MCDocuments` | `parsers/atom10.c:410`: "if there is no <content> description we show the <summary> content" | the longer of the two is shown (`item.c:135`) |
| `MCBrowserSelection`, `SelectionIsShown` | `MCBrowser` | `ui/content_view.c:29-30`: "updates automatically when the user selects a new item or node" | item and node are each compared with the last one of their own kind (line 73): item i, node m, item i again leaves the page of m |

More that was found while modelling; none of it is a property here, because it is
about one function, a crash of the process, or something left out of the models.

* Updating: the test for a missing Retry-After is inverted (`net.c:215`); the number
  of new items is left from the last successful update (`subscription.c:317`);
  after the reap timer the child watch finishes a command again
  (`update_job.c:286`); `db_update_state_load()` reads its columns shifted by one
  after the ETag.
* Documents: `rel="edit"` and `rel="next"` overwrite the alternate link of an Atom
  entry; monthly update periods count seven times too few; a picture of Media RSS
  depends on the order of elements; RSS item `<category>` is ignored; the Gopher
  parser stops after 26 items and its error returns never finish the job; feed
  metadata that is appended never goes away; undated Atom entries before the
  feed's date take that of the document before.
* Subscription dialog: the button for commands is looked up by another name than it
  has (`feed_loc_cmd`, in `resources/ui/properties.ui` `feed_loc_command`), so a
  command can never be set as a source there (`DecodedSource` keeps the old one). An
  interval of 0 becomes a day. For feeds of accounts the page with the source is
  removed and never filled in but is read when the dialog is saved, which sets the
  source to "https:///". A dialog writes back the source it read when it was opened,
  over one that discovery has set meanwhile.
* Feed list: "Sort Feeds" and "Convert to local" of the menu get a null pointer; the
  setting of a news bin is not exported (`newsbin.c:56`) but imported, and lost at a
  restart; URL drops never add a subscription, although a comment says so; opening a
  folder schedules no save; deletion asks first and keeps the address of a node that
  a remote list may remove meanwhile (`feed_list_view.c:1125`).
* Search folders: loading one reads its `unreadOnly` from the node instead of the
  search folder (`itemlist.c:395`), without effect, as the filter that is set then is
  not looked at while a search folder is shown; where any rule is enough, a negative
  one lets in what it should keep out (`itemset.c:469`), see `Negated`; rebuilding, or
  saving the dialog, while the folder loads crashes (`vfolder_loader_new()` returns
  NULL); an interrupted rebuild is not taken up after a restart; comments among the
  items of a folder are never removed, as the statement fails.
* Accounts: a Google account never logs in (it lacks the capability), so its token is
  NULL; the second request of a TinyTinyRSS poll stays in `updateJob`, and the list
  is not polled again; two logins at once end in an assertion
  (`node_source.c:331`); conversion to local feeds cancels the requests of the feeds
  but leaves their `updateJob` set (`node_source.c:648-649`), so that a feed whose
  download was under way is not updated until the next start; Reedah and TinyTinyRSS go on into a folder that was freed
  because it was empty. `Accounts` has them as what the types do, or as crashes.
* WebDAV: a first login with an error stays in progress for good, against the
  comment in `webdav_source_feed_list.c:715`; the index is uploaded before the remote
  one is read at the start; only direct children of the root are imported; removed
  feeds come back after a restart; item states that arrive before the items are
  dropped, but their time is kept.
* Database: stale metadata rows beyond a shorter list come back; "fetching" as the
  state of comments survives a crash, so comments that were being fetched are not
  fetched again. `StartSucceeds` allows for the two ends of the table above, after a
  crash, and for no other.
* Web view: closing a tab by its button closes the last page (`browser_tabs.c:102`);
  after a search the headlines browser still has its URL, and the commit shows the
  toolbar and adds it to the history (`BarsMatchPage` excludes it); the download
  handler is connected once per view to the shared session; a monitor reopened
  within a second has two timers.
* Icons: the list of URLs already tried, "used for lookup to avoid loops", is never
  looked up; only its length ends the search.

## 6. What is proved

Eight modules hold the proofs, each named after the first one it is about; TLAPS
checks every leaf. TLC shows a property on a small instance, the theorem shows it for every
value of the constants. The constants are assumed to be what the modules name, and
TLC evaluates the same assumptions in its runs:

| assumption | says |
|---|---|
| `JobQueueAssumption` | finitely many jobs, flags of the right shape, at least one thread |
| `SubscriptionAssumption` | a null URL that is none, documents of the right shape, permanent redirects lead to a URL, bounds that are numbers |
| `CommandJobAssumption` | the number of writes of a child is a number |
| `NodeTreeAssumption` | finitely many nodes, each of a known kind, one of them the root |
| `FeedListAssumption` | at the start a tree (`IsTree`: every node but the root has one place and none is below itself), items of the right shape in feeds or news bins of it, a cache limit of at least one item, bounds that are numbers |
| `ItemViewAssumption` | ids are numbers from 1 and the first ones are those stored at the start, no two of them with one guid; feed, folder and search folder are different nodes; a batch has at least one item |
| `AccountsAssumption` | the types of accounts are the four of the code; a folder is neither the top nor "absent"; a first login is possible, bounds that are numbers |
| `ReaderEditAssumption` | items and feeds are different things, a bounded number of edits |
| `BrowserAssumption` | at least one view, numbered; the help page is a page; URLs, nodes, items and the null value are different things |
| `WebDAVSyncAssumption` | the root and "absent" are no folders, trees at the start of the right shape, the owner is a client, bounds that are numbers |
| `DatabaseAssumption` | the ids are 1 to some number, each has a feed, any schema versions from 0 (no file) to one too new, metadata lists are sequences of keys with a value, bounds that are numbers |
| `WrapperAssumption`, `ElementsAssumption` | the elements have name spaces that are read; dates of entries are elements of Atom's own, and a `published` without a date is none (`atom10_parse_entry_published()` ignores it) |

The theorems that state a property of a run:

| module | theorem | property |
|---|---|---|
| `JobQueueProofs` | `OwnersAreAlive`, `CountsAreRight`, `Refinement` | `NoCallbackForDeadOwner`, `CountsMatchList`, `KeepsPromise` |
| `SubscriptionProofs` | `OneUpdate`, `LossIsFlagged`, `DiscoveryBounded` | `OneUpdateInFlight`, `LostContentIsFlagged`, `FreshDiscoveryEnds` |
| `JobQueueProofs`, about `CommandJob` | `DescriptorClosedOnce`, `TimeoutReported` | `ClosedOnce`, `TimeoutIsReported` |
| `FeedListProofs` | `CountersAreRight`, `AllReadMeansAll`, `LocalItemsAreSafe` | `CountersHold`, `MarkedAllRead`, `LocalItemsSurvive` |
| `FeedListProofs`, about `ReaderEdit` | `EditsSentOnce`, `ItemsEndAsWanted` | `EditsAreSentOnce`, `ItemsAsWanted` |
| `ItemViewProofs` | `RebuiltFolderIsExact`, `DisplayedFeedIsComplete` | `FolderIsExact`, `FeedListedCompletely` |
| `BrowserProofs` | `BarsAreRight`, `StepsKeep`, `PagesKnown` | `BarsMatchPage`, `StepsKeepLocations`, `PagesAreKnown` |
| `WebDAVSyncProofs` | `MergesHaveRequests`, `MarksUploaded`, `NoFeedMissing` | `MergesGoOn`, `MarksAreUploaded`, `NothingMissing` |
| `DatabaseProofs` | `ArticlesKept`, `StartsUnlessCut`, `CommentsOnce` | `ArticlesSurvive`, `StartSucceeds`, `CommentsFetchedOnce` |
| `DocumentsProofs` | `DatesAreOrderFree`, `OneDateForUndated` | `EntryDate`, `UndatedItemsAgree` |
| `DocumentsProofs`, about `Accounts` | `IdsAreSafe`, `LocalFeedsStay` | `IdsAreStored`, `ConvertedIsLeftAlone` |

The types of a component are a theorem of their own (`TypeCorrect`,
`CommandTypeCorrect`, `FeedListTypeCorrect`) or part of its invariant. What
follows is the argument of each: which strengthening is inductive, and why the
property alone is not.

*Job queue*, for any jobs, owners, flags, threads and continuations:
besides the above `QueuesAreExact`, `ListIsComplete`, `AssertionsHold`,
`ShutdownIsQuiet`, `NothingRunsAfterClose`, `CallbacksAreSerial`, and `Refinement`:
every behaviour is one of `AsyncRequest`. The invariants are not independent. That a
queue holds each waiting job once is inductive together with the types; with it,
taking a task from a queue is known to move exactly one job, from which follow the
list (a job is in it from its creation to its end), the job states, and the
counters; owners need the list, since cancelling reaches jobs through it. Quiet
shutdown needs the list, too. The refinement follows step by step: a step that moves
a job between two threads is a stutter of its phase.

*Subscription*, for any URLs, documents, limits and number of interventions; also
`GoneForGood`. The inductive invariant `IInv` adds to the properties what they need
to be preserved. `OneJob`: a job is there exactly when the subscription names it,
and then it is the only one; `OneUpdateInFlight` alone does not say that two jobs
cannot have the same id. `GoneIsIdle`: a discontinued subscription has no job, so
the only step that could start one is an edit, which lifts the mark.
`HopsAreTries`: without a handler, hops never exceed the tries counted, which is
what connects the limit on tries to the links followed in one run of the program
(`hops` counts those followed before a handler is known; the handler itself survives
a restart, in the feed list). What a handler does to the counter is the violation of
`DiscoveryEnds`.
`ValidatorsAccounted`: the validators a *request* carries are accounted for as
well, because a "not modified" answer brings them back later; without this part the
discovery step breaks the property, since it starts a request with the old
validators and then stores new ones.

*Command execution*, for any number of writes; also `ReadsOpenDescriptor`. The watch
and the timer both close the pipe, and what keeps them apart is that each detaches
the other by an id that is stored only after its source is attached. So the
invariant follows the order of `update_exec_cmd()`: nothing is attached before its
turn (`InTurn`), while the job lives a watch has its pipe open, and its id is known
before the timer can fire (`WatchHasFd`), the two timers follow each other
(`OneTimer`), and the job is passed on once for a child that exited and once for one
that was killed (`FinishedBy`).

*Google Reader edits*, for any items, feeds and number of edits; also
`RequestsAreFunded`. An edit is numbered when it is made (`Numbered`) and a number is
in one place (`Distinct`). Each token was asked for on behalf of one edit, although
its answer posts the head of the queue, whichever that is then (`TokensFunded`).
`ItemsAsWanted` needs the order: posts are ahead of the queue, and the last edit in
that line that decides about an item says what the user wants; where none is left,
the server has it (`InOrder`).

*Web view*, for any views, pages and number of operations. `Coherent` ties the parts
of a view together: the current location is one of its history (`Within`), the last
load under way ends at the URL the view names, or clears it (`LoadsEndAtUrl`), and a
view at rest shows it (`Settled`). `StepsMatch`: after a step in the history the view
names the location stepped to until it gets another one, so committing the page
changes nothing. `Announcements`: a page that is known was announced, and none waits
once the connection is there.

*WebDAV*, for any clients, feeds, folders and marks. A merge is in the table of merges
exactly as long as requests of it are under way (`Funded`), which is why its counter
reaches zero. Every feed of the index that has a file is here, was removed, or is
asked for (`Covered`). A mark of a feed whose upload is due no more is at the server
or in an upload (`MarksDone`); that an upload carries all those marks
(`UploadsComplete`) is what keeps it from undoing another one.

*Database*, for any items, feeds and old databases; `Invariant` is the inductive
invariant. A crash leaves what is committed, so the argument is about two states of
the tables at once: what is on disk is sound (`Sound`: well formed, with the tables
of its version, those that the migration creates missing, and all articles to be
kept in items or item sets), and what the open transaction has made of it is what
the statements already executed say (`MadeAt`). `db_init()` is divided into stages
(`Between`, `Stuck`, `NewFile`, `Migrating`, `Checking`, `Finishing`), each of which
says which statements are left. `Stuck` is the one in which a trigger that was to be
dropped is missing and leaves a transaction open.

`StartsUnlessCut` says which starts fail: those with a file that is not supported, and
those with one of two files that an earlier start left unfinished. Its invariant
`CutInv` follows what is on disk through the first statements of `db_init()`. As long
as no start has died a file is whole (`Whole`): it has its triggers, or it is not
there. A new file has its table and no version only after a crash (`FileCut`), an old
one has lost its triggers, without being migrated, only after a crash or while this
start is still at it (`TriggersCut`, `LaterCut`). So a fatal exit with a supported
version means a crash before and exactly one of these two files.

That comments are fetched once needs a second invariant on top, `FetchInv`: an item
fetched once more than its feed sent metadata carries the mark, on disk and in the
open transaction, or is no longer there. Three things keep this so. The mark is on
disk before the fetch starts, and whatever is stored later has it: `SetList` and
`SavedList` say that of the operators for lists of metadata, for lists of any length.
Fetches happen only once the schema is current, after which no migration runs again;
what remains of `db_init()` only takes items away with what is stored about them
(`EffectStays`). And no table holds an id above the last one given (`IdsGiven`, kept
by every statement of every migration: `EffectKeeps`), so a new item is never one
that was fetched before.

*Documents*, for entries and channels of any length. `EntryInv`: an entry has a
publication date exactly when one of its elements gave one; the lemma
`DatesOfElement` says of every element, of any name space, what it does to the dates.
`FeedInv`: which handler each parser loop has, and that while the items of an RSS
document are read the time of the feed stays what every undated one was given.

*Accounts*, for any accounts of a type, feeds, folders, logins, polls and restarts.
`AccountsInv`: in the tree every id that is known has its row (`IdsHaveRows`), for the
types that write one, and a converted account waits for no login or answer and has no
edit under way (`Quiet`). The second part is what makes `ConvertedIsLeftAlone`
provable: a late answer could otherwise bring the account back. Four ways of merging a
feed, one per type, share one lemma (`WithFeedsKeeps`): whatever a poll moves, adds or
drops is the polling account's (`Spares`), and every feed it gives an id to is among
those whose rows it writes. No part speaks of one copy per URL, so two accounts
that share a folder (section 5) and hold a URL twice are covered.

*Item list and search folder*, for any items, rules, duplicates and batch size. A
handler is an operator on the whole state, so the invariant is a predicate on states,
and there is one lemma per operator. In the middle of a handler neither property
holds: `Sound` therefore takes the items that the list may lack for now (`missing`),
those whose rows are gone but whose guids are not (`parting`), and whether the rules
have just changed; between handlers all three are empty (`IInv`). A shown feed lacks a
stored item only if its guid was left behind by one that the cache limit removed
(`Listed`). A folder that is being rebuilt has every matching item whose rank among
the stored ones is below the loader's offset (`Passed`); deleting items while it loads
shifts the ranks, which is what `disturbed` records. The loader ends when it finds
nothing at its offset; that it then has passed every item (`NothingLeft`) is shown
with the least item it has not, which exists because ids are numbers.

*Feed list*, for any tree, items, downloads and limits; the longest of the proofs.

* Trees. The counter of a folder and the ancestors of a node are defined by recursion
  over the tree, and that such a definition means anything is itself to be proved:
  `IsTree` says that no set of nodes lies below itself. From it every node gets a rank
  smaller than those of its children, hence the recursion has a solution and the
  equation of each node follows (`CountsAreNumbers`, `ItemsOfUnfold`), by induction
  over the ranks as a least counterexample. Moving, adding and removing a node keep
  `IsTree` (`MovedTree` and its likes), which is why "not below itself" is a guard of
  dragging.
* Counters. `CountersHold` is not inductive: a step changes the counter of one feed
  and thereby what every folder above should show. `MarksGoUp` is what is missing: a
  marked node has a marked parent, or one that is known to be overlooked. The recount
  then goes from the leaves upwards, and what it leaves alone is right because none of
  its children was marked. That merging adds no unread item elsewhere is an invariant
  of the merge, entry by entry (`Merging`), and that dropping items counts down what
  it should a lemma about the sizes of sets.
* "Mark all as read" visits only nodes whose cached counter is not zero; that it
  misses none is `CountersHold` used the other way round, with `ItemsComeFrom`: each
  item of a folder is an item of some node below it.
* Restarts. `LocalItemsSurvive` needs `RowsKept`: every local node of the tree has a
  row, and so has every node of the file that still has items. The second part is the
  hard one, since the file may be older than the tree when the program is killed.

Only model-checked:

* Liveness (`ShutdownEnds`, `UnreadCommandEnds`, `EditsAreSent`, `StatusAgrees`,
  `FeedIsShown`, `RecountsHappen`, `RebuildEnds`, `LoginsEnd`, `Settles`), as
  liveness under fairness and ENABLED are out of the prover's reach here.
* `FeedListView`: `RowsMatchTree`, `SelectionAgrees` and `ListComesBack`. The file is
  written and read by folds over the tree, and the widget is told of a subtree by
  folds over its rows, with a state as the accumulator. What they compute needs an
  induction over these data for each of them, as the one fold of `FeedList`, a sum,
  needed one.

No module declares a RECURSIVE operator; trees are walked by recursive functions.

## 7. What is not modelled

* The effect of "update-running" on widgets when a worker emits it; the race in
  which the child watch and the reap timer finish a command twice, beyond the
  moment the job is freed. A worker that frees a job while its GLib sources are
  being attached is visible in `CommandJob` as a source left behind.
* Content scraping, blogrolls, icons (a chain of downloads over guessed URLs, each
  through the job queue), enclosure downloads (one request with one callback each),
  `max-age`, the pause after a 429, proxies, the network monitor, the dialog that
  asks for a password.
* `ReaderEdit`: folders and labels beyond "subscribe in a folder", migration.
  `Accounts`: item states of accounts other than TheOldReader, restarts after a
  conversion, two accounts of one type (only in `MCAccountsShared`).
  `WebDAVSync`: nested folders.
* XML, HTML clean-up, encodings, date formats and URL resolution in `Documents`:
  library calls, or functions on strings.
* The results of the search dialog and the search box; unread-only folders hide
  items and keep them in the table, which `ItemView` follows.
* `FeedListView`: the feeds of remote accounts, whose lists have files of their own;
  the enabled state of menu actions, which follows the selection.
* `Browser`: tabs dragged before the headlines, full screen, context menus; rendering
  and scripts are WebKit's.
* `Database`: SQLite's own statements, vacuum, node and subscription rows (their
  effect is in `FeedList`).
* Plugins (libpeas interfaces without logic of their own), social bookmarking,
  preferences and D-Bus methods (each calls one operation modelled above), menus,
  toasts, layout.

`PROJECT.json` lists the hazards this work is about, each at its line, with the
properties that cover it.

## 8. Plan

1. Proofs: the handlers of `FeedListView` without their folds, so that
   `SelectionAgrees` can be stated for any tree.
2. `FeedList` and `FeedListView` composed, so that the widget is told by the same
   signals that the counters send; `Accounts` composed with `ReaderEdit`.
3. Icon search on top of `Subscription`, with the proofs of the latter carried over.
4. Larger instances: two accounts of different types, nested folders in
   `WebDAVSync`, three edits in `ReaderEdit`.
