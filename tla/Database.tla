------------------------------ MODULE Database ------------------------------
(***************************************************************************)
(* The cache database: opening it, the migration of old schemas, the       *)
(* cleanup on every start (db_init() in src/db.c), and what the running    *)
(* program then does with items, their metadata and their comments         *)
(* (src/db.c, src/metadata.c, src/comments.c), with the process dying      *)
(* between any two SQL statements.                                         *)
(*                                                                         *)
(* One db_exec() is a sequence of statements and stops at the first that   *)
(* fails.  Statements between BEGIN and END work on a copy that a crash    *)
(* throws away.  There is one search folder; the tables hold item ids.     *)
(***************************************************************************)
EXTENDS Integers, Sequences, FiniteSets

CONSTANTS
    Ids,                \* item ids, 1..n
    NodeOf,             \* the feed of each item
    Folder,             \* the search folder
    Comments,           \* the ids that are comments of old versions
    Matching,           \* the ids that the rules of the search folder select
    InitialVersions,    \* the schema versions found on disk, 0 without a file
    InitialItems,       \* the items that an old database holds
    InitialNodes,       \* the rows of table node
    FeedMetadata,       \* the metadata lists a feed may give to an item
    MaxSteps,           \* bound: operations of the running program
    MaxCrashes          \* bound: times the process dies or quits

Target == 11            \* SCHEMA_TARGET_VERSION

ASSUME DatabaseAssumption ==
    /\ Ids = 1..Cardinality(Ids) /\ Comments \subseteq Ids /\ InitialItems \subseteq Ids
    /\ DOMAIN NodeOf = Ids
    /\ InitialVersions \subseteq 0..Target + 1
    /\ FeedMetadata \subseteq Seq([k : STRING, v : STRING])
    /\ MaxSteps \in Nat /\ MaxCrashes \in Nat

VARIABLES
    disk,       \* what is committed
    work,       \* what the connection sees
    open,       \* is a transaction open?
    phase,      \* "off", "starting", "running" or "fatal"
    todo,       \* the rest of db_init()
    execs,      \* the db_exec() calls of the current block
    rebuild,    \* searchFolderRebuild
    loader,     \* the last id the search folder loader has read, or NotLoading
    fetching,   \* comment feeds that are being fetched, by item
    articles,   \* history: the articles ever stored and never removed
    stored,     \* history: the metadata last stored for each item
    fetches, merges,    \* history: comment fetches and new metadata, by item
    steps, crashes

memory == <<rebuild, loader, fetching>>
history == <<articles, stored, fetches, merges>>
vars == <<disk, work, open, phase, todo, execs, memory, history, steps, crashes>>

NotLoading == -1
TableNames == {"info", "items", "itemsets", "backup", "items_new", "attention_stats", "view_state",
               "update_state", "views", "search_folder_items"}

-----------------------------------------------------------------------------
(* SQL statements: when they fail and what they do. *)

Sql(op) == [op |-> op, t |-> "", of |-> ""]
Begin == Sql("begin")
End == Sql("end")
Create(t) == [op |-> "create", t |-> t, of |-> ""]
Drop(t) == [op |-> "drop", t |-> t, of |-> ""]
Copy(of, t) == [op |-> "copy", t |-> t, of |-> of]
Version(n) == [op |-> "version", t |-> n, of |-> ""]
DropTrigger(t) == [op |-> "drop trigger", t |-> t, of |-> ""]
CreateTrigger(t) == [op |-> "create trigger", t |-> t, of |-> ""]

Fails(s, w) ==
    CASE s.op = "begin" -> open
      [] s.op = "create" -> s.t \in w.tables
      [] s.op = "drop" -> s.t \notin w.tables
      [] s.op = "copy" -> {s.of, s.t} \ w.tables # {}
      [] s.op = "join" -> {"backup", "itemsets", "items"} \ w.tables # {}
      [] s.op = "rename" -> "items_new" \notin w.tables \/ "items" \in w.tables
      [] s.op = "drop trigger" -> s.t \notin w.triggers
      [] s.op = "create trigger" -> s.t \in w.triggers
      [] s.op = "comments of itemsets" -> {"items", "itemsets"} \ w.tables # {}
      [] OTHER -> FALSE

Filled(w, t, ids) == [w EXCEPT !.rows[t] = ids]

Effect(s, w) ==
    CASE s.op = "create" -> Filled([w EXCEPT !.tables = @ \union {s.t}], s.t, {})
      [] s.op = "drop" ->
            Filled([w EXCEPT !.tables = @ \ {s.t},
                             !.triggers = IF s.t = "items" THEN @ \ {"item_removal", "item_insert"}
                                          ELSE @], s.t, {})
      [] s.op = "copy" -> Filled(w, s.t, w.rows[s.t] \union w.rows[s.of])
      [] s.op = "join" -> Filled(w, "items", w.rows["backup"] \intersect w.rows["itemsets"])
      [] s.op = "rename" ->
            [w EXCEPT !.tables = (@ \ {"items_new"}) \union {"items"},
                      !.rows["items"] = w.rows["items_new"], !.rows["items_new"] = {}]
      [] s.op = "version" -> [w EXCEPT !.version = s.t]
      [] s.op = "adopt" -> [w EXCEPT !.version = IF @ = -1 THEN Target ELSE @]
      [] s.op = "drop trigger" -> [w EXCEPT !.triggers = @ \ {s.t}]
      [] s.op = "create trigger" -> [w EXCEPT !.triggers = @ \union {s.t}]
      [] s.op = "comments of itemsets" ->
            [w EXCEPT !.rows["itemsets"] = @ \ Comments, !.rows["items"] = @ \ Comments]
      [] s.op = "items without node" ->
            Filled(w, "items", {i \in w.rows["items"] : i \in Comments \/ NodeOf[i] \in w.nodes})
      [] s.op = "folder rows without node" ->
            Filled(w, "search_folder_items",
                   {i \in w.rows["search_folder_items"] : {NodeOf[i], Folder} \subseteq w.nodes})
      [] s.op = "metadata without item" ->
            [w EXCEPT !.metadata =
                [i \in Ids |-> IF i \in w.rows["items"] THEN @[i] ELSE <<>>]]
      [] s.op = "legacy comments" -> Filled(w, "items", w.rows["items"] \ Comments)
      [] OTHER -> w

-----------------------------------------------------------------------------
(* db_init(): blocks that run for a schema version, each some db_exec(). *)

\* The version is 0 as long as table info has no row for it; Target + 1 stands for
\* every newer one.
EveryVersion == -1..Target + 1
For(versions, calls) == [versions |-> versions, calls |-> calls]

\* A new file gets table info and then, by another statement, the version -1, which
\* says that there is nothing to migrate.  What is still newer than the current
\* version then, or too old to be migrated, ends the program.
NewDatabase ==
    For(EveryVersion \ 5..Target,
        <<<<Create("info"), Version(-1)>>, <<Sql("adopt")>>, <<Sql("check")>>>>)

DropOldTriggers ==
    For({5, 6}, <<<<Begin, DropTrigger("item_removal"), DropTrigger("item_insert"), End>>>>)

\* The itemsets relation gets another column; both versions do the same steps.
ToWiderItemsets(v) ==
    For({v}, <<<<Begin, Sql("comments of itemsets"), Create("backup"), Copy("itemsets", "backup"),
                 Drop("itemsets"), Create("itemsets"), Copy("backup", "itemsets"),
                 Drop("backup"), Version(v + 1), End>>>>)

To8 ==
    For({7}, <<<<Begin, Create("backup"), Copy("items", "backup"), Drop("items"),
                 Create("items"), Sql("join"), Drop("backup"), Drop("itemsets"),
                 Version(8), End>>,
               <<Drop("attention_stats")>>>>)

\* (slip) the version is written after the transaction
To9InTwoParts ==
    For({8}, <<<<Begin, Drop("view_state"), Drop("update_state"), Create("search_folder_items"),
                 End>>, <<Version(9)>>,
               <<Copy("views", "search_folder_items")>>, <<Drop("views")>>>>)

To9 ==
    For({8}, <<<<Begin, Drop("view_state"), Drop("update_state"), Create("search_folder_items"),
                 Version(9), End>>,
               <<Copy("views", "search_folder_items")>>, <<Drop("views")>>>>)

To10 ==
    For({9}, <<<<Begin, Drop("search_folder_items"), Create("search_folder_items"),
                 Version(10), End>>, <<Sql("rebuild")>>>>)

\* (slip) no transaction around the exchange of the tables
To11Open ==
    For({10}, <<<<Create("items_new"), Copy("items", "items_new"), Drop("items"),
                  Sql("rename"), Version(11)>>>>)

To11 ==
    For({10}, <<<<Begin, Create("items_new"), Copy("items", "items_new"), Drop("items"),
                  Sql("rename"), Version(11), End>>>>)

CheckVersion == For(EveryVersion, <<<<Sql("check")>>>>)

CreateTables ==
    For(EveryVersion, <<<<Begin>>, <<Create("items")>>, <<Create("search_folder_items")>>,
               <<Create("update_state")>>, <<End>>>>)

Triggers == <<"item_removal", "subscription_removal">>

NewTriggers == Triggers

RemoveTriggers ==
    For(EveryVersion, <<<<DropTrigger("item_insert")>>, <<DropTrigger("item_removal")>>,
               <<DropTrigger("subscription_removal")>>>>)

Cleanup ==
    For(EveryVersion, <<<<Sql("items without node")>>, <<Sql("folder rows without node")>>,
               <<Sql("metadata without item")>>, <<Sql("legacy comments")>>>>)

CreateTriggers ==
    For(EveryVersion, [k \in DOMAIN NewTriggers |-> <<CreateTrigger(NewTriggers[k])>>])

DbInit ==
    <<NewDatabase, DropOldTriggers, ToWiderItemsets(5), ToWiderItemsets(6), To8, To9, To10, To11,
      CheckVersion, CreateTables, RemoveTriggers, Cleanup, CreateTriggers>>

-----------------------------------------------------------------------------
(* Metadata: rows [key, value] in the order of the column nr. *)

Pair(k, v) == [k |-> k, v |-> v]

Has(list, k) == \E i \in DOMAIN list : list[i].k = k

\* Loading appends row by row, which gathers the values of a key and drops those
\* that are there already.
Loaded(list) ==
    LET rows == {i \in DOMAIN list : \A j \in 1..i - 1 : list[j] # list[i]}
        first(i) == CHOOSE j \in rows :
                        list[j].k = list[i].k /\ \A l \in 1..j - 1 : list[l].k # list[i].k
        ahead(i) == {j \in rows : first(j) < first(i) \/ (first(j) = first(i) /\ j < i)}
    IN [n \in 1..Cardinality(rows) |->
            list[CHOOSE i \in rows : Cardinality(ahead(i)) = n - 1]]

\* Rows are replaced one by one; those beyond the new list stay.
Saved(rows, list) == list \o SubSeq(rows, Len(list) + 1, Len(rows))

\* The values of a key are together; the new one takes their place, or the last.
SetValue(list, k, v) ==
    LET ahead == Cardinality({i \in DOMAIN list : \A j \in 1..i : list[j].k # k})
        values == Cardinality({i \in DOMAIN list : list[i].k = k})
    IN SubSeq(list, 1, ahead) \o <<Pair(k, v)>> \o SubSeq(list, ahead + values + 1, Len(list))

HasStatus(i) == Has(work.metadata[i], "commentFeedJson")
HasUri(i) == Has(work.metadata[i], "commentFeedUri")

-----------------------------------------------------------------------------
Stored(w) == disk' = w /\ work' = w

\* An old database with the tables of its version; without a file it is empty. Ids
\* are given once (AUTOINCREMENT), so the last may be of an item removed since.
OldDatabase(v, last) ==
    LET tables == CASE v = 0 -> {}
                    [] v \in 1..7 -> {"info", "items", "itemsets", "attention_stats",
                                      "view_state", "update_state", "views"}
                    [] v = 8 -> {"info", "items", "view_state", "update_state", "views"}
                    [] v \in 9..12 -> {"info", "items", "search_folder_items", "update_state"}
    IN [version |-> v, tables |-> tables,
        rows |-> [t \in TableNames |->
                    IF t \notin tables THEN {}
                    ELSE CASE t \in {"items", "itemsets"} -> InitialItems
                           [] t \in {"views", "search_folder_items"} -> InitialItems \intersect Matching
                           [] OTHER -> {}],
        triggers |-> IF v = 0 THEN {} ELSE {"item_removal"} \union
                        (IF v < 7 THEN {"item_insert"} ELSE {"subscription_removal"}),
        nodes |-> IF v = 0 THEN {} ELSE InitialNodes,
        metadata |-> [i \in Ids |-> <<>>],
        last |-> IF v = 0 THEN 0 ELSE last]

Init ==
    /\ \E v \in InitialVersions, last \in 0..Cardinality(Ids) :
          InitialItems \subseteq 1..last /\ disk = OldDatabase(v, last)
    /\ work = disk /\ open = FALSE
    /\ phase = "off" /\ todo = <<>> /\ execs = <<>>
    /\ rebuild = FALSE /\ loader = NotLoading /\ fetching = [i \in Ids |-> 0]
    /\ articles = disk.rows["items"] \ Comments
    /\ stored = [i \in Ids |-> <<>>]
    /\ fetches = [i \in Ids |-> 0] /\ merges = [i \in Ids |-> 0]
    /\ steps = 0 /\ crashes = 0

Start ==
    /\ phase \in {"off", "fatal"} /\ crashes < MaxCrashes
    /\ phase' = "starting" /\ todo' = DbInit /\ execs' = <<>>
    /\ UNCHANGED <<disk, work, open, memory, history, steps, crashes>>

EnterBlock ==
    /\ phase = "starting" /\ execs = <<>> /\ todo # <<>>
    /\ todo' = Tail(todo)
    /\ execs' = IF work.version \in Head(todo).versions THEN Head(todo).calls ELSE <<>>
    /\ UNCHANGED <<disk, work, open, phase, memory, history, steps, crashes>>

\* The next statement of the current db_exec(); an error drops the others.
Statement == Head(Head(execs))
Rest == IF Tail(Head(execs)) = <<>> THEN Tail(execs) ELSE <<Tail(Head(execs))>> \o Tail(execs)

Execute ==
    /\ phase = "starting" /\ execs # <<>> /\ Statement.op # "check"
    /\ LET failed == Fails(Statement, work)
           after == IF failed THEN work ELSE Effect(Statement, work)
           opened == IF failed THEN open
                     ELSE CASE Statement.op = "begin" -> TRUE
                            [] Statement.op = "end" -> FALSE
                            [] OTHER -> open
       IN /\ execs' = IF failed THEN Tail(execs) ELSE Rest
          /\ work' = after /\ open' = opened
          /\ disk' = IF opened THEN disk ELSE after
          /\ rebuild' = (rebuild \/ Statement.op = "rebuild")
    /\ UNCHANGED <<phase, todo, loader, fetching, history, steps, crashes>>

\* g_error() ends the process when the schema is not the current one.
Check ==
    /\ phase = "starting" /\ execs # <<>> /\ Statement.op = "check"
    /\ IF work.version = Target
       THEN execs' = Rest /\ UNCHANGED <<work, open, phase, todo, rebuild, crashes>>
       ELSE /\ phase' = "fatal" /\ work' = disk /\ open' = FALSE /\ rebuild' = FALSE
            /\ todo' = <<>> /\ execs' = <<>> /\ crashes' = crashes + 1
    /\ UNCHANGED <<disk, loader, fetching, history, steps>>

\* The feed list is loaded, which writes the rows of its nodes; migrated
\* search folders are emptied and read again.
Started ==
    /\ phase = "starting" /\ execs = <<>> /\ todo = <<>> /\ ~open
    /\ phase' = "running"
    /\ LET listed == [work EXCEPT !.nodes = @ \union InitialNodes]
       IN IF rebuild THEN Stored(Filled(listed, "search_folder_items", {})) /\ loader' = 0
          ELSE Stored(listed) /\ UNCHANGED loader
    /\ UNCHANGED <<open, todo, execs, rebuild, fetching, history, steps, crashes>>

Crash ==
    /\ phase \in {"starting", "running"} /\ crashes < MaxCrashes
    /\ phase' = "off" /\ crashes' = crashes + 1
    /\ work' = disk /\ open' = FALSE
    /\ todo' = <<>> /\ execs' = <<>>
    /\ rebuild' = FALSE /\ loader' = NotLoading /\ fetching' = [i \in Ids |-> 0]
    /\ UNCHANGED <<disk, history, steps>>

-----------------------------------------------------------------------------
(* The running program; one transaction per operation. *)

Step == phase = "running" /\ steps < MaxSteps /\ steps' = steps + 1
Items == work.rows["items"]

Unchanged == UNCHANGED <<open, phase, todo, execs, rebuild, crashes>>

\* vfolder_loader_fetch_cb(): the rows of the search folder, in order of the ids.
LoadFolder ==
    /\ phase = "running" /\ loader # NotLoading
    /\ LET left == {i \in Items : i > loader}
           next == CHOOSE i \in left : \A j \in left : i <= j
       IN IF left = {} THEN loader' = NotLoading /\ UNCHANGED <<disk, work>>
          ELSE /\ loader' = next
               /\ Stored(Filled(work, "search_folder_items",
                                work.rows["search_folder_items"] \union ({next} \intersect Matching)))
    /\ UNCHANGED <<fetching, history, steps>> /\ Unchanged

\* db_item_update() for a new item: its row, its metadata, its search folders.
AddItem(list) ==
    /\ Step
    /\ LET i == work.last + 1
       IN /\ i \in Ids \ Comments /\ NodeOf[i] \in work.nodes
          /\ Stored([work EXCEPT !.last = i, !.rows["items"] = @ \union {i},
                                 !.rows["search_folder_items"] = @ \union ({i} \intersect Matching),
                                 !.metadata[i] = Saved(@, list)])
          /\ articles' = articles \union {i} /\ stored' = [stored EXCEPT ![i] = list]
    /\ UNCHANGED <<loader, fetching, fetches, merges>> /\ Unchanged

\* The feed has the item again with other metadata, which replace the old ones.
MergeItem(i, list) ==
    /\ Step /\ i \in Items
    /\ Stored([work EXCEPT !.metadata[i] = Saved(@, list)])
    /\ stored' = [stored EXCEPT ![i] = list] /\ merges' = [merges EXCEPT ![i] = @ + 1]
    /\ UNCHANGED <<loader, fetching, articles, fetches>> /\ Unchanged

\* The trigger item_removal clears the other tables.
RemoveItem(i) ==
    /\ Step /\ i \in Items
    /\ Stored(IF "item_removal" \in work.triggers
              THEN [work EXCEPT !.rows["items"] = @ \ {i}, !.rows["search_folder_items"] = @ \ {i},
                                !.metadata[i] = <<>>]
              ELSE [work EXCEPT !.rows["items"] = @ \ {i}])
    /\ articles' = articles \ {i} /\ stored' = [stored EXCEPT ![i] = <<>>]
    /\ UNCHANGED <<loader, fetching, fetches, merges>> /\ Unchanged

\* Without the row of its feed an item lives on until the next start.
RemoveFeed(n) ==
    /\ Step /\ n \in work.nodes \ {Folder}
    /\ Stored(IF "subscription_removal" \in work.triggers
              THEN [work EXCEPT !.nodes = @ \ {n},
                        !.rows["search_folder_items"] = {i \in @ : NodeOf[i] # n}]
              ELSE work)
    /\ articles' = {i \in articles : NodeOf[i] # n}
    /\ UNCHANGED <<loader, fetching, stored, fetches, merges>> /\ Unchanged

\* (slip) the mark that a fetch runs is not stored
UnmarkedItem(i) == work

\* comments_refresh() stores that a fetch runs before it starts one.
MarkedItem(i) ==
    LET list == SetValue(Loaded(work.metadata[i]), "commentFeedJson", "fetching")
    IN [work EXCEPT !.metadata[i] = Saved(@, list)]

ViewItem(i) ==
    /\ Step /\ i \in Items /\ HasUri(i) /\ ~HasStatus(i)
    /\ Stored(MarkedItem(i))
    /\ stored' = [stored EXCEPT ![i] = Loaded(MarkedItem(i).metadata[i])]
    /\ fetching' = [fetching EXCEPT ![i] = @ + 1] /\ fetches' = [fetches EXCEPT ![i] = @ + 1]
    /\ UNCHANGED <<loader, articles, merges>> /\ Unchanged

\* An answer without data that is no error, or a 304, changes nothing.
Answers == {"ok", "error", "nothing"}

CommentsAnswered(i, answer) ==
    /\ phase = "running" /\ fetching[i] > 0
    /\ fetching' = [fetching EXCEPT ![i] = @ - 1]
    /\ IF i \notin Items \/ answer = "nothing" THEN UNCHANGED <<disk, work, stored>>
       ELSE LET list == SetValue(Loaded(work.metadata[i]), "commentFeedJson", answer)
            IN /\ Stored([work EXCEPT !.metadata[i] = Saved(@, list)])
               /\ stored' = [stored EXCEPT ![i] = list]
    /\ UNCHANGED <<loader, articles, fetches, merges, steps>> /\ Unchanged

Next ==
    \/ Start \/ EnterBlock \/ Execute \/ Check \/ Started \/ Crash
    \/ LoadFolder
    \/ \E list \in FeedMetadata : AddItem(list) \/ \E i \in Ids : MergeItem(i, list)
    \/ \E i \in Ids : RemoveItem(i) \/ ViewItem(i) \/ \E a \in Answers : CommentsAnswered(i, a)
    \/ \E n \in InitialNodes : RemoveFeed(n)

Spec == Init /\ [][Next]_vars

-----------------------------------------------------------------------------
(* Properties *)

(***************************************************************************)
(* Wherever the process dies, in a migration or later, the database on     *)
(* disk holds every article that was stored and not removed, as long as    *)
(* its feed has a row (the transactions and the cleanup of db_init()).     *)
(***************************************************************************)
ArticlesSurvive ==
    \A i \in articles : NodeOf[i] \in disk.nodes =>
        i \in disk.rows["items"] /\ (disk.version \in 5..7 => i \in disk.rows["itemsets"])

\* What two autocommitted statements leave when the process dies after the first: a
\* new file without a version (db_get_schema_version), or an old database whose
\* triggers are gone before its migration began.
Unfinished ==
    \/ disk.version = 0 /\ disk.tables = {"info"}
    \/ disk.version \in {5, 6} /\ disk.triggers = {}

(***************************************************************************)
(* The program starts with every database that it supports, whatever was   *)
(* cut short before: any migration is carried out again.  There are two    *)
(* exceptions, and each needs an earlier start that died in one place: the *)
(* process is ended (g_error) by a file that another start left            *)
(* unfinished, which is then the second end at least.                      *)
(***************************************************************************)
StartSucceeds ==
    phase = "fatal" => \/ disk.version \notin {-1, 0} \union 5..Target
                       \/ crashes > 1 /\ Unfinished

(***************************************************************************)
(* "The cache database was created by a newer version of Liferea", "This   *)
(* version of Liferea doesn't support migrating from such an old DB file"  *)
(* (db.c): a database that this version made, or can migrate, is not       *)
(* refused.                                                                *)
(***************************************************************************)
FatalIsUnsupported == phase = "fatal" => disk.version \notin {-1, 0} \union 5..Target

(***************************************************************************)
(* The comments of an item are fetched once, over restarts too; only new   *)
(* metadata from its feed can make the program fetch them again            *)
(* (comments_refresh).                                                     *)
(***************************************************************************)
CommentsFetchedOnce == \A i \in Ids : fetches[i] <= 1 + merges[i]

=============================================================================
