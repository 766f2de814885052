------------------------------ MODULE FeedList ------------------------------
(***************************************************************************)
(* The feed list: the tree of nodes, their cached counters, the items in   *)
(* the database and the feed list file (src/feedlist.c, src/node.c,        *)
(* src/node_providers/, src/itemset.c, src/item_state.c, the item and node *)
(* tables of src/db.c, the feed list file of src/node_source.c and         *)
(* src/export.c).                                                          *)
(*                                                                         *)
(* Unread counters are cached in the nodes.  Whoever changes items marks   *)
(* the nodes for a recount, which a timer does for all of them; the tree   *)
(* is written to a file by another timer, the items are in the database at *)
(* once.  A crash or an exit loses what only memory has.  One node is the  *)
(* root of a remote source, whose feeds synchronise the states of items.   *)
(* The item list shows none of the items here (ItemView models it).        *)
(***************************************************************************)
EXTENDS NodeTree, Integers, FiniteSets

CONSTANTS
    InitialChildren,    \* the tree that is loaded first
    InitialDb,          \* the items of its feeds
    CacheLimit,         \* subscription_get_max_item_count() of each feed
    Downloads,          \* what the feeds can contain: sequences of entries
    NoId,               \* the entry has no guid
    MaxItem,            \* bound on the items ever stored
    MaxSteps            \* bound on what user and feeds do

VARIABLES
    children,       \* node->children
    unreadCount,    \* node->unreadCount, the cached counter
    needsRecount,   \* the nodes with node->needsRecount
    recountTimer,   \* is feedlist->recountTimer pending?
    saveTimer,      \* is feedlist->saveTimer pending?
    selected,       \* SELECTED
    newCount,       \* feedlist->newCount
    db,             \* table items: the rows by item id
    folderItems,    \* table search_folder_items of the search folder
    nodeRows,       \* table node: the ids with a row
    saved,          \* the tree in feedlist.opml
    nextId,         \* the autoincrement value of table items
    steps,          \* number of steps of user and feeds
    overlooked      \* history: counters that something changed under without
                    \* marking the node

tree == <<children, selected, saved, saveTimer>>
counters == <<unreadCount, needsRecount, recountTimer, newCount>>
database == <<db, folderItems, nodeRows, nextId>>
feedListVars == <<tree, counters, database, steps, overlooked>>

-----------------------------------------------------------------------------
ASSUME FeedListAssumption ==
    /\ IsTree(InitialChildren)
    /\ InitialDb \in Seq(Range(InitialDb)) /\ Len(InitialDb) <= MaxItem
    /\ \A i \in DOMAIN InitialDb :
          /\ InitialDb[i] = [f \in {"node", "id", "text", "time", "read", "flag"}
                                |-> InitialDb[i][f]]
          /\ InitialDb[i].node \in InTree(InitialChildren)
          /\ Kind[InitialDb[i].node] \in {"feed", "newsbin"}
    /\ \A list \in Downloads : list \in Seq(Range(list))
    /\ \A n \in Nodes : Kind[n] = "feed" => CacheLimit[n] \in Nat \ {0}
    /\ MaxItem \in Nat /\ MaxSteps \in Nat

HasSubscription(n) == Kind[n] \in {"feed", "newsbin", "source"}

Live == InTree(children)
Parent(n) == ParentIn(children, n)

\* node_is_ancestor() holds of these and n.
Ancestors(n) == AncestorsIn(children, n)
Below(n) == BelowIn(children, n)

\* A node without a source of its own gets its parent's.
SourceIn(c, n) ==
    LET roots == {k \in AncestorsIn(c, n) \union {n} : Kind[k] = "source"}
    IN  IF roots = {} THEN Root ELSE CHOOSE k \in roots : TRUE
Source(n) == SourceIn(children, n)

\* NODE_SOURCE_CAPABILITY_ITEM_STATE_SYNC: the local source has none.
StateSync(n) == Source(n) # Root

-----------------------------------------------------------------------------
(* The database.                                                           *)

ItemsIn(d, n) == {i \in DOMAIN d : d[i].node = n}

\* A row of table items is added or replaced.
Put(d, i, row) == [j \in DOMAIN d \union {i} |-> IF j = i THEN row ELSE d[j]]

\* db_itemset_get_unread_count()
UnreadIn(d, n) == Cardinality({i \in ItemsIn(d, n) : ~d[i].read})

\* db_search_folder_get_unread_count()
FolderUnread == Cardinality({i \in folderItems : ~db[i].read})

\* The items of a node: a folder has those of all its children.
ItemsOf ==
    LET load[n \in Nodes] ==
        IF IsFolder(n) THEN UNION {load[k] : k \in ChildrenOf(children, n)}
        ELSE IF IsVFolder(n) THEN folderItems
        ELSE ItemsIn(db, n)
    IN  load

\* The search folder has the rule "unread": db_item_search_folders_update()
\* for the items in changed, which are now as in d.
FolderRows(rows, d, changed) ==
    IF VFolders \intersect Live = {} THEN rows
    ELSE (rows \ changed) \union {i \in changed : ~d[i].read}

\* Deleting items fires the trigger item_removal.
ItemRemoval(gone) ==
    /\ db' = Restrict(db, DOMAIN db \ gone)
    /\ folderItems' = folderItems \ gone

-----------------------------------------------------------------------------
(* Counters.                                                               *)

\* The nodes of s and all above them, as the loop over iter->parent visits them.
WithAncestors(s) == s \union UNION {Ancestors(n) : n \in s}

MarkWithoutTimer(s) ==
    /\ needsRecount' = needsRecount \union WithAncestors(s)
    /\ UNCHANGED recountTimer

\* feedlist_mark_node_recount() of every node in s marks their parents too and
\* starts the timer.
MarkRecount(s) ==
    /\ needsRecount' = needsRecount \union WithAncestors(s)
    /\ recountTimer' = (recountTimer \/ s # {})

\* vfolder_foreach (node_update_counters), then node_update_counters() of s.
UpdateCounters(s) == MarkRecount(s \union (VFolders \intersect Live))

FoldersSum(c, u, n) ==
    FoldFunction(LAMBDA x, y : x + y, 0,
                 [k \in {k \in ChildrenOf(c, n) : ~IsVFolder(k)} |-> u[k]])

\* The update_counters method of each provider; a folder adds up what its
\* children have cached.
CountOf(n) ==
    IF IsFolder(n) THEN FoldersSum(children, unreadCount, n)
    ELSE IF IsVFolder(n) THEN FolderUnread
    ELSE UnreadIn(db, n)

\* The counters after dirty nodes were recounted, the deepest first.
RecountedTopDown(dirty) ==
    [n \in Nodes |-> IF n \in dirty THEN CountOf(n) ELSE unreadCount[n]]

Recounted(dirty) ==
    LET count[n \in Nodes] ==
        IF n \notin dirty THEN unreadCount[n]
        ELSE IF IsFolder(n) THEN FoldersSum(children, count, n)
        ELSE CountOf(n)
    IN  count

\* feedlist_new_items()
NewItems(n) == IF newCount + n > unreadCount[Root] THEN unreadCount[Root] ELSE newCount + n

\* feedlist_flush_pending_node_recounts_cb()
RecountTimer ==
    /\ recountTimer
    /\ recountTimer' = FALSE
    /\ unreadCount' = Recounted(needsRecount \intersect Live)
    /\ needsRecount' = needsRecount \ Live
    /\ overlooked' = overlooked \ needsRecount
    /\ UNCHANGED <<tree, newCount, database, steps>>

-----------------------------------------------------------------------------
(* Merging a download into a feed's items.                                 *)

\* itemset_generic_merge_check(): is entry e the old item o?
SameItem(o, e) ==
    IF o.id = NoId \/ e.id = NoId THEN o.id = e.id /\ o.text = e.text
    ELSE o.id = e.id

NewItem(n, e) == [node |-> n, id |-> e.id, text |-> e.text, time |-> e.time,
                  read |-> e.read, flag |-> e.flag]

\* A source that synchronises states overwrites an item whose state differs, but
\* never sets it back to unread.
StateUpdate(o, e) == [o EXCEPT !.text = e.text, !.time = e.time,
                               !.read = o.read \/ e.read, !.flag = e.flag]

\* db_item_update(): m is [db, rows, next, new], the merge so far.
ItemUpdate(m, i, rec) ==
    [m EXCEPT !.db = Put(@, i, rec), !.rows = FolderRows(@, Put(m.db, i, rec), {i})]

\* itemset_merge_item() of entry e
MergeItem(n, m, e) ==
    LET same == {i \in ItemsIn(m.db, n) : SameItem(m.db[i], e)}
    IN  IF same = {}
        THEN [ItemUpdate(m, m.next, NewItem(n, e)) EXCEPT !.next = @ + 1, !.new = @ + 1]
        ELSE LET i == CHOOSE i \in same : TRUE
                 differs == m.db[i].read # e.read \/ m.db[i].flag # e.flag
             IN  IF e.id # NoId /\ StateSync(n) /\ differs
                 THEN ItemUpdate(m, i, StateUpdate(m.db[i], e)) ELSE m

\* The effective limit: room for all flagged items if the download has room.
EffectiveMax(n, list) ==
    LET flagged == Cardinality({i \in ItemsIn(db, n) : db[i].flag})
        limit == CacheLimit[n]
    IN  IF Len(list) < limit /\ limit < Len(list) + flagged
        THEN flagged + Len(list) ELSE limit

\* Bottom to top, of as many entries as fit.
Merged(n, list) ==
    LET fits == IF Len(list) > EffectiveMax(n, list)
                THEN SubSeq(list, 1, EffectiveMax(n, list)) ELSE list
        merge[k \in 0..Len(fits)] ==
            IF k = 0 THEN [db |-> db, rows |-> folderItems, next |-> nextId, new |-> 0]
            ELSE MergeItem(n, merge[k - 1], fits[Len(fits) + 1 - k])
    IN  merge[Len(fits)]

\* itemset_sort_by_date(): is item a after item b in the list?
Older(d, a, b) == d[a].time < d[b].time \/ (d[a].time = d[b].time /\ a < b)

\* The oldest items that are not flagged, as many as are too many.
Dropped(d, n, max) ==
    LET items == ItemsIn(d, n)
        loose == {i \in items : ~d[i].flag}
    IN  {i \in loose : Cardinality({j \in loose : Older(d, j, i)}) < Cardinality(items) - max}

\* feed_process_update_result() and the rest of the update's callback.  The
\* counters of a local feed are only marked when items are dropped.
MergeItems(n, list) ==
    LET m == Merged(n, list)
        gone == Dropped(m.db, n, EffectiveMax(n, list))
        marks == IF StateSync(n) \/ gone # {} THEN {n} ELSE {}
    IN  /\ m.next <= MaxItem + 1
        /\ db' = Restrict(m.db, DOMAIN m.db \ gone)
        /\ folderItems' = m.rows \ gone
        /\ nextId' = m.next
        /\ nodeRows' = nodeRows \union {n}
        /\ UpdateCounters(marks)
        /\ newCount' = IF m.new > 0 THEN NewItems(m.new) ELSE newCount
        /\ saveTimer' = (saveTimer \/ m.new > 0)
        /\ overlooked' = overlooked \union (IF marks = {} /\ m.new > 0 THEN {n} ELSE {})
        /\ UNCHANGED <<children, selected, saved, unreadCount>>

-----------------------------------------------------------------------------
(* Item states.                                                            *)

Step == steps < MaxSteps /\ steps' = steps + 1

\* db_item_get_duplicates()
Duplicates(i) == {j \in DOMAIN db : db[i].id # NoId /\ db[j].id = db[i].id}

\* The unread items of s and their duplicates, if they still have a node.
ReadWith(s) ==
    LET unread == {i \in s : ~db[i].read}
    IN  unread \union {j \in UNION {Duplicates(i) : i \in unread} :
                            ~db[j].read /\ db[j].node \in Live}

\* item_read_state_changed() to read, for the items in s and their duplicates.
MarkItemsRead(s) ==
    LET marked == ReadWith(s)
    IN  /\ db' = [i \in DOMAIN db |->
                    IF i \in marked THEN [db[i] EXCEPT !.read = TRUE] ELSE db[i]]
        /\ folderItems' = folderItems \ marked
        /\ IF marked = {} THEN UNCHANGED <<needsRecount, recountTimer>>
           ELSE UpdateCounters({db[i].node : i \in marked})

SetRead(i) ==
    /\ Step
    /\ ~db[i].read /\ db[i].node \in Live
    /\ MarkItemsRead({i})
    /\ UNCHANGED <<tree, unreadCount, newCount, nodeRows, nextId, overlooked>>

SetUnread(i) ==
    /\ Step
    /\ db[i].read /\ db[i].node \in Live
    /\ db' = [db EXCEPT ![i].read = FALSE]
    /\ folderItems' = FolderRows(folderItems, db', {i})
    /\ UpdateCounters({db[i].node})
    /\ UNCHANGED <<tree, unreadCount, newCount, nodeRows, nextId, overlooked>>

\* No copies are flagged, and no feed is recounted.
SetFlag(i) ==
    /\ Step
    /\ db[i].node \in Live
    /\ db' = [db EXCEPT ![i].flag = ~@]
    /\ folderItems' = FolderRows(folderItems, db, {i})
    /\ UpdateCounters({})
    /\ UNCHANGED <<tree, unreadCount, newCount, nodeRows, nextId, overlooked>>

VisitedMany(n) == {k \in Below(n) : unreadCount[k] > 1 \/ IsVFolder(k)}

\* node_mark_all_read() from n down: nodes whose counter says that there is
\* nothing to mark are left out.
Visited(n) == {k \in Below(n) : unreadCount[k] > 0 \/ IsVFolder(k)}

\* itemset_mark_read()
MarkedIn(n) == {i \in ItemsOf[n] : ~db[i].read}

MarkAllRead(n) ==
    /\ Step
    /\ n \in Live
    /\ newCount' = 0
    /\ UNCHANGED <<tree, unreadCount, nodeRows, nextId, overlooked>>
    /\ MarkItemsRead(UNION {MarkedIn(k) : k \in Visited(n) \ {Root}})

\* itemlist_remove_item()
RemoveItem(i) ==
    /\ Step
    /\ db[i].node \in Live
    /\ ItemRemoval({i})
    /\ UpdateCounters({db[i].node})
    /\ UNCHANGED <<tree, unreadCount, newCount, nodeRows, nextId, overlooked>>

\* itemlist_remove_all_items()
RemoveAllItems(n) ==
    /\ Step
    /\ n \in Live /\ Kind[n] \in {"feed", "newsbin"}
    /\ ItemRemoval(ItemsIn(db, n))
    /\ UpdateCounters({n})
    /\ UNCHANGED <<tree, unreadCount, newCount, nodeRows, nextId, overlooked>>

\* newsbin_add_item(): the copy is read and has no flag.
Copy(i, b) == [db[i] EXCEPT !.node = b, !.read = TRUE, !.flag = FALSE]

NewsbinAddItem(b, i) ==
    /\ Step
    /\ b \in Live /\ Kind[b] = "newsbin"
    /\ db[i].node \in Live /\ nextId <= MaxItem
    /\ db' = Put(db, nextId, Copy(i, b))
    /\ nextId' = nextId + 1
    /\ MarkRecount({b})
    /\ UNCHANGED <<tree, unreadCount, newCount, folderItems, nodeRows, overlooked>>

Update(n, list) ==
    /\ Step
    /\ n \in Live /\ Kind[n] = "feed"
    /\ MergeItems(n, list)

-----------------------------------------------------------------------------
(* The tree.                                                               *)

\* feedlist_schedule_save()
ScheduleSave == saveTimer' = TRUE

\* feedlist_get_parent_node(): where something new goes.
ParentForNew ==
    IF selected = NoNode THEN Root
    ELSE IF IsFolder(selected) THEN selected
    ELSE Parent(selected)

\* After the selected node, or at the end.
PositionForNew ==
    IF selected = NoNode \/ IsFolder(selected) THEN Len(children[ParentForNew]) + 1
    ELSE (CHOOSE i \in DOMAIN children[ParentForNew] :
            children[ParentForNew][i] = selected) + 1

\* feedlist_node_added(): a new subscription, folder or news bin of the local
\* source.  Its id is a random one that nothing else has or had.
NodeAdded(n) ==
    /\ Step
    /\ Kind[n] \in {"feed", "folder", "newsbin"}
    /\ n \notin Live \union InTree(saved) \union nodeRows /\ ItemsIn(db, n) = {}
    /\ Source(ParentForNew) = Root
    /\ children' = [children EXCEPT ![ParentForNew] = InsertAt(@, PositionForNew, n),
                                    ![n] = <<>>]
    /\ unreadCount' = [unreadCount EXCEPT ![n] = 0]
    /\ nodeRows' = nodeRows \union {n}
    /\ ScheduleSave
    /\ UNCHANGED <<selected, saved, needsRecount, recountTimer, newCount, db,
                   folderItems, nextId, overlooked>>

\* feedlist_node_removed(), children first.  The row of a folder stays; the
\* search folder forgets what it found and is gone.
NodeRemoved(n) ==
    LET gone == Below(n)
    IN  /\ Step
        /\ n \in Live \ {Root} /\ Source(n) = Root
        /\ selected' = IF selected \in gone THEN NoNode ELSE selected
        /\ children' = [k \in Nodes |->
                            IF k \in gone THEN <<>> ELSE Without(children[k], n)]
        /\ db' = Restrict(db, {i \in DOMAIN db : db[i].node \notin gone})
        /\ folderItems' = IF gone \intersect VFolders # {} THEN {}
                          ELSE {i \in folderItems : db[i].node \notin gone}
        /\ needsRecount' = (needsRecount \union
                              WithAncestors({n} \union (VFolders \intersect Live))) \ gone
        /\ recountTimer' = TRUE
        /\ nodeRows' = nodeRows \ {k \in gone : HasSubscription(k)}
        /\ ScheduleSave
        /\ overlooked' = overlooked \ gone
        /\ UNCHANGED <<saved, unreadCount, newCount, nextId>>

\* feedlist_node_was_moved() by dragging, within one source.  The parents are
\* told of the change, but their counters are not marked.
NodeMoved(n, p, pos) ==
    /\ Step
    /\ IsFolder(p) /\ p \notin Below(n)
    /\ Source(n) = Root /\ Source(p) = Root
    /\ LET without == [children EXCEPT ![Parent(n)] = Without(@, n)]
       IN  /\ pos <= Len(without[p]) + 1
           /\ children' = [without EXCEPT ![p] = InsertAt(@, pos, n)]
    /\ children' # children
    /\ nodeRows' = nodeRows \union {n}
    /\ ScheduleSave
    /\ overlooked' = overlooked \union (IF p = Parent(n) THEN {} ELSE {p, Parent(n)})
    /\ UNCHANGED <<selected, saved, counters, db, folderItems, nextId>>

\* feedlist_set_selected()
SetSelected(n) ==
    /\ n # selected
    /\ selected' = n
    /\ newCount' = 0
    /\ UNCHANGED <<children, saved, saveTimer, unreadCount, needsRecount,
                   recountTimer, database, overlooked>>

Select(n) == Step /\ n \in Live \ {Root} /\ SetSelected(n)

\* feedlist_find_unread_feed(): the subscriptions without children that have
\* unread items, and the selected one; with no selection all of them.
Leaves ==
    LET leaves[n \in Nodes] ==
        IF children[n] = <<>> THEN <<n>>
        ELSE FlattenSeq([i \in DOMAIN children[n] |-> leaves[children[n][i]]])
    IN  leaves

UnreadLeaves ==
    SelectSeq(Leaves[Root], LAMBDA n : /\ HasSubscription(n)
                                       /\ unreadCount[n] > 0 \/ selected \in {NoNode, n})

AfterSelected ==
    LET after == {i \in DOMAIN UnreadLeaves : i > 1 /\ UnreadLeaves[i - 1] = selected}
    IN  UnreadLeaves[IF after = {} THEN 1 ELSE CHOOSE i \in after : TRUE]

NextUnread ==
    /\ Step
    /\ UnreadLeaves # <<>>
    /\ \E n \in Live : n = AfterSelected /\ SetSelected(n)

-----------------------------------------------------------------------------
(* The file and the start of the program.                                  *)

\* feedlist_schedule_save_cb()
SaveTimer ==
    /\ saveTimer
    /\ saveTimer' = FALSE
    /\ saved' = children
    /\ UNCHANGED <<children, selected, counters, database, steps, overlooked>>

FoundAtTop(c) == ChildrenOf(c, Root)

\* db_node_source_find() goes down only while the source stays the same.
FoundInList(c) == {n \in InTree(c) : SourceIn(c, n) = Root}

ImportedRows(rows, c) == rows \union InTree(c)

\* The cleanup in db_init(): items need a row in table node.
KeptItems == {i \in DOMAIN db : db[i].node \in nodeRows}

\* db_node_source_cleanup()
StaleRows(rows, c) == rows \ FoundInList(c)

\* The program ends, after saving the feed list if it was not killed, and
\* starts again: the database is cleaned, the import writes the rows of what
\* is in the file, stale rows are dropped, then every counter is computed.
Restart(killed) ==
    LET list == IF killed THEN saved ELSE children
        kept == KeptItems
        rows == ImportedRows(nodeRows, list)
        stale == StaleRows(rows, list)
        d == Restrict(db, kept)
        found == {i \in folderItems \intersect kept : db[i].node \notin stale}
        count[n \in Nodes] ==
            IF n \notin InTree(list) THEN 0
            ELSE IF IsFolder(n) THEN FoldersSum(list, count, n)
            ELSE IF IsVFolder(n) THEN Cardinality({i \in found : ~d[i].read})
            ELSE UnreadIn(d, n)
    IN  /\ Step
        /\ selected' = NoNode /\ newCount' = 0
        /\ needsRecount' = {} /\ recountTimer' = FALSE
        /\ saveTimer' = TRUE
        /\ overlooked' = {}
        /\ UNCHANGED nextId
        /\ saved' = list /\ children' = list
        /\ db' = d
        /\ folderItems' = found
        /\ nodeRows' = rows \ stale
        /\ unreadCount' = count

-----------------------------------------------------------------------------
FeedListInit ==
    /\ children = InitialChildren /\ saved = InitialChildren
    /\ db = InitialDb
    /\ folderItems = {i \in DOMAIN InitialDb : ~InitialDb[i].read}
    /\ nodeRows = {n \in Live : n # Root}
    /\ nextId = Cardinality(DOMAIN InitialDb) + 1
    /\ unreadCount = LET count[n \in Nodes] ==
                            IF IsFolder(n) THEN FoldersSum(children, count, n)
                            ELSE IF IsVFolder(n) THEN FolderUnread
                            ELSE UnreadIn(db, n)
                     IN  count
    /\ needsRecount = {} /\ recountTimer = FALSE /\ saveTimer = TRUE
    /\ selected = NoNode /\ newCount = 0 /\ steps = 0 /\ overlooked = {}

ItemStep ==
    \/ \E i \in DOMAIN db : SetRead(i) \/ SetUnread(i) \/ SetFlag(i) \/ RemoveItem(i)
    \/ \E n \in Nodes : MarkAllRead(n) \/ RemoveAllItems(n)
    \/ \E b \in Nodes, i \in DOMAIN db : NewsbinAddItem(b, i)
    \/ \E n \in Nodes, list \in Downloads : Update(n, list)

TreeStep ==
    \/ \E n \in Nodes : NodeAdded(n) \/ NodeRemoved(n) \/ Select(n)
    \/ \E n \in Live \ {Root}, p \in Live :
            \E pos \in 1..(Len(children[p]) + 1) : NodeMoved(n, p, pos)
    \/ NextUnread

FeedListNext ==
    \/ ItemStep \/ TreeStep
    \/ RecountTimer \/ SaveTimer
    \/ \E killed \in BOOLEAN : Restart(killed)

\* Timers expire.
FeedListSpec ==
    /\ FeedListInit /\ [][FeedListNext]_feedListVars
    /\ WF_feedListVars(RecountTimer) /\ WF_feedListVars(SaveTimer)

-----------------------------------------------------------------------------
\* All that the variables may hold.
FeedListTypeOK ==
    /\ children \in [Nodes -> Seq(Nodes)] /\ saved \in [Nodes -> Seq(Nodes)]
    /\ unreadCount \in [Nodes -> Nat]
    /\ needsRecount \subseteq Nodes /\ overlooked \subseteq Nodes
    /\ {recountTimer, saveTimer} \subseteq BOOLEAN
    /\ selected \in Nodes \union {NoNode}
    /\ newCount \in Nat /\ steps \in 0..MaxSteps /\ nextId \in 1..(MaxItem + 1)
    /\ DOMAIN db \subseteq 1..MaxItem
    /\ folderItems \subseteq DOMAIN db /\ nodeRows \subseteq Nodes

\* A counter that is not marked for a recount shows what a recount would: for a
\* feed what the database has, for a folder what its children show.  Merging
\* into a local feed and moving nodes are known to leave counters behind.
CountersHold ==
    \A n \in Live \ (needsRecount \union overlooked) : unreadCount[n] = CountOf(n)

\* A node that is marked gets its recount: marking never fails to start the
\* timer, and the timer clears every mark.
RecountsHappen == needsRecount # {} ~> needsRecount = {}

\* No start loses items of a local node that is in the file it loads.
LocalItemsSurvive ==
    [][\A killed \in BOOLEAN : Restart(killed) =>
          \A i \in DOMAIN db :
              db[i].node \in Live' /\ SourceIn(children', db[i].node) = Root
                  => i \in DOMAIN db']_feedListVars

\* The same for all nodes in the file, those of remote sources too.
ListedItemsSurvive ==
    [][\A killed \in BOOLEAN : Restart(killed) =>
          \A i \in DOMAIN db : db[i].node \in Live' => i \in DOMAIN db']_feedListVars

\* "Mark all as read" leaves no unread item below the node, as long as the
\* counters below it are up to date.
MarkedAllRead ==
    [][\A n \in Live :
          (Below(n) \intersect (needsRecount \union overlooked) = {} /\ MarkAllRead(n))
             => \A k \in Below(n) : \A i \in ItemsOf[k] : db'[i].read]_feedListVars

\* Updating a feed twice with the same content adds nothing the second time, so
\* no item that was read comes back as a new one.
RepeatAddsNothing ==
    [][\A n \in Live, list \in Downloads :
          Update(n, list) => (Merged(n, list).new)' = 0]_feedListVars

=============================================================================
