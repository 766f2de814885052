------------------------------ MODULE ItemView ------------------------------
(***************************************************************************)
(* The item list and its view, the search folder that is being rebuilt and *)
(* the item history (src/itemlist.c, src/ui/item_list_view.c,              *)
(* src/vfolder_loader.c, src/item_loader.c, src/node_providers/vfolder.c,  *)
(* src/item_history.c and the callers in src/ui/ and src/actions/).        *)
(*                                                                         *)
(* The handlers run one after the other in the main loop, but one handler  *)
(* is a cascade of signals: removing an item moves the selection of the    *)
(* view, which selects another item, which marks it read, which may hide   *)
(* it ... So a handler is an operator on the whole state s, a record, and  *)
(* an action applies it.  Only the search folder's loader has steps of its *)
(* own between those of the user and of the feed's updates.                *)
(*                                                                         *)
(* There is one feed in one folder and one search folder, whose rules      *)
(* (SearchRules) the user can change.  The tree of nodes does not change   *)
(* (FeedList models it).                                                   *)
(***************************************************************************)
EXTENDS Integers, FiniteSets, SearchRules

CONSTANTS
    Feed, Folder, SearchFolder, NoNode,
    Items,              \* positive item ids, in the order they are stored in
    Guid,               \* the guid of each
    Data,               \* what the rules look at, per item
    Settings,           \* what the user does in the dialog of the search folder
    FirstSettings,      \* what the search folder has at first
    Initially,          \* the items the feed has at first
    Batch,              \* VFOLDER_LOADER_BATCH_SIZE
    HideOnly,           \* the preference DEFER_DELETE_MODE
    MaxRules,           \* bound: rules of the search folder
    MaxSteps            \* bound on what the user and the updates do

VARIABLES
    st,                 \* the state, see Init
    steps

vars == <<st, steps>>

ASSUME ItemViewAssumption ==
    /\ Items \subseteq Nat \ {0} /\ IsFiniteSet(Items)
    /\ Batch \in Nat \ {0} /\ MaxSteps \in Nat /\ HideOnly \in BOOLEAN
    /\ Feed # Folder /\ Feed # SearchFolder /\ Folder # SearchFolder
    /\ NoNode \notin {Feed, Folder, SearchFolder}
    \* Ids count up (AUTOINCREMENT), and an item with a known guid is not stored.
    /\ Initially \subseteq Items
    /\ \A i \in Initially : i <= Cardinality(Initially)
    /\ \A i, j \in Initially : Guid[i] = Guid[j] => i = j

Nodes == {Feed, Folder, SearchFolder}
NoItem == 0

\* item_load() finds it.
Exists(s, i) == i \in s.live

\* itemset_check_item() for the search folder
Matches(s, i) == CheckItem(s.folder, [Data[i] EXCEPT !.read = i \in s.read])

\* node_get_itemset(): the search folder has the rows of its table.
ItemsOf(s, n) == IF n = SearchFolder THEN s.found ELSE s.live

-----------------------------------------------------------------------------
(* Items.                                                                  *)

FolderRowsAdded(s, items) ==
    [s EXCEPT !.found = @ \union {i \in items : Exists(s, i) /\ Matches(s, i)}]

\* db_item_search_folders_update() of each of them
FolderRows(s, items) ==
    [s EXCEPT !.found = (@ \ items) \union {i \in items : Exists(s, i) /\ Matches(s, i)}]

\* Deleting rows of the table fires the trigger item_removal.
ItemsGone(s, gone) ==
    [s EXCEPT !.live = @ \ gone, !.found = @ \ gone,
              !.disturbed = @ \/ (s.reloading /\ gone \intersect s.live # {})]

\* itemlist_filter_check_item(); the filter of other nodes is the rule "unread".
Filter(s, i) ==
    IF s.shown = SearchFolder
    THEN (s.folder.unreadOnly => i \notin s.read) /\ Matches(s, i)
    ELSE s.filter => i \notin s.read

\* An item that is gone is a null pointer, which the filter's rules follow.
FilterCrashes(s, i) ==
    /\ ~Exists(s, i)
    /\ IF s.shown = SearchFolder THEN s.folder.unreadOnly \/ s.folder.rules # <<>>
       ELSE s.filter

-----------------------------------------------------------------------------
(* The view.                                                               *)

\* item_list_view_cmp_entries(): the items are in the order of their dates; the
\* latest come first in a reversed list, which is the default.
Above(s, i, j) == IF s.reversed THEN i > j ELSE i < j

FirstRow(s, items) == CHOOSE i \in items : \A j \in items \ {i} : Above(s, i, j)
LastRow(s, items) == CHOOSE i \in items : \A j \in items \ {i} : Above(s, j, i)
AboveRow(s, i) == {j \in s.rows : Above(s, j, i)}
BelowRow(s, i) == {j \in s.rows : Above(s, i, j)}

ClearRows(s) == [s EXCEPT !.rows = {}, !.cursor = NoItem]

\* item_list_view_select_id(): an item that has no row is ignored.
SelectId(s, i) == IF i \in s.rows THEN [s EXCEPT !.cursor = i] ELSE s

\* item_list_view_select()
ViewSelect(s, i) == IF i # NoItem THEN SelectId(s, i) ELSE [s EXCEPT !.cursor = NoItem]

\* item_list_view_item_removed() of a row that is not selected.
DropRow(s, i) == [s EXCEPT !.rows = @ \ {i}]

\* The row below, else the one above.
Neighbour(s, i) ==
    IF BelowRow(s, i) # {} THEN FirstRow(s, BelowRow(s, i))
    ELSE IF AboveRow(s, i) # {} THEN LastRow(s, AboveRow(s, i))
    ELSE NoItem

\* item_list_view_add_item() of each of them
AddRows(s, items) == [s EXCEPT !.rows = @ \union items]

\* item_list_view_find_unread_item() below start, or from the top
FindUnread(s, start) ==
    LET range == IF start = NoItem THEN s.rows
                 ELSE IF start \in s.rows THEN BelowRow(s, start) ELSE {}
        unread == {i \in range : Exists(s, i) /\ i \notin s.read}
    IN  IF unread = {} THEN NoItem ELSE FirstRow(s, unread)

-----------------------------------------------------------------------------
(* The history: the ids that "item-selected" told of, 0 included.          *)

\* on_itemlist_selection_changed() of src/item_history.c
HistoryAdd(s, i) ==
    IF s.lastId = i \/ (s.current # 0 /\ s.history[s.current] = i) THEN s
    ELSE [s EXCEPT !.history = Append(@, i), !.current = Len(s.history) + 1, !.lastId = i]

\* item_history_get_previous(), _get_next(): skipping what is not an item; the
\* position moves to the end of the list when there is none.
HistoryStep(s, back) ==
    LET to == {k \in DOMAIN s.history : (IF back THEN k < s.current ELSE k > s.current)
                                        /\ Exists(s, s.history[k])}
        nearest == CHOOSE k \in to : \A l \in to : IF back THEN l <= k ELSE k <= l
        last == IF back THEN 1 ELSE Len(s.history)
    IN  IF s.current = 0 THEN s
        ELSE [s EXCEPT !.current = IF to # {} THEN nearest ELSE last]

HistoryItem(s, t) ==
    IF t.current # s.current /\ Exists(t, t.history[t.current])
    THEN t.history[t.current] ELSE NoItem

-----------------------------------------------------------------------------
(* Selecting and removing items.                                           *)

\* item_read_state_changed() for an item that the list does not hide now
StateChanged(s, i) ==
    FolderRows([s EXCEPT !.read = IF i \in @ THEN @ \ {i} ELSE @ \union {i}], {i})

\* itemlist_set_selected(): reads the item, and tells the view and the history.
SetSelected(s, i) ==
    LET chosen == [s EXCEPT !.selected = i]
        seen == IF i # NoItem /\ i \notin s.read THEN StateChanged(chosen, i) ELSE chosen
    IN  HistoryAdd(ViewSelect(seen, i), i)

\* A handler that has crashed does not go on to select an item.
Select(s, i) == IF s.crashed \/ i = NoItem THEN s ELSE SetSelected(s, i)

\* itemlist_remove_item() of an item that is neither selected nor in the view's
\* selection any more
RemoveLeft(s, i) ==
    DropRow(ItemsGone([s EXCEPT !.guids = @ \ {Guid[i]}], {i}), i)

\* itemlist_check_for_deferred_action(); removeItem and removeRow are what
\* removing does here.
DeferredAction(s, removeItem(_, _), removeRow(_, _)) ==
    LET i == s.selected
        left == [s EXCEPT !.selected = NoItem]
        hidden == IF ~FilterCrashes(s, i) /\ ~Filter(s, i) /\ ~HideOnly
                  THEN removeRow(left, i) ELSE left
    IN  IF i = NoItem THEN s
        ELSE IF FilterCrashes(s, i) \/ (s.deferred /\ ~Exists(s, i))
        THEN [left EXCEPT !.crashed = TRUE]
        ELSE IF s.deferred
        THEN removeItem([hidden EXCEPT !.deferred = FALSE], i)
        ELSE hidden

\* itemlist_selection_changed(): the view has selected i, which has a row.
SelectionChanged(s, i) ==
    IF ~Exists(s, i) \/ s.selected = i \/ s.loading THEN s
    ELSE Select(DeferredAction(s, RemoveLeft, DropRow), i)

\* item_list_view_item_removed(): the view selects a neighbour instead.
EmitRemoved(s, i) ==
    LET next == Neighbour(s, i)
        t == DropRow(s, i)
    IN  IF i \notin s.rows THEN s
        ELSE IF s.cursor # i THEN t
        ELSE IF next = NoItem THEN [t EXCEPT !.cursor = NoItem]
        ELSE SelectionChanged([t EXCEPT !.cursor = next], next)

\* itemlist_remove_item()
RemoveItem(s, i) ==
    LET t == IF s.selected = i
             THEN [SetSelected(s, NoItem) EXCEPT !.deferred = FALSE] ELSE s
    IN  EmitRemoved(ItemsGone([t EXCEPT !.guids = @ \ {Guid[i]}], {i}), i)

CheckDeferred(s) == DeferredAction(s, RemoveItem, EmitRemoved)

\* item_set_read_state() to the other state, with itemlist_update_item()
ToggleRead(s, i) ==
    LET t == StateChanged(s, i)
    IN  IF ~Filter(t, i) /\ t.selected # i THEN EmitRemoved(t, i) ELSE t

\* itemlist_request_remove_item()
RequestRemove(s, i) ==
    IF s.selected = i
    THEN [s EXCEPT !.deferred = TRUE, !.outdated = i]
    ELSE [ItemsGone(EmitRemoved(s, i), {i}) EXCEPT !.cut = @ \union {Guid[i]}]

\* itemlist_remove_items(): what is beyond the cache limit, one item at most
\* (the bound of Next)
RemoveItems(s, dropped) ==
    IF dropped = {} THEN s ELSE RequestRemove(s, CHOOSE i \in dropped : TRUE)

-----------------------------------------------------------------------------
(* Loading and unloading a node.                                           *)

\* The items, taken in the order of their ids, that pass the filter and have no
\* guid that the list knows or that an earlier one of them brings.
NotDuplicate(s, items) ==
    LET passing == {i \in items : Filter(s, i)}
    IN  {i \in passing : /\ Guid[i] \notin s.guids
                         /\ \A j \in passing : Guid[j] = Guid[i] => i <= j}

\* itemlist_itemset_is_valid() for the items of n
IsValid(s, n) ==
    /\ s.shown # NoNode
    /\ s.shown = SearchFolder \/ s.shown = n \/ (s.shown = Folder /\ n = Feed)
    /\ s.shown = Folder => s.displayChildren

\* itemlist_merge_item() of each of them
MergeAll(s, items) ==
    LET added == NotDuplicate(s, items)
    IN  AddRows([s EXCEPT !.guids = @ \union {Guid[i] : i \in added}], added)

\* itemlist_merge_itemset()
MergeItemset(s, n, items) ==
    IF IsValid(s, n) THEN MergeAll(s, items) ELSE s

\* itemlist_load(): an item set is loaded, unless the node is a folder and
\* folders do not show their children's items.
Load(s, n) ==
    LET t == [ClearRows(s) EXCEPT !.shown = n, !.filter = (n = Folder /\ s.hideRead),
                                  !.reversed = (n \in s.sortReversed)]
    IN  IF s.crashed THEN s
        ELSE IF n = Folder /\ ~s.displayChildren THEN ClearRows(s)
        ELSE MergeItemset(t, n, ItemsOf(t, n))

ForgetKeepingGuids(s) ==
    IF s.crashed THEN s
    ELSE [SetSelected(s, NoItem) EXCEPT !.cut = {}, !.shown = NoNode, !.filter = FALSE]

\* The end of itemlist_unload()
Forget(s) ==
    IF s.crashed THEN s
    ELSE [SetSelected(s, NoItem) EXCEPT !.guids = {}, !.cut = {},
                                 !.shown = NoNode, !.filter = FALSE]

\* itemlist_unload()
Unload(s) == Forget(IF s.shown # NoNode THEN CheckDeferred(s) ELSE s)

Reload(s, n) == Load(Unload(s), n)

\* feedlist_set_selected()
SelectNode(s, n) ==
    IF n = s.node THEN s ELSE Reload([s EXCEPT !.node = n], n)

-----------------------------------------------------------------------------
(* The user.                                                               *)

Step == ~st.crashed /\ steps < MaxSteps /\ steps' = steps + 1

Node(n) == Step /\ n # st.node /\ st' = SelectNode(st, n)

\* The view's selection moves to a row.
Click(i) ==
    /\ Step
    /\ i \in st.rows /\ i # st.cursor
    /\ st' = SelectionChanged([st EXCEPT !.cursor = i], i)

\* item_list_view_move_cursor(): without a selection the first row is where to
\* start from when moving down, and moving up does nothing.
MoveCursor(down) ==
    LET from == IF st.cursor # NoItem THEN st.cursor ELSE FirstRow(st, st.rows)
        next == IF down THEN BelowRow(st, from) ELSE AboveRow(st, from)
        to == IF next = {} THEN from
              ELSE IF down THEN FirstRow(st, next) ELSE LastRow(st, next)
    IN  /\ Step
        /\ st.rows # {}
        /\ st.cursor = NoItem => down
        /\ to # st.cursor
        /\ st' = SelectionChanged([st EXCEPT !.cursor = to], to)

\* on_toggle_unread_status()
ToggleReadStatus(i) ==
    /\ Step
    /\ Exists(st, i) /\ i \in st.rows \union {st.selected}
    /\ st' = ToggleRead(st, i)

\* on_item_list_view_pressed_event(): the middle button
Pressed(i) ==
    /\ Step
    /\ Exists(st, i) /\ i \in st.rows
    /\ st' = ToggleRead(st, i)

\* on_item_list_view_key_pressed_event(): delete and space are for the selected
\* item, which is a null pointer if there is none.
KeyPressed(delete) ==
    /\ Step
    /\ st' = IF ~Exists(st, st.selected) THEN [st EXCEPT !.crashed = TRUE]
             ELSE IF delete THEN RemoveItem(st, st.selected)
             ELSE ToggleRead(st, st.selected)

\* on_remove_item()
DeleteItem(i) ==
    /\ Step
    /\ Exists(st, i) /\ i \in st.rows \union {st.selected}
    /\ st' = RemoveItem(st, i)

\* itemlist_remove_all_items()
RemoveAllItems ==
    /\ Step
    /\ st.live # {}
    /\ LET shown == st.shown = Feed
           t == ItemsGone(IF shown THEN SetSelected(st, NoItem) ELSE st, st.live)
       IN  st' = IF shown THEN ClearRows([t EXCEPT !.guids = {}, !.cut = {}]) ELSE t

\* itemlist_select_next_unread(): liferea_shell_find_next_unread() looks below
\* the selected item, then from the top, then in the next unread feed, where
\* moving the selection has no effect.
SelectUnread(s) == Select(s, FindUnread(s, NoItem))

NextUnread ==
    LET here == FindUnread(st, st.selected)
        found == IF here # NoItem THEN here ELSE FindUnread(st, NoItem)
        moved == SelectNode([st EXCEPT !.loading = TRUE], Feed)
    IN  /\ Step
        /\ \/ /\ found \notin {NoItem, st.selected}
              /\ st' = SetSelected(st, found)
           \/ /\ found \in {NoItem, st.selected}
              /\ st.node # Feed /\ st.live # {}
              /\ st' = SelectUnread([moved EXCEPT !.loading = FALSE])

\* itemlist_select_from_history(): all items are the feed's.
FromHistory(back) ==
    LET s == HistoryStep(st, back)
        i == HistoryItem(st, s)
    IN  /\ Step
        /\ s # st
        /\ st' = IF i = NoItem THEN s ELSE Select(SelectNode(s, Feed), i)

\* on_sort_items_reverse(): the selected node is loaded again.
Sort ==
    /\ Step
    /\ st.node # NoNode
    /\ LET s == [st EXCEPT !.sortReversed = IF st.node \in @ THEN @ \ {st.node}
                                            ELSE @ \union {st.node}]
       IN  st' = Reload(s, st.node)

\* liferea_shell_update_layout(): the displayed node is loaded again.
Layout == Step /\ st.shown # NoNode /\ st' = Reload(st, st.shown)

\* on_folder_settings_changed()
SettingsChanged(s) == st' = IF s.shown = Folder THEN Reload(s, Folder) ELSE s

ToggleHideRead ==
    Step /\ SettingsChanged([st EXCEPT !.hideRead = ~@])

ToggleDisplayChildren ==
    Step /\ SettingsChanged([st EXCEPT !.displayChildren = ~@])

-----------------------------------------------------------------------------
(* Updates of the feed.                                                    *)

\* feed_process_update_result(): new items, then those that are too many for
\* the cache, then the item list.  An item with the guid of one that is stored
\* is not new.
Update(new, dropped) ==
    LET s == [st EXCEPT !.live = @ \union new, !.next = @ + Cardinality(new)]
        cut == RemoveItems(FolderRows(s, new), dropped)
    IN  /\ Step
        /\ \A i \in new : i = st.next /\ \A j \in st.live : Guid[j] # Guid[i]
        /\ dropped \subseteq st.live
        /\ new # {} \/ dropped # {}
        /\ st' = IF new = {} \/ cut.crashed THEN cut ELSE MergeItemset(cut, Feed, cut.live)

-----------------------------------------------------------------------------
(* The search folder.                                                      *)

EmptyFolder(s) == IF s.crashed THEN s ELSE [s EXCEPT !.found = {}, !.idle = FALSE]

\* vfolder_reset(): the loader is released, its idle callback with it, but the
\* flag stays.
Reset(s) == EmptyFolder(Unload(s))

\* vfolder_loader_new() returns no loader while reloading, and
\* itemlist_add_search_result() uses it.
StartLoader(s) ==
    LET t == [s EXCEPT !.reloading = TRUE, !.offset = 0, !.disturbed = FALSE]
    IN  IF s.crashed THEN s
        ELSE IF s.reloading THEN [s EXCEPT !.crashed = TRUE]
        ELSE [Load(t, SearchFolder) EXCEPT !.idle = TRUE]

\* vfolder_rebuild()
Rebuilding(s) == StartLoader(Reset(s))

\* ui_popup_rebuild_vfolder()
Rebuild == Step /\ st' = Rebuilding(st)

\* on_propdialog_response(): the dialog has no parent and blocks nothing.
EditFolder(edits, anyMatch, unreadOnly) ==
    /\ Step
    /\ LET saved == [SaveRules(st.folder, edits) EXCEPT !.anyMatch = anyMatch,
                                                      !.unreadOnly = unreadOnly]
       IN  /\ Len(saved.rules) <= MaxRules
           /\ st' = Rebuilding([st EXCEPT !.folder = saved])

\* db_itemset_get() with an offset
Fetched ==
    {i \in st.live : Cardinality({j \in st.live : j < i}) \in st.offset..(st.offset + Batch - 1)}

LoaderFetchUnfinished ==
    LET match == {i \in Fetched : Matches(st, i)}
        s == [st EXCEPT !.offset = @ + Batch, !.found = @ \union match]
    IN  /\ st.idle /\ ~st.crashed
        /\ UNCHANGED steps
        /\ st' = IF Fetched = {} THEN [s EXCEPT !.idle = FALSE]
                 ELSE IF s.shown = SearchFolder THEN MergeAll(s, match)
                 ELSE s

\* vfolder_loader_fetch_cb(): the matching items of the batch are stored;
\* itemlist_item_batch_fetched_cb() shows them if the folder is displayed.
LoaderFetch ==
    LET match == {i \in Fetched : Matches(st, i)}
        s == [st EXCEPT !.offset = @ + Batch, !.found = @ \union match]
    IN  /\ st.idle /\ ~st.crashed
        /\ UNCHANGED steps
        /\ st' = IF Fetched = {} THEN [s EXCEPT !.reloading = FALSE, !.idle = FALSE]
                 ELSE IF s.shown = SearchFolder THEN MergeAll(s, match)
                 ELSE s

-----------------------------------------------------------------------------
Init ==
    /\ steps = 0
    /\ st = [live |-> Initially,         \* table items
             read |-> {},                \* the items with readStatus
             folder |-> FirstSettings,   \* the rules of the search folder
             found |-> {i \in Initially : CheckItem(FirstSettings, [Data[i] EXCEPT !.read = FALSE])},
             next |-> Cardinality(Initially) + 1,   \* the next item id
             node |-> NoNode,            \* SELECTED
             shown |-> NoNode,           \* currentNode
             filter |-> FALSE,           \* filter: the rule "unread"
             selected |-> NoItem,        \* selectedId
             deferred |-> FALSE,         \* deferredRemove
             outdated |-> NoItem,        \* history: the item it was set for
             guids |-> {},
             cut |-> {},                 \* history: those of items cut since the list was loaded
             loading |-> FALSE,
             rows |-> {},                \* the rows of the view
             reversed |-> TRUE,          \* sort_reversed of the view
             sortReversed |-> Nodes,     \* the nodes with sortReversed
             cursor |-> NoItem,          \* the selected row
             history |-> <<>>, current |-> 0, lastId |-> 0,
             hideRead |-> FALSE,         \* FOLDER_DISPLAY_HIDE_READ
             displayChildren |-> TRUE,   \* FOLDER_DISPLAY_CHILDREN
             reloading |-> FALSE, offset |-> 0,
             idle |-> FALSE,             \* has the loader an idle callback?
             disturbed |-> FALSE,        \* history: items were deleted while it loaded
             crashed |-> FALSE]

Next ==
    \/ \E n \in Nodes : Node(n)
    \/ \E i \in Items : Click(i) \/ ToggleReadStatus(i) \/ DeleteItem(i)
    \/ \E i \in Items : Pressed(i)
    \/ \E b \in BOOLEAN : MoveCursor(b) \/ KeyPressed(b)
    \/ RemoveAllItems
    \/ NextUnread
    \/ \E back \in BOOLEAN : FromHistory(back)
    \/ Sort \/ Layout \/ ToggleHideRead \/ ToggleDisplayChildren
    \/ \E new, dropped \in {s \in SUBSET Items : Cardinality(s) <= 1} : Update(new, dropped)
    \/ Rebuild
    \/ \E e \in Settings : EditFolder(e.edits, e.anyMatch, e.unreadOnly)
    \/ LoaderFetch

\* An idle callback runs when the main loop has nothing else to do.
Spec == Init /\ [][Next]_vars /\ WF_vars(LoaderFetch)

-----------------------------------------------------------------------------
(* Properties.                                                             *)

(***************************************************************************)
(* The search folder's table has the items its rules ask for, whatever the *)
(* user and the updates did, to the rules too, while it was rebuilt in     *)
(* batches with a numeric offset.  The two exceptions are real: an item    *)
(* deleted meanwhile shifts the others below the offset, and they are      *)
(* never looked at; and where any rule is enough a negative one lets in    *)
(* what it should keep out (SearchRules).  A handler that crashes between  *)
(* the change of the rules and the rebuild leaves the old rows.            *)
(***************************************************************************)
FolderIsExact ==
    ~st.crashed /\ ~st.reloading /\ ~st.disturbed /\ ~Negated(st.folder) =>
        st.found = {i \in st.live : Wanted(st.folder, [Data[i] EXCEPT !.read = i \in st.read])}

(***************************************************************************)
(* The rows of a displayed feed are its items: none is missing and none    *)
(* is left of those that are gone.  An item is missing if the list still   *)
(* remembers its guid from an item that the cache limit removed: only      *)
(* itemlist_remove_item() forgets guids.                                   *)
(***************************************************************************)
FeedListedCompletely ==
    st.shown = Feed /\ ~st.crashed =>
        /\ st.rows \subseteq st.live
        /\ \A i \in st.live \ st.rows : Guid[i] \in st.cut

(***************************************************************************)
(* A rebuild of the search folder ends, and the folder can be rebuilt      *)
(* again.                                                                  *)
(***************************************************************************)
RebuildEnds == st.reloading ~> (~st.reloading \/ st.crashed)

(***************************************************************************)
(* "if the currently selected item should be removed we don't do it and    *)
(* set a flag to do it when unselecting" (src/itemlist.c:515): the flag is *)
(* about the selected item.  Not so if the selection moves without the     *)
(* check for deferred actions, as in itemlist_select_next_unread() and in  *)
(* itemlist_select_from_history(): the item that is unselected next is     *)
(* deleted instead.                                                        *)
(***************************************************************************)
DeferredIsSelected ==
    st.deferred /\ st.selected # NoItem => st.selected = st.outdated

=============================================================================
