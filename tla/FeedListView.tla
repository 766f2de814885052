---------------------------- MODULE FeedListView ----------------------------
(***************************************************************************)
(* The feed list widget and the feed list file (src/ui/feed_list_view.c,   *)
(* src/export.c, the import and export methods of src/node_providers/ and  *)
(* src/subscription.c, drag and drop of src/ui/ui_dnd.c), with the dialogs *)
(* that subscriptions are added and changed in.                            *)
(*                                                                         *)
(* The widget keeps a store of rows for the top level and for each folder  *)
(* that is open; it is told of changes of the tree by signals and does not *)
(* look at the tree otherwise.  GTK's tree model makes the stores, its     *)
(* selection model always selects some row if it can and reports changes.  *)
(* The file is the tree with the settings of its nodes; reading it back is *)
(* the same code as importing the list of another program.                 *)
(* Remote sources, which have a file of their own each, are left out.      *)
(***************************************************************************)
EXTENDS NodeTree, SubscriptionSettings, FiniteSets

CONSTANTS
    InitialChildren,    \* the tree that is loaded first
    InitialOpen,        \* its open folders
    InitialLast,        \* what was selected before
    InitialSource,      \* of the feeds in that tree
    Entries,            \* texts that are typed for a source
    Minutes,            \* update intervals that are set
    Preference,         \* the default update interval
    MaxSteps            \* bound on what the user does

VARIABLES
    children,   \* node->children
    expanded,   \* the nodes with node->expanded
    settings,   \* the titles and so on that were set, and the subscription
    selected,   \* SELECTED of the feed list
    saveTimer,  \* is feedlist->saveTimer pending?
    rows,       \* the stores of the widget, of the top level and open folders
    cursor,     \* the node of the row that the widget shows as selected
    dialog,     \* the dialog that is open, if any
    file,       \* feedlist.opml
    last,       \* the preference last-node-selected
    steps       \* number of the user's steps

nodes == <<children, settings, saveTimer>>
view == <<expanded, selected, rows, cursor>>
vars == <<nodes, view, dialog, file, last, steps>>

-----------------------------------------------------------------------------
ASSUME FeedListViewAssumption ==
    /\ InitialChildren \in [Nodes -> Seq(Nodes)]
    /\ \A n \in Nodes : Kind[n] # "source"
    /\ InitialOpen \subseteq Nodes /\ InitialLast \in Nodes \union {NoNode}
    /\ Minutes \union {Preference} \subseteq Nat \ {0} /\ MaxSteps \in Nat

\* feed_list_view_is_expandable()
Expandable(n) == IsFolder(n)

Live == InTree(children)

\* The nodes below the root, each before its children.
PathTo(c, n) ==
    LET path[k \in Nodes] ==
            IF k = Root THEN <<>> ELSE Append(path[ParentIn(c, k)], k)
    IN  path[n]

Preorder(c) ==
    LET below[n \in Nodes] ==
            FlattenSeq([i \in DOMAIN c[n] |-> <<c[n][i]>> \o below[c[n][i]]])
    IN  below[Root]

-----------------------------------------------------------------------------
(* The widget.  v is [rows, cursor, expanded, selected]; c the tree.       *)

View == [rows |-> rows, cursor |-> cursor, expanded |-> expanded, selected |-> selected]

ShowView(v) ==
    /\ rows' = v.rows /\ cursor' = v.cursor
    /\ expanded' = v.expanded /\ selected' = v.selected

\* GtkTreeListModel: the stores as one list.
FlatList(r) ==
    LET below[n \in Nodes] ==
            IF n \notin DOMAIN r THEN <<>>
            ELSE FlattenSeq([i \in DOMAIN r[n] |-> <<r[n][i]>> \o below[r[n][i]]])
    IN  below[Root]

Shown(r) == Range(FlatList(r))

\* feed_list_view_find_position() of a row that is shown
Position(r, n) == CHOOSE i \in DOMAIN FlatList(r) : FlatList(r)[i] = n

\* The folders that are open at n and below.
OpenBelow(r, n) ==
    LET open[k \in Nodes] ==
            IF k \notin DOMAIN r THEN {} ELSE {k} \union UNION {open[j] : j \in Range(r[k])}
    IN  open[n]

\* GtkSingleSelection keeps the row, or takes the one in its place, which is at
\* p, or the one before; without a selection it takes the first row.
Reselected(v, r, p) ==
    LET list == FlatList(r)
    IN  IF v.cursor \in Range(list) THEN v.cursor
        ELSE IF list = <<>> THEN NoNode
        ELSE IF v.cursor = NoNode THEN list[1]
        ELSE list[IF p <= Len(list) THEN p ELSE Len(list)]

\* A mutant: the callback stays suppressed.
SelectionSuppressed(v, n) == [v EXCEPT !.cursor = n]

\* feed_list_view_selection_changed_cb()
SelectionChanged(v, n) ==
    [v EXCEPT !.cursor = n, !.selected = IF n \in {v.cursor, NoNode} THEN @ ELSE n]

\* The widget selects by itself, while flv->suppress_selection is set or not.
WithRows(v, r, p) == [SelectionChanged(v, Reselected(v, r, p)) EXCEPT !.rows = r]

WithRowsQuietly(v, r) == [v EXCEPT !.cursor = Reselected(v, r, 1), !.rows = r]

\* A mutant: the row goes to the end.
InsertNodeItemLast(v, c, n) ==
    LET p == ParentIn(c, n)
    IN  IF p \notin DOMAIN v.rows THEN v
        ELSE WithRows(v, [v.rows EXCEPT ![p] = Append(@, n)], 1)

\* feed_list_view_parent_store_for_node(), feed_list_view_insert_node_item()
InsertNodeItem(v, c, n) ==
    LET p == ParentIn(c, n)
    IN  IF p \notin DOMAIN v.rows THEN v
        ELSE WithRows(v, [v.rows EXCEPT ![p] = InsertAt(@, SelectInSeq(c[p], LAMBDA k : k = n), n)], 1)

\* feed_list_view_remove_node_item().  Rows that vanish while they are open may
\* tell their nodes that they are closed.
RemoveNodeItem(v, n, told) ==
    LET p == CHOOSE k \in DOMAIN v.rows : n \in Range(v.rows[k])
        closed == OpenBelow(v.rows, n)
        left == Restrict(v.rows, DOMAIN v.rows \ closed)
    IN  IF n \notin Shown(v.rows) THEN v
        ELSE [WithRows(v, [left EXCEPT ![p] = Remove(@, n)], Position(v.rows, n))
                EXCEPT !.expanded = IF told THEN @ \ closed ELSE @]

\* A row is opened and nobody is told.
OpenedQuietly(v, c, n) ==
    IF n \notin Shown(v.rows) \/ n \in DOMAIN v.rows THEN v
    ELSE WithRowsQuietly(v, (n :> c[n]) @@ v.rows)

\* A row is opened: GTK has feed_list_view_create_child_model_cb() make its
\* store, and tree_row_expanded_cb() is called.
Opened(v, c, n) ==
    IF n \notin Shown(v.rows) \/ n \in DOMAIN v.rows THEN v
    ELSE [WithRows(v, (n :> c[n]) @@ v.rows, 1) EXCEPT !.expanded = @ \union {n}]

\* feed_list_view_refresh_node(): a row that was not there yet is not opened.
RefreshNode(v, c, n) ==
    IF n = Root THEN v
    ELSE IF n \notin Shown(v.rows) THEN InsertNodeItem(v, c, n)
    ELSE IF Expandable(n) /\ n \in v.expanded THEN Opened(v, c, n)
    ELSE v

\* feed_list_view_expand_path(), from the top
ExpandPath(v, c, n) ==
    FoldLeft(LAMBDA w, k : OpenedQuietly([w EXCEPT !.expanded = @ \union {k}], c, k),
             v, PathTo(c, n))

\* feed_list_view_select(), with the callback suppressed.  GTK may keep the row
\* when it is told to select none.
SelectRow(v, c, n, kept) ==
    IF n = NoNode THEN [v EXCEPT !.cursor = IF kept THEN @ ELSE NoNode]
    ELSE [ExpandPath(v, c, ParentIn(c, n)) EXCEPT !.cursor = n]

\* feedlist_set_selected(), feed_list_view_node_selected()
SetSelected(v, c, n, kept) ==
    IF n = v.selected THEN v
    ELSE LET w == [v EXCEPT !.selected = n]
         IN  IF n = v.cursor THEN w ELSE SelectRow(w, c, n, kept)

-----------------------------------------------------------------------------
(* The file: a sequence of outlines, each before those inside it.          *)

NoSubscription == [source |-> "none"]
Unset == [own |-> {}, sub |-> NoSubscription]

\* The export method of each provider: news bins and folders have none.
ProviderExport(n) == settings[n].own \intersect (IF Kind[n] = "vfolder" THEN {"rules"} ELSE {})

\* export_append_node_tag()
Outline(n, trusted) ==
    [id |-> n, parent |-> ParentIn(children, n),
     open |-> trusted /\ children[n] # <<>> /\ n \in expanded,
     attrs |-> (settings[n].own \intersect ({"title"} \union IF trusted THEN {"sort"} ELSE {}))
                    \union ProviderExport(n),
     sub |-> IF Kind[n] = "feed" THEN Written(settings[n].sub, trusted) ELSE NoSubscription]

\* export_OPML_feedlist(): only feeds and folders for other programs
Exported(trusted) ==
    LET Included(n) == trusted \/ Kind[n] \in {"feed", "folder"}
        list == SelectSeq(Preorder(children), Included)
    IN  [i \in DOMAIN list |-> Outline(list[i], trusted)]

\* vfolder_import_rules() and the import methods of the other providers
ProviderImport(n, attrs) ==
    CASE Kind[n] = "vfolder" -> attrs \intersect {"rules"}
      [] Kind[n] = "newsbin" -> attrs \intersect {"reduced"}
      [] OTHER -> {}

\* node_new() and node_set_id(): an id from the feed list file is kept unless
\* it is in use.  Any free id of the same kind stands for a new one.
FreeIds(c, n) == {k \in Nodes : Kind[k] = Kind[n] /\ k \notin InTree(c)}

IdFor(c, o, trusted) ==
    IF trusted /\ o.id \notin InTree(c) THEN o.id ELSE CHOOSE k \in FreeIds(c, o.id) : TRUE

\* import_parse_outline() of o; m is [children, settings, view, names], names
\* the node that each outline became.
ImportOutline(m, o, trusted) ==
    LET n == IdFor(m.children, o, trusted)
        c == [m.children EXCEPT ![m.names[o.parent]] = Append(@, n), ![n] = <<>>]
        open == IF o.open THEN m.view.expanded \union {n} ELSE m.view.expanded \ {n}
    IN  [children |-> c,
         settings |-> [m.settings EXCEPT ![n] =
                         [own |-> (o.attrs \intersect {"title", "sort"})
                                      \union ProviderImport(n, o.attrs),
                          sub |-> IF Kind[n] = "feed" THEN Read(o.sub, trusted)
                                  ELSE NoSubscription]],
         view |-> InsertNodeItem([m.view EXCEPT !.expanded = open], c, n),
         names |-> (o.id :> n) @@ m.names]

\* import_OPML_feedlist() into node n
Imported(m, list, trusted) == FoldLeft(LAMBDA a, o : ImportOutline(a, o, trusted), m, list)

-----------------------------------------------------------------------------
(* What the user does with the list.                                       *)

NoDialog == [kind |-> "none"]

Step == steps < MaxSteps /\ steps' = steps + 1
UserStep == Step /\ dialog = NoDialog /\ dialog' = NoDialog
TreeStays == UNCHANGED <<nodes, file, last>>

Expand(n) ==
    /\ UserStep
    /\ n \in Shown(rows) \ DOMAIN rows /\ Expandable(n)
    /\ ShowView(Opened(View, children, n))
    /\ TreeStays

Collapse(n) ==
    LET inside == OpenBelow(rows, n)
        left == Restrict(rows, DOMAIN rows \ inside)
    IN  /\ UserStep
        /\ n \in DOMAIN rows \ {Root}
        /\ \E told \in BOOLEAN :
              ShowView([WithRows(View, left, Position(rows, n) + 1)
                          EXCEPT !.expanded = @ \ (IF told THEN inside ELSE {n})])
        /\ TreeStays

\* A click on a row.
Click(n) ==
    /\ UserStep
    /\ n \in Shown(rows) /\ n # cursor
    /\ ShowView(SelectionChanged(View, n))
    /\ TreeStays

\* feed_list_view_move_cursor()
MoveCursor(delta) ==
    LET list == FlatList(rows)
        at == IF cursor = NoNode THEN 1 ELSE Position(rows, cursor) + delta
    IN  /\ UserStep
        /\ at \in DOMAIN list
        /\ ShowView(SelectionChanged(View, list[at]))
        /\ TreeStays

\* The next unread feed is looked for, an item of the history is shown, or a
\* search starts, which selects no feed.
SelectElsewhere(n) ==
    /\ UserStep
    /\ n \in (Live \ {Root}) \union {NoNode} /\ n # selected
    /\ \E kept \in BOOLEAN : ShowView(SetSelected(View, children, n, kept))
    /\ TreeStays

\* feedlist_node_was_updated() and the end of a recount
NodeUpdated(n) ==
    /\ Step
    /\ n \in Live
    /\ ShowView(RefreshNode(View, children, n))
    /\ saveTimer' = TRUE
    /\ UNCHANGED <<children, settings, dialog, file, last>>

-----------------------------------------------------------------------------
(* Changes of the tree.                                                    *)

\* feedlist_get_parent_node(), and the position after the selected node
ParentForNew ==
    IF selected = NoNode THEN Root
    ELSE IF IsFolder(selected) THEN selected ELSE ParentIn(children, selected)

WithNew(n) ==
    LET list == children[ParentForNew]
        at == IF selected \in Range(list) THEN SelectInSeq(list, LAMBDA k : k = selected) + 1
              ELSE Len(list) + 1
    IN  [children EXCEPT ![ParentForNew] = InsertAt(list, at, n), ![n] = <<>>]

\* feedlist_node_added() of a node with the settings w
Added(n, w) ==
    LET c == WithNew(n)
        v == InsertNodeItem([View EXCEPT !.expanded = @ \ {n}], c, n)
    IN  /\ n \notin Live
        /\ children' = c
        /\ settings' = [settings EXCEPT ![n] = w]
        /\ ShowView(IF Kind[n] = "folder" THEN SetSelected(v, c, n, TRUE) ELSE v)
        /\ saveTimer' = TRUE
        /\ UNCHANGED <<file, last>>

\* default_source_add_subscription()
SubscriptionAdded(s) ==
    \E n \in Nodes : Kind[n] = "feed" /\ Added(n, [own |-> {}, sub |-> s])

\* The dialogs for new folders, search folders and news bins; only a new folder
\* is selected.
NodeAdded(n) ==
    /\ UserStep
    /\ Kind[n] \in {"folder", "vfolder", "newsbin"}
    /\ Added(n, [Unset EXCEPT !.own = CASE Kind[n] = "newsbin" -> {"title", "reduced"}
                                        [] Kind[n] = "vfolder" -> {"title", "rules"}
                                        [] OTHER -> {"title"}])

\* feedlist_find_node() for a source
Subscribed(source) == \E n \in Live : Kind[n] = "feed" /\ settings[n].sub.source = source

\* on_applybtn_clicked(), feedlist_add_subscription_check_duplicate()
AddByUrl(entry) ==
    LET s == NewSubscription(CreateUrl(entry, FALSE, <<>>))
    IN  /\ Step
        /\ dialog = NoDialog
        /\ IF Subscribed(s.source)
           THEN dialog' = [kind |-> "duplicate", sub |-> s] /\ UNCHANGED <<nodes, view, file, last>>
           ELSE SubscriptionAdded(s) /\ UNCHANGED dialog

\* feed_list_view_confirm_add_subscription_cb()
AddDuplicate ==
    /\ dialog.kind = "duplicate"
    /\ SubscriptionAdded(dialog.sub)
    /\ dialog' = NoDialog /\ UNCHANGED steps

\* feedlist_node_removed(), children first; m is [children, view].
RemovedNode(m, n, told) ==
    LET v == IF m.view.selected = n THEN [m.view EXCEPT !.selected = NoNode] ELSE m.view
        p == ParentIn(m.children, n)
    IN  [children |-> [m.children EXCEPT ![p] = Remove(@, n)],
         view |-> RemoveNodeItem(v, n, told)]

RemovedSubtree(c, v, n, told) ==
    LET start == IF v.selected = n THEN [v EXCEPT !.selected = NoNode] ELSE v
        list == SelectSeq(Preorder(c), LAMBDA k : k \in BelowIn(c, n))
        order == SortSeq(list, LAMBDA a, b : b \in AncestorsIn(c, a))
    IN  FoldLeft(LAMBDA m, k : RemovedNode(m, k, told), [children |-> c, view |-> start], order)

\* The selected node is deleted with the Delete key or from a menu.
DeleteSelected ==
    /\ UserStep
    /\ selected # NoNode
    /\ \E told \in BOOLEAN :
          LET m == RemovedSubtree(children, View, selected, told)
          IN  children' = m.children /\ ShowView(m.view)
    /\ settings' = [n \in Nodes |-> IF n \in InTree(children') THEN settings[n] ELSE Unset]
    /\ saveTimer' = TRUE
    /\ UNCHANGED <<file, last>>

\* feed_list_view_node_moved()
MovedRow(v, c, n, told) ==
    LET moved == InsertNodeItem(RemoveNodeItem(v, n, told), c, n)
        open == IF Expandable(n) /\ n \in moved.expanded THEN RefreshNode(moved, c, n) ELSE moved
    IN  IF open.selected = n THEN SelectRow(open, c, n, TRUE) ELSE open

\* feedlist_node_was_moved(): n becomes the child of p before the one that was
\* at position at, or the last one.
Reparented(n, p, at) ==
    LET old == ParentIn(children, n)
        was == SelectInSeq(children[old], LAMBDA k : k = n)
        without == [children EXCEPT ![old] = Remove(@, n)]
        to == IF at = 0 THEN Len(without[p]) + 1
              ELSE IF old = p /\ at > was THEN at - 1 ELSE at
    IN  [without EXCEPT ![p] = InsertAt(@, to, n)]

\* on_feed_drop_on_row(), ui_dnd_feed_drop_possible(): a row is dropped on that
\* of target, which gets it as its last child or as the sibling before itself.
NodeMoved(n, target) ==
    LET p == IF IsFolder(target) THEN target ELSE ParentIn(children, target)
        at == IF IsFolder(target) THEN 0 ELSE SelectInSeq(children[p], LAMBDA k : k = target)
        c == Reparented(n, p, at)
        old == ParentIn(children, n)
    IN  /\ UserStep
        /\ {n, target} \subseteq Shown(rows)
        /\ p \notin BelowIn(children, n)
        /\ children' = c
        /\ \E told \in BOOLEAN :
              LET v == RefreshNode(RefreshNode(MovedRow(View, c, n, told), c, n), c, old)
              IN  ShowView(IF p = old THEN v ELSE RefreshNode(v, c, p))
        /\ saveTimer' = TRUE
        /\ UNCHANGED <<settings, file, last>>

\* A property of a node is changed, or changed back, in a dialog; the sort
\* order only of the selected node.
Editable(n) ==
    {"title"} \union IF Kind[n] = "vfolder" THEN {"rules"}
                     ELSE IF Kind[n] = "newsbin" THEN {"reduced"} ELSE {}

Edit(n, a) ==
    /\ UserStep
    /\ n \in Live \ {Root}
    /\ a \in Editable(n) \/ (a = "sort" /\ n = selected)
    /\ settings' = [settings EXCEPT ![n].own = SymDiff(@, {a})]
    /\ ShowView(IF a = "sort" \/ Kind[n] = "newsbin" THEN View ELSE RefreshNode(View, children, n))
    /\ saveTimer' = TRUE
    /\ UNCHANGED <<children, file, last>>

\* subscription_prop_dialog_new() for a feed of the list
OpenProperties(n) ==
    /\ Step
    /\ dialog = NoDialog
    /\ n \in Shown(rows) /\ Kind[n] = "feed"
    /\ dialog' = [kind |-> "properties", node |-> n, title |-> "title" \in settings[n].own,
                  form |-> Loaded(settings[n].sub, Preference)]
    /\ UNCHANGED <<nodes, view, file, last>>

\* The same for a subscription that is not in the list yet, whose address is
\* still to be typed.
OpenAdvanced ==
    LET s == NewSubscription([Url("") EXCEPT !.slash = FALSE])
    IN  /\ Step
        /\ dialog = NoDialog
        /\ dialog' = [kind |-> "new", sub |-> s, form |-> Loaded(s, Preference)]
        /\ UNCHANGED <<nodes, view, file, last>>

\* The changes that can be made to a form; two options stand for all.
Changes(f) ==
    {[f EXCEPT !.radio = r, !.entry = t] : r \in {"url", "file", "command"}, t \in Entries}
    \union {[f EXCEPT !.auth = TRUE, !.login = <<"user", "password">>], [f EXCEPT !.auth = FALSE]}
    \union {[f EXCEPT !.interval = IntervalFields(m, Preference)] : m \in Minutes \union {-1, -2}}
    \union {[f EXCEPT !.filtered = TRUE, !.filter = <<"command">>], [f EXCEPT !.filtered = FALSE]}
    \union {[f EXCEPT !.cache = CacheFields(c)] : c \in {CacheDefault, CacheUnlimited, 0, 100}}
    \union {[f EXCEPT !.options = SymDiff(@, {o})] : o \in {"dontUseProxy", "markAsRead"}}

FillIn ==
    /\ Step
    /\ \/ dialog.kind = "properties" /\ dialog' = [dialog EXCEPT !.title = ~@]
       \/ /\ dialog.kind \in {"properties", "new"}
          /\ \E f \in Changes(dialog.form) : dialog' = [dialog EXCEPT !.form = f]
    /\ UNCHANGED <<nodes, view, file, last>>

\* on_dialog_response() with a node, feedlist_node_was_updated()
ApplyProperties ==
    /\ dialog.kind = "properties"
    /\ LET n == dialog.node
           own == settings[n].own \ {"title"}
       IN  /\ settings' = [settings EXCEPT ![n] =
                               [own |-> IF dialog.title THEN own \union {"title"} ELSE own,
                                sub |-> Applied(@.sub, dialog.form)]]
           /\ ShowView(RefreshNode(View, children, n))
    /\ saveTimer' = TRUE
    /\ dialog' = NoDialog
    /\ UNCHANGED <<children, file, last, steps>>

\* on_dialog_response() without a node, feedlist_add_subscription()
ApplyNew ==
    /\ dialog.kind = "new"
    /\ SubscriptionAdded(Applied(dialog.sub, dialog.form))
    /\ dialog' = NoDialog /\ UNCHANGED steps

\* A new subscription is freed.
Cancel ==
    /\ dialog # NoDialog
    /\ dialog' = NoDialog
    /\ UNCHANGED <<nodes, view, file, last, steps>>

\* Discovery or a redirect gives the feed another address, while the dialog is
\* open or not.
SourceChanged(n, entry) ==
    /\ Step
    /\ n \in Live /\ Kind[n] = "feed"
    /\ settings' = [settings EXCEPT ![n].sub.source = CreateUrl(entry, FALSE, <<>>)]
    /\ saveTimer' = TRUE
    /\ UNCHANGED <<children, view, dialog, file, last>>

\* on_import_activate_cb(): the list that was exported for other programs comes
\* back into a new folder, or the file cannot be read and the folder goes.
Import(folder, readable) ==
    LET c == WithNew(folder)
        list == Exported(FALSE)
        v == InsertNodeItem([View EXCEPT !.expanded = @ \ {folder}], c, folder)
        start == [children |-> c, settings |-> [settings EXCEPT ![folder] = [Unset EXCEPT !.own = {"title"}]],
                  view |-> v, names |-> (Root :> folder)]
        m == IF readable THEN Imported(start, list, FALSE)
             ELSE [RemovedSubtree(c, v, folder, TRUE) EXCEPT !.children = @] @@ start
    IN  /\ UserStep
        /\ folder \notin Live /\ Kind[folder] = "folder"
        /\ readable => \A k \in {"feed", "folder"} :
              Cardinality({i \in DOMAIN list : Kind[list[i].id] = k})
                 <= Cardinality({n \in Nodes \ InTree(c) : Kind[n] = k})
        /\ children' = m.children /\ settings' = m.settings
        /\ ShowView(m.view)
        /\ saveTimer' = TRUE
        /\ UNCHANGED <<file, last>>

-----------------------------------------------------------------------------
(* The file and the start of the program.                                  *)

\* feedlist_schedule_save_cb(): a copy is written and renamed, so that the file
\* is the old or the new one when the program is killed.
SaveTimer ==
    /\ saveTimer
    /\ saveTimer' = FALSE
    /\ file' = Exported(TRUE)
    /\ UNCHANGED <<children, settings, view, dialog, last, steps>>

Nowhere == [children |-> [n \in Nodes |-> <<>>], settings |-> [n \in Nodes |-> Unset],
            view |-> [rows |-> <<>>, cursor |-> NoNode, expanded |-> {}, selected |-> NoNode],
            names |-> (Root :> Root)]

\* feed_list_view_rebuild(): the model gets the top level and selects its first
\* row, then every node is refreshed.
RebuiltView(v, c) ==
    FoldLeft(LAMBDA w, n : RefreshNode(w, c, n),
             WithRows(v, Root :> c[Root], 1), Preorder(c))

\* feedlist_finalize(): feed list and selection are saved.
LastSelected(killed) == IF killed \/ selected = NoNode THEN last ELSE selected

\* node_source_import_feedlist()
ReadFeedList(killed) == Imported(Nowhere, IF killed THEN file ELSE Exported(TRUE), TRUE)

\* feed_list_view_create(), at whose end nothing is selected
ViewCreated(m, kept) == SelectRow(RebuiltView(m.view, m.children), m.children, NoNode, kept)

\* The program ends, or is killed, and starts again; the feed list is loaded,
\* shown, and the last selection restored.
Restart(killed) ==
    LET m == ReadFeedList(killed)
        n == IF LastSelected(killed) \in InTree(m.children) THEN LastSelected(killed) ELSE NoNode
    IN  /\ Step
        /\ children' = m.children /\ settings' = m.settings
        /\ file' = IF killed THEN file ELSE Exported(TRUE)
        /\ last' = LastSelected(killed)
        /\ \E kept \in BOOLEAN :
              ShowView(SetSelected(ViewCreated(m, kept), m.children, n, kept))
        /\ saveTimer' = TRUE
        /\ dialog' = NoDialog

-----------------------------------------------------------------------------
\* The first start with a list.
Init ==
    LET settingsOf(n) == CASE Kind[n] = "feed" -> [own |-> {}, sub |-> NewSubscription(InitialSource)]
                           [] Kind[n] = "vfolder" -> [Unset EXCEPT !.own = {"rules"}]
                           [] OTHER -> Unset
    IN  /\ children = InitialChildren
        /\ settings = [n \in Nodes |-> IF n \in Live THEN settingsOf(n) ELSE Unset]
        /\ last = InitialLast
        /\ \E kept \in BOOLEAN :
              LET v == [Nowhere.view EXCEPT !.expanded = InitialOpen]
                  w == SetSelected(ViewCreated([view |-> v, children |-> children], kept),
                                   children, last, kept)
              IN  /\ rows = w.rows /\ cursor = w.cursor
                  /\ expanded = w.expanded /\ selected = w.selected
        /\ saveTimer = TRUE
        /\ dialog = NoDialog
        /\ file = Exported(TRUE)
        /\ steps = 0

ViewStep ==
    \/ \E n \in Nodes : Expand(n) \/ Collapse(n) \/ Click(n) \/ NodeUpdated(n)
    \/ \E delta \in {-1, 1} : MoveCursor(delta)
    \/ \E n \in Nodes \union {NoNode} : SelectElsewhere(n)

TreeStep ==
    \/ \E n \in Nodes : NodeAdded(n)
    \/ \E entry \in Entries : AddByUrl(entry)
    \/ DeleteSelected
    \/ \E n, target \in Nodes : NodeMoved(n, target)
    \/ \E n \in Nodes : \E a \in Editable(n) \union {"sort"} : Edit(n, a)
    \/ \E folder \in Nodes, readable \in BOOLEAN : Import(folder, readable)

DialogStep ==
    \/ \E n \in Nodes : OpenProperties(n)
    \/ OpenAdvanced \/ FillIn \/ ApplyProperties \/ ApplyNew \/ AddDuplicate \/ Cancel
    \/ \E n \in Nodes, entry \in Entries : SourceChanged(n, entry)

Next == ViewStep \/ TreeStep \/ DialogStep \/ SaveTimer \/ \E killed \in BOOLEAN : Restart(killed)

Spec == Init /\ [][Next]_vars

-----------------------------------------------------------------------------
\* The widget, which only follows signals, shows the tree: every open folder
\* has the rows of its children in their order, and no row is of a node that
\* is gone.
RowsMatchTree == \A p \in DOMAIN rows : p \in Live /\ rows[p] = children[p]

\* What the comment on selectedNode in feedlist.c says, as far as anything is
\* highlighted: the feed that Delete, Properties and new subscriptions refer to
\* is the highlighted one, however rows come, go, move and change the highlight,
\* and never one that is gone.
SelectionAgrees ==
    selected # NoNode => selected \in Live /\ cursor \in {selected, NoNode}

SavedOpen(list) == {o.id : o \in {x \in Range(list) : x.open}}

\* Whenever the program ends in an orderly way and starts again, the feed list
\* comes back as it is, with all settings of its nodes but those of news bins;
\* when it is killed, as it was last saved, node by node and setting by setting.
\* Folders that were open are open again.
ListComesBack ==
    \A killed \in BOOLEAN :
        LET list == IF killed THEN file ELSE Exported(TRUE)
            m == ReadFeedList(killed)
        IN  /\ ~killed => m.children = children
            /\ ~killed => \A n \in Live : Kind[n] # "newsbin" => m.settings[n] = settings[n]
            /\ Preorder(m.children) = [i \in DOMAIN list |-> list[i].id]
            /\ \A o \in Range(list) :
                  ParentIn(m.children, o.id) = o.parent /\ m.settings[o.id] = [own |-> o.attrs, sub |-> o.sub]
            /\ SavedOpen(list) \subseteq ViewCreated(m, TRUE).expanded
=============================================================================
