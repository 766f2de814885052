------------------------------ MODULE Browser ------------------------------
(***************************************************************************)
(* The views that show web pages: the notebook of tabs (ui/browser_tabs.c),*)
(* in each page a browser with history, URL bar and web view               *)
(* (ui/liferea_browser.c, browser_history.c, src/webkit/), and in the      *)
(* first page the headlines browser that shows the selected node or item   *)
(* (ui/content_view.c).  Loads are asynchronous: the web view reports a    *)
(* commit later, perhaps that of a load that was already superseded.  Each *)
(* web view has a process that registers its page over D-Bus.              *)
(***************************************************************************)
EXTENDS Integers, Sequences, FiniteSets, SequencesExt

CONSTANTS
    Views,          \* browsers that may exist, 1..n; 1 is the headlines browser
    Urls,           \* external pages
    Downloads,      \* the URLs whose answer is saved and not shown
    HelpUrl,        \* the help page
    Nodes, Items,   \* what the headlines browser can show
    None,
    MaxOps,         \* bound: things the user does
    MaxProcesses    \* bound: web processes at a time

ASSUME BrowserAssumption ==
    /\ Cardinality(Views) \in Nat \ {0} /\ Views = 1..Cardinality(Views)
    /\ Downloads \subseteq Urls /\ HelpUrl \in Urls \ Downloads
    /\ None \notin Urls \union Nodes \union Items
    /\ Urls \intersect (Nodes \union Items \union {"blank", "monitor"}) = {}
    /\ MaxOps \in Nat /\ MaxProcesses \in Nat

VARIABLES
    pages,      \* the notebook, a sequence of views
    active,     \* the current page
    opened,     \* views created so far
    browser,    \* per view: see NewBrowser
    process,    \* per view: state of its web process and of its page there
    jsOff,      \* the preference "disable JavaScript"
    content,    \* the content view: what it thinks it shows
    node,       \* the selected node
    monitors,   \* views that are named "Update Monitor"
    timers,     \* running refresh timers of the update monitor
    scrolls,    \* scroll calls without an answer
    asked,      \* history: was the last launch of a view a step in its history?
    ops

vars == <<pages, active, opened, browser, process, jsOff, content, node, monitors, timers,
          scrolls, asked, ops>>

Headlines == 1
Blank == "blank"
Monitor == "monitor"
External(d) == d \in Urls
Open == ToSet(pages)
AtRest(v) == browser[v].loads = <<>>
Act == ops < MaxOps /\ ops' = ops + 1

-----------------------------------------------------------------------------
(* browser_history.c: a list of locations and the current one, 0 for none. *)

NoHistory == [locations |-> <<>>, current |-> 0]
CanGoBack(h) == h.current > 1
CanGoForward(h) == h.current \in 1..(Len(h.locations) - 1)
GoBack(h) == [h EXCEPT !.current = @ - 1]
GoForward(h) == [h EXCEPT !.current = @ + 1]
Location(h) == h.locations[h.current]

AddLocation(h, u) ==
    IF h.current > 0 /\ Location(h) = u THEN h
    ELSE [locations |-> Append(SubSeq(h.locations, 1, h.current), u), current |-> h.current + 1]

-----------------------------------------------------------------------------
(* liferea_browser.c: what the code does to one browser. *)

NewBrowser ==
    [url |-> None,          \* browser->url
     shown |-> Blank,       \* the document in the web view
     loads |-> <<Blank>>,   \* loads that may still be committed
     history |-> NoHistory,
     toolbar |-> FALSE, hiddenBar |-> FALSE,
     js |-> TRUE]

\* A new load normally cancels the one under way, if that is not committed already.
Loads(b, d) == {<<d>>} \union {<<e, d>> : e \in ToSet(b.loads)}

\* liferea_webkit_default_settings()
DefaultSettings(b) == [b EXCEPT !.js = ~jsOff]

LaunchSettings(b) == DefaultSettings(b)

LaunchUrl(b, u) ==
    {[LaunchSettings(b) EXCEPT !.url = u, !.loads = l] : l \in Loads(b, u)}

\* liferea_webkit_write_html()
WriteHtml(b, d) == {[b EXCEPT !.js = TRUE, !.loads = l] : l \in Loads(b, d)}

\* (slip) the URL of the page before is kept
SetViewOnly(b, d) == WriteHtml(b, d)

SetView(b, d) == WriteHtml([b EXCEPT !.url = None], d)

Write(b, d) == WriteHtml([b EXCEPT !.toolbar = FALSE], d)

\* (slip) the location that the web view reports
ReportedLocation(b, d) == d

\* The URL that was launched, "as the Webkit location does not always reflect the URL".
SavedLocation(b, d) == b.url

LocationChanged(b, d) ==
    IF b.url # None /\ ~b.hiddenBar
    THEN [b EXCEPT !.history = AddLocation(@, SavedLocation(b, d)), !.toolbar = TRUE]
    ELSE [b EXCEPT !.toolbar = FALSE]

-----------------------------------------------------------------------------
Becomes(v, outcomes) == \E b \in outcomes : browser' = [browser EXCEPT ![v] = b]

Init ==
    /\ pages = <<Headlines>> /\ active = Headlines /\ opened = 1
    /\ browser = [v \in Views |-> NewBrowser]
    /\ process = [v \in Views |-> [state |-> "none", page |-> "none", dbus |-> FALSE]]
    /\ jsOff = TRUE
    /\ content = [mode |-> "none", item |-> None, node |-> None]
    /\ node = None /\ monitors = {} /\ timers = 0 /\ scrolls = 0
    /\ asked = [v \in Views |-> "link"] /\ ops = 0

\* liferea_browser_launch_URL_internal() from the URL bar, or a link of the page.
Launch(v, u) ==
    /\ Act /\ active = v
    /\ Becomes(v, LaunchUrl(browser[v], u))
    /\ asked' = [asked EXCEPT ![v] = "link"]
    /\ UNCHANGED <<pages, active, opened, process, jsOff, content, node, monitors, timers, scrolls>>

\* The buttons are in the toolbar and sensitive if the history can go there.
Step(v, can, gone) ==
    /\ Act /\ active = v /\ browser[v].toolbar /\ can
    /\ LET b == [browser[v] EXCEPT !.history = gone]
       IN Becomes(v, LaunchUrl(b, Location(b.history)))
    /\ asked' = [asked EXCEPT ![v] = "history"]
    /\ UNCHANGED <<pages, active, opened, process, jsOff, content, node, monitors, timers, scrolls>>

Back(v) == Step(v, CanGoBack(browser[v].history), GoBack(browser[v].history))
Forward(v) == Step(v, CanGoForward(browser[v].history), GoForward(browser[v].history))

\* A response of another type becomes a download and is not committed.
Responded(b, d) ==
    IF d \in Downloads THEN {b} ELSE {LocationChanged([b EXCEPT !.shown = d], d)}

\* WEBKIT_LOAD_COMMITTED
Committed(v) ==
    /\ v \in Open /\ ~AtRest(v)
    /\ LET d == Head(browser[v].loads)
           b == [browser[v] EXCEPT !.loads = Tail(@)]
       IN Becomes(v, Responded(b, d))
    /\ UNCHANGED <<pages, active, opened, process, jsOff, content, node, monitors, timers,
                   scrolls, asked, ops>>

\* An external page replaces itself, by a form or a script.
Redirects(v) ==
    /\ Act /\ v \in Open /\ AtRest(v) /\ External(browser[v].shown)
    /\ Becomes(v, {LocationChanged(browser[v], browser[v].shown)})
    /\ UNCHANGED <<pages, active, opened, process, jsOff, content, node, monitors, timers,
                   scrolls, asked>>

-----------------------------------------------------------------------------
(* browser_tabs.c *)

\* browser_tabs_add_new(): outcomes are those of what NewBrowser loads.
AddTab(outcomes, activate) ==
    /\ opened + 1 \in Views
    /\ opened' = opened + 1 /\ pages' = Append(pages, opened + 1)
    /\ active' = IF activate THEN opened + 1 ELSE active
    /\ Becomes(opened + 1, outcomes)

OpenTab(u, activate) ==
    /\ Act /\ AddTab(LaunchUrl(NewBrowser, u), activate)
    /\ UNCHANGED <<process, jsOff, content, node, monitors, timers, scrolls, asked>>

\* The help tab has no URL bar.
ShowHelp ==
    /\ Act /\ AddTab({[x EXCEPT !.hiddenBar = TRUE] : x \in LaunchUrl(NewBrowser, HelpUrl)}, TRUE)
    /\ UNCHANGED <<process, jsOff, content, node, monitors, timers, scrolls, asked>>

\* browser_tabs_get_tab() skips the page of the headlines.
NamedTabs == {pages[k] : k \in 2..Len(pages)}

ShowMonitor ==
    /\ Act
    /\ LET named == NamedTabs \intersect monitors
       IN \/ /\ named # {} /\ active' = CHOOSE v \in named : TRUE
             /\ UNCHANGED <<pages, opened, browser, monitors, timers>>
          \/ /\ named = {} /\ AddTab(SetView(NewBrowser, Monitor), TRUE)
             /\ monitors' = monitors \union {opened + 1} /\ timers' = timers + 1
    /\ UNCHANGED <<process, jsOff, content, node, scrolls, asked>>

\* A refresh timer stops when it finds no tab.
RefreshMonitor ==
    /\ timers > 0 /\ NamedTabs \intersect monitors = {}
    /\ timers' = timers - 1
    /\ UNCHANGED <<pages, active, opened, browser, process, jsOff, content, node, monitors,
                   scrolls, asked, ops>>

NoProcess == [state |-> "none", page |-> "none", dbus |-> FALSE]

\* The k-th page, its browser and its web view go; GTK shows a neighbour.
RemovePage(k) ==
    /\ pages' = RemoveAt(pages, k)
    /\ active' \in IF active = pages[k] THEN ToSet(pages') ELSE {active}
    /\ process' = [process EXCEPT ![pages[k]] = NoProcess]
    /\ monitors' = monitors \ {pages[k]}
    /\ UNCHANGED <<opened, browser, jsOff, content, node, timers, scrolls, asked>>

CloseByKey == Act /\ \E k \in 2..Len(pages) : pages[k] = active /\ RemovePage(k)

\* The handler of the button passes no widget, for which GTK takes the last page.
CloseByButton == Act /\ Len(pages) > 1 /\ RemovePage(Len(pages))

SwitchPage(v) ==
    /\ Act /\ v \in Open \ {active} /\ active' = v
    /\ UNCHANGED <<pages, opened, browser, process, jsOff, content, node, monitors, timers,
                   scrolls, asked>>

-----------------------------------------------------------------------------
(* content_view.c *)

\* The view is not written again for what it was written for before.
ShowItem(i) ==
    /\ content' = [content EXCEPT !.mode = "item", !.item = i]
    /\ IF content.item = i THEN UNCHANGED browser
       ELSE Becomes(Headlines, SetView(browser[Headlines], i))

ShowNode(n) ==
    /\ content' = [content EXCEPT !.mode = "node", !.node = n]
    /\ IF content.node = n THEN UNCHANGED browser
       ELSE Becomes(Headlines, SetView(browser[Headlines], n))

SelectNode(n) ==
    /\ Act /\ n # node
    /\ node' = n /\ active' = Headlines /\ ShowNode(n)
    /\ UNCHANGED <<pages, opened, process, jsOff, monitors, timers, scrolls, asked>>

SelectItem(i) ==
    /\ Act /\ node # None /\ ShowItem(i)
    /\ UNCHANGED <<pages, active, opened, process, jsOff, node, monitors, timers, scrolls, asked>>

\* search_load_results(): no node is selected and the headlines browser is cleared.
Search ==
    /\ Act /\ node' = None
    /\ Becomes(Headlines, Write(browser[Headlines], Blank))
    /\ UNCHANGED <<pages, active, opened, process, jsOff, content, monitors, timers, scrolls, asked>>

\* The space key asks the page to scroll; without a connection nothing happens.
Scroll ==
    /\ Act /\ process[Headlines].dbus /\ scrolls' = scrolls + 1
    /\ UNCHANGED <<pages, active, opened, browser, process, jsOff, content, node, monitors,
                   timers, asked>>

\* The answer "false" moves on to the next unread item, whatever is selected by now.
Scrolled ==
    /\ scrolls > 0 /\ scrolls' = scrolls - 1
    /\ \/ UNCHANGED <<browser, content>>
       \/ node # None /\ \E i \in Items : ShowItem(i)
    /\ UNCHANGED <<pages, active, opened, process, jsOff, node, monitors, timers, asked, ops>>

\* Every settings object follows the preference.
TogglePreference ==
    /\ Act /\ jsOff' = ~jsOff
    /\ browser' = [v \in Views |-> [browser[v] EXCEPT !.js = jsOff]]
    /\ UNCHANGED <<pages, active, opened, process, content, node, monitors, timers, scrolls, asked>>

-----------------------------------------------------------------------------
(* The web process of a view and its extension (src/webkit/web_extension/). *)

ProcessBecomes(v, p) ==
    /\ process' = [process EXCEPT ![v] = p]
    /\ UNCHANGED <<pages, active, opened, browser, jsOff, content, node, monitors, timers,
                   scrolls, asked, ops>>

\* A load needs a process.
StartProcess(v) ==
    /\ v \in Open /\ ~AtRest(v) /\ process[v].state = "none"
    /\ Cardinality({w \in Views : process[w].state # "none"}) < MaxProcesses
    /\ ProcessBecomes(v, [process[v] EXCEPT !.state = "connecting"])

\* The page is announced at once or when the connection is there.
PageCreated(v) ==
    /\ process[v].state # "none" /\ process[v].page = "none"
    /\ ProcessBecomes(v, [process[v] EXCEPT !.page =
                            IF process[v].state = "connected" THEN "sent" ELSE "queued"])

\* (slip) the pages that were created before are forgotten
DropPending(page) == page

EmitPending(page) == IF page = "queued" THEN "sent" ELSE page

Connected(v) ==
    /\ process[v].state = "connecting"
    /\ \/ ProcessBecomes(v, [process[v] EXCEPT !.state = "connected", !.page = EmitPending(@)])
       \/ ProcessBecomes(v, [process[v] EXCEPT !.state = "failed"])

\* The signal PageCreated arrives; the view whose page it is takes the connection.
Announced(v) ==
    /\ process[v].page = "sent"
    /\ ProcessBecomes(v, [process[v] EXCEPT !.page = "known", !.dbus = TRUE])

\* The process dies, the connection closes and the weak pointer is cleared.
ProcessGone(v) ==
    /\ Act /\ process[v].state # "none"
    /\ process' = [process EXCEPT ![v] = NoProcess]
    /\ UNCHANGED <<pages, active, opened, browser, jsOff, content, node, monitors, timers,
                   scrolls, asked>>

Next ==
    \/ \E v \in Views :
        \/ \E u \in Urls : Launch(v, u)
        \/ Back(v) \/ Forward(v) \/ Committed(v) \/ Redirects(v)
        \/ SwitchPage(v)
        \/ StartProcess(v) \/ PageCreated(v) \/ Connected(v) \/ Announced(v) \/ ProcessGone(v)
    \/ \E u \in Urls, activate \in BOOLEAN : OpenTab(u, activate)
    \/ ShowHelp \/ ShowMonitor \/ RefreshMonitor \/ CloseByKey \/ CloseByButton
    \/ \E n \in Nodes : SelectNode(n)
    \/ \E i \in Items : SelectItem(i)
    \/ Search \/ Scroll \/ Scrolled \/ TogglePreference

Spec == Init /\ [][Next]_vars

-----------------------------------------------------------------------------
(* Properties *)

(***************************************************************************)
(* With nothing left to load, the toolbar, the URL and the current         *)
(* location of the history belong to the page that is shown: internal      *)
(* pages have no toolbar.  Exceptions are a view that was told to load a   *)
(* download, and one that a search has cleared, which keeps its URL        *)
(* (liferea_browser_location_changed).                                     *)
(***************************************************************************)
BarsMatchPage ==
    \A v \in Open : LET b == browser[v] IN
        AtRest(v) /\ b.url \notin Downloads /\ b.shown # Blank =>
            /\ b.toolbar <=> External(b.shown) /\ ~b.hiddenBar
            /\ b.toolbar => b.url = b.shown /\ Location(b.history) = b.shown

(***************************************************************************)
(* Going back or forward never changes the list of locations, whenever the *)
(* loads are committed and whatever was still loading: the pages ahead are *)
(* not lost (browser_history_add_location called from the commit).         *)
(***************************************************************************)
StepsKeepLocations ==
    [][\A v \in Views : asked[v] = "history" /\ asked'[v] = "history" =>
            browser'[v].history.locations = browser[v].history.locations]_vars

(***************************************************************************)
(* Every page that its process has created is known to its view once the   *)
(* connection is up and the signals have arrived, in whatever order page   *)
(* and connection come (liferea_web_extension_emit_pending_pages_created). *)
(***************************************************************************)
PagesAreKnown ==
    \A v \in Views : process[v].state = "connected" =>
        process[v].page \in {"none", "sent"} \/ process[v].dbus

(***************************************************************************)
(* The headlines browser shows the item or the node that was selected last *)
(* unless the user has gone elsewhere in it (content_view.c).              *)
(***************************************************************************)
SelectionIsShown ==
    LET b == browser[Headlines] IN
    AtRest(Headlines) /\ b.url = None /\ b.shown # Blank =>
        /\ content.mode = "item" => b.shown = content.item
        /\ content.mode = "node" => b.shown = content.node

=============================================================================
