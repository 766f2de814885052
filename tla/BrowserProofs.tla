--------------------------- MODULE BrowserProofs ---------------------------
(***************************************************************************)
(* Proofs about Browser, for any number of views, pages and operations.    *)
(***************************************************************************)
EXTENDS Browser, TLAPS

Documents == Urls \union Nodes \union Items \union {Blank, Monitor}

Histories == [locations : Seq(Urls), current : Nat]

Browsers ==
    [url : Urls \union {None}, shown : Documents, loads : Seq(Documents),
     history : Histories, toolbar : BOOLEAN, hiddenBar : BOOLEAN, js : BOOLEAN]

Processes ==
    [state : {"none", "connecting", "connected", "failed"},
     page : {"none", "queued", "sent", "known"}, dbus : BOOLEAN]

\* What the variables may hold.
TypeOK ==
    /\ opened \in Views /\ pages \in Seq(1..opened) /\ active \in 1..opened
    /\ browser \in [Views -> Browsers]
    /\ process \in [Views -> Processes]
    /\ jsOff \in BOOLEAN
    /\ content \in [mode : {"none", "item", "node"}, item : Items \union {None},
                    node : Nodes \union {None}]
    /\ node \in Nodes \union {None}
    /\ monitors \subseteq Views /\ timers \in Nat /\ scrolls \in Nat
    /\ asked \in [Views -> {"link", "history"}]
    /\ ops \in 0..MaxOps

\* The current location of a history is one of the list.
Within(h) == h.current <= Len(h.locations)

\* The last load will show what the URL names, or clears the view, and an internal
\* document if there is no URL.
LoadsEndAtUrl(b) ==
    b.loads # <<>> =>
        IF b.url = None THEN b.loads[Len(b.loads)] \notin Urls
        ELSE b.loads[Len(b.loads)] \in {b.url, Blank}

\* BarsMatchPage of one browser.
AtUrl(h, u) == h.current > 0 /\ Location(h) = u

Settled(b) ==
    b.loads = <<>> /\ b.url \notin Downloads /\ b.shown # Blank =>
        IF b.url = None THEN b.shown \notin Urls /\ ~b.toolbar
        ELSE /\ b.shown = b.url /\ b.toolbar = ~b.hiddenBar
             /\ b.toolbar => AtUrl(b.history, b.url)

Coherent(b) == b \in Browsers /\ Within(b.history) /\ LoadsEndAtUrl(b) /\ Settled(b)

\* After a step in its history a browser is where its history is, until it gets
\* another document or URL.
StepsMatch ==
    \A v \in Views : asked[v] = "history" =>
        /\ v <= opened
        /\ browser[v].url # None => AtUrl(browser[v].history, browser[v].url)

\* A page that is known has been announced over D-Bus, and none waits once the
\* connection is there.
Announcements ==
    \A v \in Views :
        /\ process[v].page = "known" => process[v].dbus
        /\ process[v].state = "connected" => process[v].page # "queued"

IInv ==
    /\ TypeOK
    /\ \A v \in Views : Coherent(browser[v])
    /\ StepsMatch
    /\ Announcements

-----------------------------------------------------------------------------
(* The operators on histories and browsers. *)

LEMMA LocationAdded ==
    ASSUME NEW h \in Histories, Within(h), NEW u \in Urls
    PROVE  /\ AddLocation(h, u) \in Histories
           /\ Within(AddLocation(h, u))
           /\ AtUrl(AddLocation(h, u), u)
           /\ AtUrl(h, u) => AddLocation(h, u) = h
<1>1. CASE h.current > 0 /\ Location(h) = u
  BY <1>1 DEF AddLocation, AtUrl
<1>2. CASE ~(h.current > 0 /\ Location(h) = u)
  <2>. DEFINE s == SubSeq(h.locations, 1, h.current)
  <2>1. h.locations \in Seq(Urls) /\ h.current \in Nat /\ h.current <= Len(h.locations)
    BY DEF Histories, Within
  <2>2. s \in Seq(Urls) /\ Len(s) = h.current
    BY <2>1
  <2>. HIDE DEF s
  <2>3. Append(s, u) \in Seq(Urls) /\ Len(Append(s, u)) = h.current + 1
        /\ Append(s, u)[h.current + 1] = u
    BY <2>1, <2>2
  <2>4. AddLocation(h, u) = [locations |-> Append(s, u), current |-> h.current + 1]
    BY <1>2 DEF AddLocation, s
  <2>. QED
    BY <1>2, <2>1, <2>3, <2>4 DEF Histories, Within, AtUrl, Location
<1>. QED  BY <1>1, <1>2

\* What a load does: the last of the loads is the new one.
LEMMA LoadsEnd ==
    ASSUME NEW b \in Browsers, NEW d \in Documents, NEW l \in Loads(b, d)
    PROVE  l \in Seq(Documents) /\ l # <<>> /\ l[Len(l)] = d
<1>1. b.loads \in Seq(Documents)
  BY DEF Browsers
<1>2. CASE l = <<d>>
  BY <1>2
<1>3. ASSUME NEW e \in ToSet(b.loads), l = <<e, d>>
      PROVE  l \in Seq(Documents) /\ l # <<>> /\ l[Len(l)] = d
  <2>1. e \in Documents
    BY <1>1 DEF ToSet
  <2>. QED  BY <1>3, <2>1
<1>. QED  BY <1>2, <1>3 DEF Loads

LEMMA DocumentsOfUrls == Urls \subseteq Documents /\ Urls \union {None} # {}
BY DEF Documents

LEMMA UrlLaunched ==
    ASSUME NEW b \in Browsers, Within(b.history), NEW u \in Urls, jsOff \in BOOLEAN,
           NEW new \in LaunchUrl(b, u)
    PROVE  /\ Coherent(new)
           /\ new.url = u /\ new.history = b.history /\ new.hiddenBar = b.hiddenBar
           /\ new.loads # <<>>
<1>. DEFINE c == LaunchSettings(b)
<1>1. c \in Browsers /\ c.loads = b.loads /\ c.history = b.history /\ c.hiddenBar = b.hiddenBar
  BY DEF LaunchSettings, DefaultSettings, Browsers
<1>. HIDE DEF c
<1>2. PICK l \in Loads(b, u) : new = [c EXCEPT !.url = u, !.loads = l]
  BY DEF LaunchUrl, c
<1>3. l \in Seq(Documents) /\ l # <<>> /\ l[Len(l)] = u
  BY LoadsEnd DEF Documents
<1>4. new \in Browsers /\ new.url = u /\ new.loads = l /\ new.history = b.history
      /\ new.hiddenBar = b.hiddenBar
  BY <1>1, <1>2, <1>3 DEF Browsers
<1>5. None \notin Urls
  BY BrowserAssumption
<1>6. Within(new.history)
  BY <1>4
<1>7. LoadsEndAtUrl(new) /\ Settled(new)
  BY <1>3, <1>4, <1>5 DEF LoadsEndAtUrl, Settled
<1>. QED  BY <1>3, <1>4, <1>6, <1>7 DEF Coherent

\* Writing a document: it is internal, and the URL is gone or the view is cleared.
LEMMA HtmlWritten ==
    ASSUME NEW b \in Browsers, Within(b.history), NEW d \in Documents \ Urls,
           b.url = None \/ d = Blank, NEW new \in WriteHtml(b, d)
    PROVE  Coherent(new) /\ new.url = b.url /\ new.history = b.history
<1>1. PICK l \in Loads(b, d) : new = [b EXCEPT !.js = TRUE, !.loads = l]
  BY DEF WriteHtml
<1>2. l \in Seq(Documents) /\ l # <<>> /\ l[Len(l)] = d
  BY LoadsEnd
<1>3. new \in Browsers /\ new.url = b.url /\ new.loads = l /\ new.history = b.history
  BY <1>1, <1>2 DEF Browsers
<1>4. LoadsEndAtUrl(new) /\ Settled(new)
  BY <1>2, <1>3 DEF LoadsEndAtUrl, Settled
<1>. QED  BY <1>3, <1>4 DEF Coherent

LEMMA ViewSet ==
    ASSUME NEW b, Coherent(b), NEW d \in Documents \ Urls, NEW new \in SetView(b, d)
    PROVE  Coherent(new) /\ new.url = None /\ new.history = b.history
<1>. DEFINE c == [b EXCEPT !.url = None]
<1>1. c \in Browsers /\ c.url = None /\ c.history = b.history /\ Within(c.history)
  BY DEF Coherent, Browsers
<1>2. new \in WriteHtml(c, d)
  BY DEF SetView
<1>. HIDE DEF c
<1>. QED  BY <1>1, <1>2, HtmlWritten

LEMMA Cleared ==
    ASSUME NEW b, Coherent(b), NEW new \in Write(b, Blank)
    PROVE  Coherent(new) /\ new.url = b.url /\ new.history = b.history
<1>. DEFINE c == [b EXCEPT !.toolbar = FALSE]
<1>1. c \in Browsers /\ c.url = b.url /\ c.history = b.history /\ Within(c.history)
  BY DEF Coherent, Browsers
<1>2. new \in WriteHtml(c, Blank)
  BY DEF Write
<1>3. Blank \in Documents \ Urls
  BY BrowserAssumption DEF Documents, Blank
<1>. HIDE DEF c
<1>. QED  BY <1>1, <1>2, <1>3, HtmlWritten

\* The answer to a load whose document is now shown.
LEMMA LocationSeen ==
    ASSUME NEW b \in Browsers, Within(b.history), LoadsEndAtUrl(b), NEW d,
           b.loads = <<>> /\ b.url \notin Downloads /\ b.shown # Blank =>
             IF b.url = None THEN b.shown \notin Urls ELSE b.shown = b.url
    PROVE  /\ Coherent(LocationChanged(b, d))
           /\ LocationChanged(b, d).url = b.url
           /\ b.url # None => /\ AtUrl(b.history, b.url) =>
                                  LocationChanged(b, d).history = b.history
           /\ b.url = None => LocationChanged(b, d).history = b.history
<1>. DEFINE new == LocationChanged(b, d)
<1>0. b.history \in Histories /\ b.url \in Urls \union {None} /\ b.toolbar \in BOOLEAN
      /\ b.hiddenBar \in BOOLEAN
  BY DEF Browsers
<1>1. CASE b.url # None /\ ~b.hiddenBar
  <2>. DEFINE h == AddLocation(b.history, b.url)
  <2>1. /\ h \in Histories /\ Within(h) /\ AtUrl(h, b.url)
        /\ AtUrl(b.history, b.url) => h = b.history
    BY <1>0, <1>1, LocationAdded
  <2>2. new = [b EXCEPT !.history = h, !.toolbar = TRUE]
    BY <1>1 DEF LocationChanged, SavedLocation
  <2>. HIDE DEF h, new
  <2>3. /\ new \in Browsers /\ new.url = b.url /\ new.shown = b.shown /\ new.loads = b.loads
        /\ new.history = h /\ new.toolbar = TRUE /\ new.hiddenBar = b.hiddenBar
    BY <2>1, <2>2 DEF Browsers
  <2>4. LoadsEndAtUrl(new)
    BY <2>3 DEF LoadsEndAtUrl
  <2>5. Settled(new)
    BY <1>0, <1>1, <2>1, <2>3 DEF Settled
  <2>6. Coherent(new) /\ new.url = b.url /\ (AtUrl(b.history, b.url) => new.history = b.history)
    BY <2>1, <2>3, <2>4, <2>5 DEF Coherent
  <2>. QED  BY <1>1, <2>6 DEF new
<1>2. CASE ~(b.url # None /\ ~b.hiddenBar)
  <2>2. new = [b EXCEPT !.toolbar = FALSE]
    BY <1>2 DEF LocationChanged
  <2>. HIDE DEF new
  <2>3. /\ new \in Browsers /\ new.url = b.url /\ new.shown = b.shown /\ new.loads = b.loads
        /\ new.history = b.history /\ new.toolbar = FALSE /\ new.hiddenBar = b.hiddenBar
    BY <2>2 DEF Browsers
  <2>4. LoadsEndAtUrl(new)
    BY <2>3 DEF LoadsEndAtUrl
  <2>5. Settled(new)
    BY <1>0, <1>2, <2>3 DEF Settled
  <2>6. Coherent(new) /\ new.url = b.url /\ new.history = b.history
    BY <2>3, <2>4, <2>5 DEF Coherent
  <2>. QED  BY <2>6 DEF new
<1>. QED  BY <1>1, <1>2

LEMMA TailEnds ==
    ASSUME NEW T, NEW s \in Seq(T), s # <<>>
    PROVE  /\ Head(s) \in T /\ Tail(s) \in Seq(T)
           /\ Tail(s) # <<>> => Tail(s)[Len(Tail(s))] = s[Len(s)]
           /\ Tail(s) = <<>> => Head(s) = s[Len(s)]
<1>1. Head(s) \in T /\ Tail(s) \in Seq(T) /\ Len(Tail(s)) = Len(s) - 1 /\ Len(s) \in Nat
  OBVIOUS
<1>2. Tail(s) # <<>> => Tail(s)[Len(Tail(s))] = s[Len(s)]
  BY <1>1
<1>3. ASSUME Tail(s) = <<>>  PROVE Head(s) = s[Len(s)]
  <2>. DEFINE n == Len(s)
              t == Tail(s)
  <2>1. t \in Seq(T) /\ Len(t) = n - 1 /\ n \in Nat
    BY <1>1
  <2>. HIDE DEF t, n
  <2>2. t = <<>>
    BY <1>3 DEF t
  <2>3. Len(t) = 0
    BY <2>2
  <2>4. n = 1
    BY <2>1, <2>3
  <2>. QED  BY <2>4 DEF n
<1>. QED  BY <1>1, <1>2, <1>3

\* WEBKIT_LOAD_COMMITTED for a browser.
LEMMA LoadCommitted ==
    ASSUME NEW b, Coherent(b), b.loads # <<>>,
           NEW new \in Responded([b EXCEPT !.loads = Tail(b.loads)], Head(b.loads))
    PROVE  /\ Coherent(new) /\ new.url = b.url
           /\ b.url = None \/ AtUrl(b.history, b.url) => new.history = b.history
<1>. DEFINE d == Head(b.loads)
            l == Tail(b.loads)
            c == [b EXCEPT !.loads = l]
            e == [c EXCEPT !.shown = d]
<1>0. /\ b \in Browsers /\ b.loads \in Seq(Documents)
      /\ d \in Documents /\ l \in Seq(Documents)
      /\ l # <<>> => l[Len(l)] = b.loads[Len(b.loads)]
      /\ l = <<>> => d = b.loads[Len(b.loads)]
  <2>1. b \in Browsers /\ b.loads \in Seq(Documents)
    BY DEF Coherent, Browsers
  <2>. QED  BY <2>1, TailEnds
<1>. HIDE DEF d, l
<1>1. /\ c \in Browsers /\ c.loads = l /\ c.url = b.url /\ c.history = b.history
  BY <1>0 DEF Browsers
<1>2. /\ e \in Browsers /\ e.loads = l /\ e.url = b.url /\ e.history = b.history /\ e.shown = d
  BY <1>0 DEF Browsers
<1>3. Within(b.history) /\ LoadsEndAtUrl(b)
  BY DEF Coherent
<1>4. LoadsEndAtUrl(c) /\ LoadsEndAtUrl(e)
  BY <1>0, <1>1, <1>2, <1>3 DEF LoadsEndAtUrl
<1>5. CASE d \in Downloads
  <2>1. new = c
    BY <1>5 DEF Responded, d, l
  <2>2. Settled(c)
    <3>1. l = <<>> => b.url \in Downloads \/ d = Blank
      BY <1>0, <1>3, <1>5, BrowserAssumption DEF LoadsEndAtUrl
    <3>2. Blank \notin Downloads
      BY BrowserAssumption DEF Blank
    <3>. QED  BY <1>1, <1>5, <3>1, <3>2 DEF Settled
  <2>. QED  BY <1>1, <1>3, <1>4, <2>1, <2>2 DEF Coherent
<1>6. CASE d \notin Downloads
  <2>1. new = LocationChanged(e, d)
    BY <1>6 DEF Responded, d, l
  <2>2. e.loads = <<>> /\ e.url \notin Downloads /\ e.shown # Blank =>
            IF e.url = None THEN e.shown \notin Urls ELSE e.shown = e.url
    BY <1>0, <1>2, <1>3 DEF LoadsEndAtUrl
  <2>3. e \in Browsers /\ Within(e.history) /\ LoadsEndAtUrl(e)
    BY <1>2, <1>3, <1>4
  <2>. HIDE DEF e
  <2>4. /\ Coherent(new) /\ new.url = e.url
        /\ e.url # None => (AtUrl(e.history, e.url) => new.history = e.history)
        /\ e.url = None => new.history = e.history
    BY <2>1, <2>2, <2>3, LocationSeen
  <2>. QED  BY <1>2, <2>4 DEF e
<1>. QED  BY <1>5, <1>6

LEMMA NewBrowserCoherent == Coherent(NewBrowser) /\ NewBrowser.history = NoHistory
<1>1. NewBrowser \in Browsers
  BY DEF NewBrowser, Browsers, Histories, NoHistory, Documents
<1>2. Within(NewBrowser.history) /\ NewBrowser.history = NoHistory
  BY DEF NewBrowser, NoHistory, Within
<1>3. LoadsEndAtUrl(NewBrowser) /\ Settled(NewBrowser)
  <2>1. Blank \notin Urls
    BY BrowserAssumption DEF Blank
  <2>. QED  BY <2>1 DEF NewBrowser, LoadsEndAtUrl, Settled
<1>. QED  BY <1>1, <1>2, <1>3 DEF Coherent

\* The document on which a search, a node or an item leaves the headlines browser.
LEMMA Internal ==
    ASSUME NEW d \in Nodes \union Items \union {Blank, Monitor}
    PROVE  d \in Documents \ Urls
BY BrowserAssumption DEF Documents, Blank, Monitor

-----------------------------------------------------------------------------
(* What a step that changes one browser has to show. *)

LocationsKept ==
    \A v \in Views : asked[v] = "history" /\ asked'[v] = "history" =>
        browser'[v].history.locations = browser[v].history.locations

LEMMA OneBrowser ==
    ASSUME TypeOK, \A v \in Views : Coherent(browser[v]), StepsMatch,
           NEW v \in Views, NEW outcomes, Becomes(v, outcomes),
           \A b \in outcomes : Coherent(b),
           opened' \in Nat, opened <= opened',
           asked' \in [Views -> {"link", "history"}],
           \A w \in Views : asked'[w] = "history" => asked[w] = "history" \/ w = v,
           asked'[v] = "history" =>
                /\ v <= opened'
                /\ \A b \in outcomes : b.url # None => AtUrl(b.history, b.url)
                /\ asked[v] = "history" =>
                     \A b \in outcomes : b.history.locations = browser[v].history.locations
    PROVE  /\ browser' \in [Views -> Browsers]
           /\ \A w \in Views : Coherent(browser[w])'
           /\ StepsMatch' /\ LocationsKept
<1>1. PICK new \in outcomes : browser' = [browser EXCEPT ![v] = new]
  BY DEF Becomes
<1>2. Coherent(new) /\ new \in Browsers
  BY DEF Coherent
<1>3. browser' \in [Views -> Browsers]
  BY <1>1, <1>2 DEF TypeOK
<1>4. browser'[v] = new /\ \A w \in Views \ {v} : browser'[w] = browser[w]
  BY <1>1 DEF TypeOK
<1>5. \A w \in Views : Coherent(browser'[w])
  BY <1>2, <1>4
<1>6. ASSUME NEW w \in Views, asked'[w] = "history"
      PROVE  /\ w <= opened'
             /\ browser'[w].url # None => AtUrl(browser'[w].history, browser'[w].url)
  <2>1. CASE w = v
    BY <1>4, <1>6, <2>1
  <2>2. CASE w # v
    <3>1. asked[w] = "history" /\ w <= opened
      BY <1>6, <2>2 DEF StepsMatch
    <3>2. w <= opened'
      BY <3>1, BrowserAssumption DEF TypeOK
    <3>. QED  BY <1>4, <2>2, <3>1, <3>2 DEF StepsMatch
  <2>. QED  BY <2>1, <2>2
<1>7. LocationsKept
  BY <1>1, <1>4 DEF LocationsKept
<1>. QED  BY <1>3, <1>5, <1>6, <1>7 DEF StepsMatch, AtUrl, Location

\* Announcements and LocationsKept do not see other variables.
LEMMA NoBrowser ==
    ASSUME TypeOK, \A v \in Views : Coherent(browser[v]), StepsMatch,
           UNCHANGED <<browser, opened, asked>>
    PROVE  /\ browser' \in [Views -> Browsers]
           /\ \A w \in Views : Coherent(browser[w])'
           /\ StepsMatch' /\ LocationsKept
BY DEF TypeOK, StepsMatch, LocationsKept, AtUrl, Location

-----------------------------------------------------------------------------
(* The steps of one browser. *)

LEMMA ViewsAreNumbers == Views \subseteq Nat /\ 1 \in Views
BY BrowserAssumption

StepOK == IInv' /\ LocationsKept

LEMMA LaunchStep ==
    ASSUME IInv, NEW v \in Views, NEW u \in Urls, Launch(v, u)
    PROVE  StepOK
<1>. USE DEF IInv
<1>1. \A b \in LaunchUrl(browser[v], u) : Coherent(b)
  <2>1. browser[v] \in Browsers /\ Within(browser[v].history) /\ jsOff \in BOOLEAN
    BY DEF Coherent, TypeOK
  <2>. QED  BY <2>1, UrlLaunched
<1>2. asked'[v] = "link" /\ asked' \in [Views -> {"link", "history"}]
      /\ \A w \in Views \ {v} : asked'[w] = asked[w]
  BY DEF Launch, TypeOK
<1>3. /\ browser' \in [Views -> Browsers] /\ \A w \in Views : Coherent(browser[w])'
      /\ StepsMatch' /\ LocationsKept
  <2>1. opened' = opened /\ opened \in Nat /\ Becomes(v, LaunchUrl(browser[v], u))
    BY ViewsAreNumbers DEF Launch, TypeOK
  <2>. QED  BY <1>1, <1>2, <2>1, OneBrowser
<1>4. TypeOK'
  BY <1>2, <1>3, BrowserAssumption DEF TypeOK, Launch, Act
<1>5. Announcements'
  BY DEF Launch, Announcements
<1>. QED  BY <1>3, <1>4, <1>5 DEF StepOK

LEMMA HistoryStep ==
    ASSUME IInv, NEW v \in Views, NEW can, NEW gone \in Histories,
           Step(v, can, gone), gone.current \in 1..Len(gone.locations),
           gone.locations = browser[v].history.locations
    PROVE  StepOK
<1>. USE DEF IInv
<1>. DEFINE b == [browser[v] EXCEPT !.history = gone]
            u == Location(gone)
<1>0. Coherent(browser[v]) /\ browser[v] \in Browsers
  BY DEF TypeOK
<1>1. /\ b \in Browsers /\ b.history = gone /\ b.loads = browser[v].loads
      /\ b.url = browser[v].url /\ b.shown = browser[v].shown
  BY <1>0 DEF Browsers
<1>2. u \in Urls /\ Within(gone) /\ AtUrl(gone, u)
  BY DEF Histories, Location, Within, AtUrl
<1>3. ASSUME NEW new \in LaunchUrl(b, u)
      PROVE  Coherent(new) /\ new.url = u /\ new.history = gone
  <2>. HIDE DEF b, u
  <2>. QED  BY <1>1, <1>2, UrlLaunched DEF TypeOK
<1>4. asked'[v] = "history" /\ asked' \in [Views -> {"link", "history"}]
      /\ \A w \in Views \ {v} : asked'[w] = asked[w]
  BY DEF Step, TypeOK
<1>5. /\ browser' \in [Views -> Browsers] /\ \A w \in Views : Coherent(browser[w])'
      /\ StepsMatch' /\ LocationsKept
  <2>1. opened' = opened /\ opened \in Nat /\ v <= opened'
    BY ViewsAreNumbers DEF Step, TypeOK
  <2>2. Becomes(v, LaunchUrl(b, u))
    BY <1>1 DEF Step
  <2>. HIDE DEF b, u
  <2>3. \A new \in LaunchUrl(b, u) : /\ Coherent(new) /\ (new.url # None => AtUrl(new.history, new.url))
                                     /\ new.history.locations = browser[v].history.locations
    BY <1>2, <1>3
  <2>. QED  BY <1>4, <2>1, <2>2, <2>3, OneBrowser
<1>6. TypeOK'
  BY <1>4, <1>5, BrowserAssumption DEF TypeOK, Step, Act
<1>7. Announcements'
  BY DEF Step, Announcements
<1>. QED  BY <1>5, <1>6, <1>7 DEF StepOK

LEMMA BackForwardStep ==
    ASSUME IInv, NEW v \in Views, Back(v) \/ Forward(v)
    PROVE  StepOK
<1>. DEFINE h == browser[v].history
<1>1. h \in Histories /\ h.current \in Nat /\ Within(h)
  BY DEF IInv, TypeOK, Coherent, Browsers, Histories
<1>2. CASE Back(v)
  <2>. DEFINE g == [h EXCEPT !.current = h.current - 1]
  <2>1. Step(v, CanGoBack(h), g) /\ h.current > 1
    BY <1>2 DEF Back, Step, GoBack, CanGoBack
  <2>2. g \in Histories /\ g.current \in 1..Len(g.locations) /\ g.locations = h.locations
    BY <1>1, <2>1 DEF Histories, Within
  <2>. HIDE DEF g
  <2>. QED  BY <2>1, <2>2, HistoryStep
<1>3. CASE Forward(v)
  <2>. DEFINE g == [h EXCEPT !.current = h.current + 1]
  <2>1. Step(v, CanGoForward(h), g) /\ h.current \in 1..(Len(h.locations) - 1)
    BY <1>3 DEF Forward, Step, GoForward, CanGoForward
  <2>2. g \in Histories /\ g.current \in 1..Len(g.locations) /\ g.locations = h.locations
    BY <1>1, <2>1 DEF Histories, Within
  <2>. HIDE DEF g
  <2>. QED  BY <2>1, <2>2, HistoryStep
<1>. QED  BY <1>2, <1>3

LEMMA CommittedStep ==
    ASSUME IInv, NEW v \in Views, Committed(v)
    PROVE  StepOK
<1>. USE DEF IInv
<1>. DEFINE b == browser[v]
            outcomes == Responded([b EXCEPT !.loads = Tail(b.loads)], Head(b.loads))
<1>0. Coherent(b) /\ b.loads # <<>> /\ b \in Browsers
  BY DEF TypeOK, Committed, AtRest
<1>1. Becomes(v, outcomes)
  BY <1>0 DEF Committed, Browsers
<1>2. UNCHANGED <<opened, asked>>
  BY DEF Committed
<1>3. ASSUME NEW new \in outcomes
      PROVE  /\ Coherent(new) /\ new.url = b.url
             /\ b.url = None \/ AtUrl(b.history, b.url) => new.history = b.history
  BY <1>0, <1>3, LoadCommitted
<1>4. /\ browser' \in [Views -> Browsers] /\ \A w \in Views : Coherent(browser[w])'
      /\ StepsMatch' /\ LocationsKept
  <2>1. opened' \in Nat /\ opened <= opened'
    BY <1>2, ViewsAreNumbers DEF TypeOK
  <2>2. asked[v] = "history" =>
          /\ v <= opened'
          /\ \A new \in outcomes : /\ new.url # None => AtUrl(new.history, new.url)
                                   /\ new.history.locations = browser[v].history.locations
    BY <1>2, <1>3 DEF StepsMatch
  <2>3. \A new \in outcomes : Coherent(new)
    BY <1>3
  <2>4. asked' = asked /\ asked \in [Views -> {"link", "history"}]
    BY <1>2 DEF TypeOK
  <2>. HIDE DEF outcomes
  <2>. QED  BY <1>1, <2>1, <2>2, <2>3, <2>4, OneBrowser
<1>6. TypeOK'
  BY <1>4 DEF TypeOK, Committed
<1>7. Announcements'
  BY DEF Committed, Announcements
<1>. QED  BY <1>4, <1>6, <1>7 DEF StepOK

LEMMA RedirectsStep ==
    ASSUME IInv, NEW v \in Views, Redirects(v)
    PROVE  StepOK
<1>. USE DEF IInv
<1>. DEFINE b == browser[v]
            new == LocationChanged(b, b.shown)
<1>0. Coherent(b) /\ b.loads = <<>> /\ b \in Browsers
  BY DEF TypeOK, Redirects, AtRest
<1>1. Becomes(v, {new})
  BY DEF Redirects
<1>2. UNCHANGED <<opened, asked>>
  BY DEF Redirects
<1>3. /\ Coherent(new) /\ new.url = b.url
      /\ b.url = None \/ AtUrl(b.history, b.url) => new.history = b.history
  <2>1. b.url \notin Downloads /\ b.shown # Blank =>
             IF b.url = None THEN b.shown \notin Urls ELSE b.shown = b.url
    BY <1>0 DEF Coherent, Settled
  <2>2. b \in Browsers /\ Within(b.history) /\ LoadsEndAtUrl(b)
    BY <1>0 DEF Coherent
  <2>. HIDE DEF b
  <2>. QED  BY <2>1, <2>2, LocationSeen
<1>4. /\ browser' \in [Views -> Browsers] /\ \A w \in Views : Coherent(browser[w])'
      /\ StepsMatch' /\ LocationsKept
  <2>. HIDE DEF new
  <2>1. opened' \in Nat /\ opened <= opened'
    BY <1>2, ViewsAreNumbers DEF TypeOK
  <2>2. asked[v] = "history" =>
          /\ v <= opened'
          /\ \A x \in {new} : /\ x.url # None => AtUrl(x.history, x.url)
                              /\ x.history.locations = browser[v].history.locations
    BY <1>2, <1>3 DEF StepsMatch
  <2>3. \A x \in {new} : Coherent(x)
    BY <1>3
  <2>4. asked' = asked /\ asked \in [Views -> {"link", "history"}]
    BY <1>2 DEF TypeOK
  <2>. QED  BY <1>1, <2>1, <2>2, <2>3, <2>4, OneBrowser
<1>6. TypeOK'
  BY <1>4, BrowserAssumption DEF TypeOK, Redirects, Act
<1>7. Announcements'
  BY DEF Redirects, Announcements
<1>. QED  BY <1>4, <1>6, <1>7 DEF StepOK

-----------------------------------------------------------------------------
(* Tabs. *)

LEMMA Wider ==
    ASSUME NEW S, NEW T, S \subseteq T, NEW s \in Seq(S)
    PROVE  s \in Seq(T)
OBVIOUS

LEMMA TabAdded ==
    ASSUME IInv, NEW outcomes, NEW activate \in BOOLEAN, AddTab(outcomes, activate),
           \A b \in outcomes : Coherent(b), asked' = asked
    PROVE  /\ browser' \in [Views -> Browsers] /\ \A w \in Views : Coherent(browser[w])'
           /\ StepsMatch' /\ LocationsKept
           /\ opened' \in Views /\ pages' \in Seq(1..opened') /\ active' \in 1..opened'
<1>. USE DEF IInv
<1>1. /\ opened \in Nat /\ opened \in Views /\ opened + 1 \in Views /\ opened' = opened + 1
      /\ pages' = Append(pages, opened + 1)
      /\ active' = IF activate THEN opened + 1 ELSE active
      /\ Becomes(opened + 1, outcomes)
  BY ViewsAreNumbers DEF TypeOK, AddTab
<1>2. pages' \in Seq(1..opened')
  <2>1. pages \in Seq(1..opened')
    <3>1. pages \in Seq(1..opened) /\ 1..opened \subseteq 1..opened'
      BY <1>1 DEF TypeOK
    <3>. QED  BY <3>1, Wider
  <2>. QED  BY <1>1, <2>1
<1>3. active' \in 1..opened'
  BY <1>1 DEF TypeOK
<1>4. asked[opened + 1] # "history"
  BY <1>1 DEF StepsMatch
<1>5. opened' \in Nat /\ opened <= opened' /\ asked' \in [Views -> {"link", "history"}]
  BY <1>1 DEF TypeOK
<1>. QED  BY <1>1, <1>2, <1>3, <1>4, <1>5, OneBrowser

LEMMA OpenTabStep ==
    ASSUME IInv, NEW u \in Urls, NEW activate \in BOOLEAN, OpenTab(u, activate)
    PROVE  StepOK
<1>. USE DEF IInv
<1>1. \A b \in LaunchUrl(NewBrowser, u) : Coherent(b)
  <2>1. NewBrowser \in Browsers /\ Within(NewBrowser.history) /\ jsOff \in BOOLEAN
    BY NewBrowserCoherent DEF Coherent, TypeOK
  <2>. QED  BY <2>1, UrlLaunched
<1>2. /\ browser' \in [Views -> Browsers] /\ \A w \in Views : Coherent(browser[w])'
      /\ StepsMatch' /\ LocationsKept
      /\ opened' \in Views /\ pages' \in Seq(1..opened') /\ active' \in 1..opened'
  BY <1>1, TabAdded DEF OpenTab
<1>3. TypeOK'
  BY <1>2, BrowserAssumption DEF TypeOK, OpenTab, Act
<1>4. Announcements'
  BY DEF OpenTab, Announcements
<1>. QED  BY <1>2, <1>3, <1>4 DEF StepOK

LEMMA ShowHelpStep ==
    ASSUME IInv, ShowHelp
    PROVE  StepOK
<1>. USE DEF IInv
<1>. DEFINE outcomes == {[x EXCEPT !.hiddenBar = TRUE] : x \in LaunchUrl(NewBrowser, HelpUrl)}
<1>1. ASSUME NEW b \in outcomes  PROVE Coherent(b)
  <2>1. PICK x \in LaunchUrl(NewBrowser, HelpUrl) : b = [x EXCEPT !.hiddenBar = TRUE]
    OBVIOUS
  <2>2. Coherent(x) /\ x \in Browsers /\ x.loads # <<>>
    <3>1. NewBrowser \in Browsers /\ Within(NewBrowser.history)
      BY NewBrowserCoherent DEF Coherent
    <3>2. HelpUrl \in Urls /\ jsOff \in BOOLEAN
      BY BrowserAssumption DEF TypeOK
    <3>3. Coherent(x) /\ x.loads # <<>>
      BY <3>1, <3>2, UrlLaunched
    <3>. QED  BY <3>3 DEF Coherent
  <2>3. b \in Browsers /\ b.url = x.url /\ b.loads = x.loads /\ b.history = x.history
    BY <2>1, <2>2 DEF Browsers
  <2>4. LoadsEndAtUrl(b) /\ Within(b.history) /\ Settled(b)
    BY <2>2, <2>3 DEF Coherent, LoadsEndAtUrl, Settled
  <2>. QED  BY <2>3, <2>4 DEF Coherent
<1>2. /\ browser' \in [Views -> Browsers] /\ \A w \in Views : Coherent(browser[w])'
      /\ StepsMatch' /\ LocationsKept
      /\ opened' \in Views /\ pages' \in Seq(1..opened') /\ active' \in 1..opened'
  <2>1. AddTab(outcomes, TRUE) /\ asked' = asked /\ TRUE \in BOOLEAN
    BY DEF ShowHelp
  <2>. HIDE DEF outcomes
  <2>. QED  BY <1>1, <2>1, TabAdded
<1>3. TypeOK'
  <2>1. ops' \in 0..MaxOps
    BY BrowserAssumption DEF TypeOK, ShowHelp, Act
  <2>. QED  BY <1>2, <2>1 DEF TypeOK, ShowHelp
<1>4. Announcements'
  BY DEF ShowHelp, Announcements
<1>. QED  BY <1>2, <1>3, <1>4 DEF StepOK

LEMMA Elements ==
    ASSUME NEW T, NEW s \in Seq(T)
    PROVE  ToSet(s) \subseteq T
BY DEF ToSet

LEMMA ElementAt ==
    ASSUME NEW T, NEW s \in Seq(T), NEW k \in 1..Len(s)
    PROVE  s[k] \in T
OBVIOUS

LEMMA RemoveAtTyped ==
    ASSUME NEW T, NEW s \in Seq(T), NEW k \in 1..Len(s)
    PROVE  RemoveAt(s, k) \in Seq(T)
<1>. DEFINE u == SubSeq(s, 1, k - 1)
            v == SubSeq(s, k + 1, Len(s))
<1>1. u \in Seq(T) /\ v \in Seq(T)
  OBVIOUS
<1>. HIDE DEF u, v
<1>2. u \o v \in Seq(T)
  BY <1>1
<1>. QED  BY <1>2 DEF RemoveAt, u, v

LEMMA ShowMonitorStep ==
    ASSUME IInv, ShowMonitor
    PROVE  StepOK
<1>. USE DEF IInv
<1>1. CASE NamedTabs \intersect monitors # {}
  <2>1. /\ active' = CHOOSE v \in NamedTabs \intersect monitors : TRUE
        /\ UNCHANGED <<pages, opened, browser, process, jsOff, content, node, monitors, timers,
                       scrolls, asked>>
        /\ Act
    BY <1>1 DEF ShowMonitor
  <2>2. active' \in 1..opened
    <3>1. active' \in NamedTabs
      BY <1>1, <2>1
    <3>2. NamedTabs \subseteq 1..opened
      <4>1. pages \in Seq(1..opened)
        BY DEF TypeOK
      <4>2. ASSUME NEW k \in 2..Len(pages)  PROVE pages[k] \in 1..opened
        <5>1. k \in 1..Len(pages)
          BY <4>1
        <5>. QED  BY <4>1, <5>1, ElementAt
      <4>. QED  BY <4>2 DEF NamedTabs
    <3>. QED  BY <3>1, <3>2
  <2>3. TypeOK'
    BY <2>1, <2>2, BrowserAssumption DEF TypeOK, Act
  <2>4. \A w \in Views : Coherent(browser[w])'
    BY <2>1
  <2>5. StepsMatch' /\ LocationsKept
    BY <2>1, NoBrowser
  <2>6. Announcements'
    BY <2>1 DEF Announcements
  <2>. QED  BY <2>3, <2>4, <2>5, <2>6 DEF StepOK
<1>2. CASE NamedTabs \intersect monitors = {}
  <2>1. /\ AddTab(SetView(NewBrowser, Monitor), TRUE)
        /\ monitors' = monitors \union {opened + 1} /\ timers' = timers + 1
        /\ UNCHANGED <<process, jsOff, content, node, scrolls, asked>>
        /\ Act /\ opened + 1 \in Views
    BY <1>2 DEF ShowMonitor, AddTab
  <2>2. \A b \in SetView(NewBrowser, Monitor) : Coherent(b)
    BY ViewSet, NewBrowserCoherent, Internal
  <2>3. /\ browser' \in [Views -> Browsers] /\ \A w \in Views : Coherent(browser[w])'
        /\ StepsMatch' /\ LocationsKept
        /\ opened' \in Views /\ pages' \in Seq(1..opened') /\ active' \in 1..opened'
    BY <2>1, <2>2, TabAdded
  <2>4. monitors' \subseteq Views /\ timers' \in Nat /\ ops' \in 0..MaxOps
    BY <2>1, BrowserAssumption DEF TypeOK, Act
  <2>6. TypeOK'
    BY <2>1, <2>3, <2>4 DEF TypeOK
  <2>5. Announcements'
    BY <2>1 DEF Announcements
  <2>. QED  BY <2>3, <2>5, <2>6 DEF StepOK
<1>. QED  BY <1>1, <1>2

\* A page goes, and its process.
LEMMA PageRemoved ==
    ASSUME IInv, NEW k \in 1..Len(pages), RemovePage(k), Act
    PROVE  StepOK
<1>. USE DEF IInv
<1>1. pages \in Seq(1..opened) /\ pages[k] \in 1..opened
  BY DEF TypeOK
<1>2. /\ pages' = RemoveAt(pages, k)
      /\ process' = [process EXCEPT ![pages[k]] = NoProcess]
      /\ monitors' = monitors \ {pages[k]}
      /\ active' \in IF active = pages[k] THEN ToSet(pages') ELSE {active}
      /\ UNCHANGED <<opened, browser, jsOff, content, node, timers, scrolls, asked>>
  BY DEF RemovePage
<1>3. pages' \in Seq(1..opened)
  BY <1>1, <1>2, RemoveAtTyped
<1>4. active' \in 1..opened
  <2>1. ToSet(pages') \subseteq 1..opened
    BY <1>3, Elements
  <2>. QED  BY <1>2, <2>1 DEF TypeOK
<1>5. NoProcess \in Processes
  BY DEF NoProcess, Processes
<1>6. process' \in [Views -> Processes]
  BY <1>2, <1>5 DEF TypeOK
<1>7. TypeOK'
  <2>1. monitors' \subseteq Views /\ ops' \in 0..MaxOps
    BY <1>2, BrowserAssumption DEF TypeOK, Act
  <2>2. pages' \in Seq(1..opened') /\ active' \in 1..opened'
    BY <1>2, <1>3, <1>4
  <2>. QED  BY <1>2, <1>6, <2>1, <2>2 DEF TypeOK
<1>8. Announcements'
  BY <1>2 DEF Announcements, TypeOK, NoProcess
<1>9. \A w \in Views : Coherent(browser[w])'
  BY <1>2
<1>10. StepsMatch' /\ LocationsKept
  BY <1>2, NoBrowser
<1>. QED  BY <1>7, <1>8, <1>9, <1>10 DEF StepOK

LEMMA CloseStep ==
    ASSUME IInv, CloseByKey \/ CloseByButton
    PROVE  StepOK
<1>1. pages \in Seq(1..opened)
  BY DEF IInv, TypeOK
<1>2. CASE CloseByKey
  <2>1. PICK k \in 2..Len(pages) : RemovePage(k) /\ Act
    BY <1>2 DEF CloseByKey
  <2>2. k \in 1..Len(pages)
    OBVIOUS
  <2>. QED  BY <2>1, <2>2, PageRemoved
<1>3. CASE CloseByButton
  <2>1. Len(pages) \in 1..Len(pages) /\ RemovePage(Len(pages)) /\ Act
    BY <1>1, <1>3 DEF CloseByButton
  <2>. QED  BY <2>1, PageRemoved
<1>. QED  BY <1>2, <1>3

-----------------------------------------------------------------------------
(* The headlines browser. *)

\* It shows another document, or none.
LEMMA HeadlinesWritten ==
    ASSUME IInv, NEW outcomes, Becomes(Headlines, outcomes), UNCHANGED <<opened, asked>>,
           \A b \in outcomes : /\ Coherent(b) /\ b.history = browser[Headlines].history
                               /\ b.url \in {None, browser[Headlines].url}
    PROVE  /\ browser' \in [Views -> Browsers] /\ \A w \in Views : Coherent(browser[w])'
           /\ StepsMatch' /\ LocationsKept
<1>. USE DEF IInv
<1>1. Headlines \in Views /\ opened' \in Nat /\ opened <= opened'
  BY ViewsAreNumbers DEF Headlines, TypeOK
<1>2. asked' \in [Views -> {"link", "history"}]
  BY DEF TypeOK
<1>3. asked'[Headlines] = "history" =>
        /\ Headlines <= opened'
        /\ \A b \in outcomes : /\ b.url # None => AtUrl(b.history, b.url)
                               /\ b.history.locations = browser[Headlines].history.locations
  BY <1>1 DEF StepsMatch
<1>. QED  BY <1>1, <1>2, <1>3, OneBrowser

LEMMA DocumentShown ==
    ASSUME IInv, NEW d \in Nodes \union Items, UNCHANGED <<opened, asked>>,
           UNCHANGED browser \/ Becomes(Headlines, SetView(browser[Headlines], d))
    PROVE  /\ browser' \in [Views -> Browsers] /\ \A w \in Views : Coherent(browser[w])'
           /\ StepsMatch' /\ LocationsKept
<1>1. CASE UNCHANGED browser
  BY <1>1, NoBrowser DEF IInv
<1>2. CASE Becomes(Headlines, SetView(browser[Headlines], d))
  <2>1. Coherent(browser[Headlines])
    BY ViewsAreNumbers DEF IInv, Headlines
  <2>2. \A b \in SetView(browser[Headlines], d) :
            /\ Coherent(b) /\ b.history = browser[Headlines].history /\ b.url = None
    BY <2>1, ViewSet, Internal
  <2>. QED  BY <1>2, <2>2, HeadlinesWritten
<1>. QED  BY <1>1, <1>2

LEMMA SelectNodeStep ==
    ASSUME IInv, NEW n \in Nodes, SelectNode(n)
    PROVE  StepOK
<1>1. /\ browser' \in [Views -> Browsers] /\ \A w \in Views : Coherent(browser[w])'
      /\ StepsMatch' /\ LocationsKept
  BY DocumentShown DEF SelectNode, ShowNode
<1>2. content' \in [mode : {"none", "item", "node"}, item : Items \union {None},
                    node : Nodes \union {None}]
  BY DEF IInv, TypeOK, SelectNode, ShowNode
<1>3. Headlines \in 1..opened
  BY BrowserAssumption DEF IInv, TypeOK, Headlines
<1>4. TypeOK'
  BY <1>1, <1>2, <1>3, BrowserAssumption DEF IInv, TypeOK, SelectNode, Act
<1>5. Announcements'
  BY DEF IInv, SelectNode, Announcements
<1>. QED  BY <1>1, <1>4, <1>5 DEF StepOK, IInv

LEMMA SelectItemStep ==
    ASSUME IInv, NEW i \in Items, SelectItem(i)
    PROVE  StepOK
<1>1. /\ browser' \in [Views -> Browsers] /\ \A w \in Views : Coherent(browser[w])'
      /\ StepsMatch' /\ LocationsKept
  BY DocumentShown DEF SelectItem, ShowItem
<1>2. content' \in [mode : {"none", "item", "node"}, item : Items \union {None},
                    node : Nodes \union {None}]
  BY DEF IInv, TypeOK, SelectItem, ShowItem
<1>4. TypeOK'
  BY <1>1, <1>2, BrowserAssumption DEF IInv, TypeOK, SelectItem, Act
<1>5. Announcements'
  BY DEF IInv, SelectItem, Announcements
<1>. QED  BY <1>1, <1>4, <1>5 DEF StepOK, IInv

LEMMA ScrolledStep ==
    ASSUME IInv, Scrolled
    PROVE  StepOK
<1>0. UNCHANGED <<browser, content>> \/ \E i \in Items : ShowItem(i)
  BY DEF Scrolled
<1>1. /\ browser' \in [Views -> Browsers] /\ \A w \in Views : Coherent(browser[w])'
      /\ StepsMatch' /\ LocationsKept
  <2>1. UNCHANGED <<opened, asked>>
    BY DEF Scrolled
  <2>2. CASE UNCHANGED browser
    BY <2>1, <2>2, NoBrowser DEF IInv
  <2>3. CASE \E i \in Items : ShowItem(i)
    BY <2>1, <2>3, DocumentShown DEF ShowItem
  <2>. QED  BY <1>0, <2>2, <2>3
<1>2. content' \in [mode : {"none", "item", "node"}, item : Items \union {None},
                    node : Nodes \union {None}]
  <2>1. ASSUME NEW i \in Items, content' = [content EXCEPT !.mode = "item", !.item = i]
        PROVE  content' \in [mode : {"none", "item", "node"}, item : Items \union {None},
                             node : Nodes \union {None}]
    BY <2>1 DEF IInv, TypeOK
  <2>. QED  BY <1>0, <2>1 DEF IInv, TypeOK, ShowItem
<1>4. TypeOK'
  BY <1>1, <1>2, BrowserAssumption DEF IInv, TypeOK, Scrolled
<1>5. Announcements'
  BY DEF IInv, Scrolled, Announcements
<1>. QED  BY <1>1, <1>4, <1>5 DEF StepOK, IInv

LEMMA SearchStep ==
    ASSUME IInv, Search
    PROVE  StepOK
<1>0. Coherent(browser[Headlines])
  BY ViewsAreNumbers DEF IInv, Headlines
<1>1. \A b \in Write(browser[Headlines], Blank) :
          /\ Coherent(b) /\ b.history = browser[Headlines].history
          /\ b.url = browser[Headlines].url
  BY <1>0, Cleared
<1>2. /\ browser' \in [Views -> Browsers] /\ \A w \in Views : Coherent(browser[w])'
      /\ StepsMatch' /\ LocationsKept
  BY <1>1, HeadlinesWritten DEF Search
<1>4. TypeOK'
  BY <1>2, BrowserAssumption DEF IInv, TypeOK, Search, Act
<1>5. Announcements'
  BY DEF IInv, Search, Announcements
<1>. QED  BY <1>2, <1>4, <1>5 DEF StepOK, IInv

LEMMA TogglePreferenceStep ==
    ASSUME IInv, TogglePreference
    PROVE  StepOK
<1>. USE DEF IInv
<1>1. /\ browser' = [v \in Views |-> [browser[v] EXCEPT !.js = jsOff]] /\ jsOff' = ~jsOff
      /\ UNCHANGED <<pages, active, opened, process, content, node, monitors, timers, scrolls, asked>>
      /\ Act
  BY DEF TogglePreference
<1>2. \A v \in Views :
        /\ browser'[v] \in Browsers
        /\ browser'[v].url = browser[v].url /\ browser'[v].shown = browser[v].shown
        /\ browser'[v].loads = browser[v].loads /\ browser'[v].history = browser[v].history
        /\ browser'[v].toolbar = browser[v].toolbar
        /\ browser'[v].hiddenBar = browser[v].hiddenBar
  BY <1>1 DEF TypeOK, Browsers
<1>3. browser' \in [Views -> Browsers]
  BY <1>1, <1>2
<1>4. ASSUME NEW v \in Views  PROVE Coherent(browser'[v])
  <2>1. LoadsEndAtUrl(browser'[v])
    BY <1>2 DEF Coherent, LoadsEndAtUrl
  <2>2. Settled(browser'[v])
    BY <1>2 DEF Coherent, Settled
  <2>. QED  BY <1>2, <2>1, <2>2 DEF Coherent
<1>5. StepsMatch' /\ LocationsKept
  BY <1>1, <1>2 DEF StepsMatch, LocationsKept, AtUrl, Location
<1>6. TypeOK'
  BY <1>1, <1>3, BrowserAssumption, SMTT(30) DEF TypeOK, Act
<1>7. Announcements'
  BY <1>1 DEF Announcements
<1>. QED  BY <1>4, <1>5, <1>6, <1>7 DEF StepOK

-----------------------------------------------------------------------------
(* Web processes, and steps that leave browsers and processes alone. *)

LEMMA ProcessStep ==
    ASSUME IInv, NEW v \in Views, NEW p \in Processes,
           process' = [process EXCEPT ![v] = p], ops' \in 0..MaxOps,
           p.page = "known" => p.dbus, p.state = "connected" => p.page # "queued",
           UNCHANGED <<pages, active, opened, browser, jsOff, content, node, monitors, timers,
                       scrolls, asked>>
    PROVE  StepOK
<1>. USE DEF IInv
<1>1. process' \in [Views -> Processes]
  BY DEF TypeOK
<1>2. TypeOK'
  BY <1>1 DEF TypeOK
<1>3. Announcements'
  BY DEF Announcements, TypeOK
<1>4. \A w \in Views : Coherent(browser[w])'
  OBVIOUS
<1>5. StepsMatch' /\ LocationsKept
  BY NoBrowser
<1>. QED  BY <1>2, <1>3, <1>4, <1>5 DEF StepOK

LEMMA StartProcessStep ==
    ASSUME IInv, NEW v \in Views, StartProcess(v)
    PROVE  StepOK
<1>. DEFINE p == [process[v] EXCEPT !.state = "connecting"]
<1>1. process[v] \in Processes /\ (process[v].page = "known" => process[v].dbus)
      /\ ops \in 0..MaxOps
  BY DEF IInv, TypeOK, Announcements
<1>2. p \in Processes /\ p.state = "connecting" /\ (p.page = "known" => p.dbus)
  BY <1>1 DEF Processes
<1>3. ProcessBecomes(v, p)
  BY DEF StartProcess
<1>. HIDE DEF p
<1>. QED  BY <1>1, <1>2, <1>3, ProcessStep DEF ProcessBecomes

LEMMA PageCreatedStep ==
    ASSUME IInv, NEW v \in Views, PageCreated(v)
    PROVE  StepOK
<1>. DEFINE page == IF process[v].state = "connected" THEN "sent" ELSE "queued"
            p == [process[v] EXCEPT !.page = page]
<1>1. process[v] \in Processes /\ ops \in 0..MaxOps
  BY DEF IInv, TypeOK
<1>2. /\ p \in Processes /\ p.page = page /\ p.state = process[v].state
      /\ (p.page = "known" => p.dbus) /\ (p.state = "connected" => p.page # "queued")
  BY <1>1 DEF Processes
<1>3. ProcessBecomes(v, p)
  BY DEF PageCreated
<1>. HIDE DEF p
<1>. QED  BY <1>1, <1>2, <1>3, ProcessStep DEF ProcessBecomes

LEMMA ConnectedStep ==
    ASSUME IInv, NEW v \in Views, Connected(v)
    PROVE  StepOK
<1>. DEFINE p == [process[v] EXCEPT !.state = "connected", !.page = EmitPending(process[v].page)]
            q == [process[v] EXCEPT !.state = "failed"]
<1>1. process[v] \in Processes /\ ops \in 0..MaxOps /\ (process[v].page = "known" => process[v].dbus)
  BY DEF IInv, TypeOK, Announcements
<1>2. /\ p \in Processes /\ (p.page = "known" => p.dbus) /\ p.page # "queued"
      /\ q \in Processes /\ (q.page = "known" => q.dbus) /\ q.state # "connected"
  BY <1>1 DEF Processes, EmitPending
<1>3. ProcessBecomes(v, p) \/ ProcessBecomes(v, q)
  BY <1>1 DEF Connected, Processes
<1>. HIDE DEF p, q
<1>. QED  BY <1>1, <1>2, <1>3, ProcessStep DEF ProcessBecomes

LEMMA AnnouncedStep ==
    ASSUME IInv, NEW v \in Views, Announced(v)
    PROVE  StepOK
<1>. DEFINE p == [process[v] EXCEPT !.page = "known", !.dbus = TRUE]
<1>1. process[v] \in Processes /\ ops \in 0..MaxOps
  BY DEF IInv, TypeOK
<1>2. p \in Processes /\ p.dbus /\ p.page # "queued"
  BY <1>1 DEF Processes
<1>3. ProcessBecomes(v, p)
  BY DEF Announced
<1>. HIDE DEF p
<1>. QED  BY <1>1, <1>2, <1>3, ProcessStep DEF ProcessBecomes

LEMMA ProcessGoneStep ==
    ASSUME IInv, NEW v \in Views, ProcessGone(v)
    PROVE  StepOK
<1>1. NoProcess \in Processes /\ NoProcess.page = "none" /\ NoProcess.state = "none"
  BY DEF NoProcess, Processes
<1>2. ops' \in 0..MaxOps
  BY BrowserAssumption DEF IInv, TypeOK, ProcessGone, Act
<1>. QED  BY <1>1, <1>2, ProcessStep DEF ProcessGone

LEMMA OtherStep ==
    ASSUME IInv, (\E v \in Views : SwitchPage(v)) \/ RefreshMonitor \/ Scroll
                 \/ UNCHANGED vars
    PROVE  StepOK
<1>. USE DEF IInv
<1>1. UNCHANGED <<pages, opened, browser, process, jsOff, content, node, monitors, asked>>
  BY DEF SwitchPage, RefreshMonitor, Scroll, vars
<1>2. active' \in 1..opened
  <2>1. ASSUME NEW v \in Views, SwitchPage(v)  PROVE active' \in 1..opened
    <3>1. Open \subseteq 1..opened
      BY Elements DEF Open, TypeOK
    <3>. QED  BY <2>1, <3>1 DEF SwitchPage
  <2>. QED  BY <2>1 DEF RefreshMonitor, Scroll, vars, TypeOK
<1>3. timers' \in Nat /\ scrolls' \in Nat /\ ops' \in 0..MaxOps
  BY BrowserAssumption DEF SwitchPage, RefreshMonitor, Scroll, vars, TypeOK, Act
<1>4. TypeOK'
  BY <1>1, <1>2, <1>3 DEF TypeOK
<1>5. Announcements' /\ \A w \in Views : Coherent(browser[w])'
  BY <1>1 DEF Announcements
<1>6. StepsMatch' /\ LocationsKept
  BY <1>1, NoBrowser
<1>. QED  BY <1>4, <1>5, <1>6 DEF StepOK

-----------------------------------------------------------------------------
(* The theorems. *)

LEMMA InitIInv == Init => IInv
<1>. SUFFICES ASSUME Init  PROVE IInv
  OBVIOUS
<1>. USE DEF Init
<1>1. Coherent(NewBrowser) /\ NewBrowser \in Browsers
  BY NewBrowserCoherent DEF Coherent
<1>2. TypeOK
  <2>1. opened \in Views /\ pages \in Seq(1..opened) /\ active \in 1..opened
    BY ViewsAreNumbers DEF Headlines
  <2>2. process \in [Views -> Processes]
    BY DEF Processes
  <2>3. content \in [mode : {"none", "item", "node"}, item : Items \union {None},
                     node : Nodes \union {None}]
    OBVIOUS
  <2>4. browser \in [Views -> Browsers] /\ asked \in [Views -> {"link", "history"}]
    BY <1>1
  <2>5. ops \in 0..MaxOps
    BY BrowserAssumption
  <2>. QED  BY <2>1, <2>2, <2>3, <2>4, <2>5 DEF TypeOK
<1>3. StepsMatch /\ Announcements
  BY DEF StepsMatch, Announcements
<1>. QED  BY <1>1, <1>2, <1>3 DEF IInv

LEMMA NextStep == IInv /\ [Next]_vars => StepOK
<1>. SUFFICES ASSUME IInv, [Next]_vars  PROVE StepOK
  OBVIOUS
<1>1. ASSUME NEW v \in Views, NEW u \in Urls, Launch(v, u)  PROVE StepOK
  BY <1>1, LaunchStep
<1>2. ASSUME NEW v \in Views, Back(v) \/ Forward(v)  PROVE StepOK
  BY <1>2, BackForwardStep
<1>3. ASSUME NEW v \in Views, Committed(v)  PROVE StepOK
  BY <1>3, CommittedStep
<1>4. ASSUME NEW v \in Views, Redirects(v)  PROVE StepOK
  BY <1>4, RedirectsStep
<1>5. ASSUME NEW v \in Views, StartProcess(v) \/ PageCreated(v) \/ Connected(v)
                              \/ Announced(v) \/ ProcessGone(v)
      PROVE  StepOK
  BY <1>5, StartProcessStep, PageCreatedStep, ConnectedStep, AnnouncedStep, ProcessGoneStep
<1>6. ASSUME NEW u \in Urls, NEW activate \in BOOLEAN, OpenTab(u, activate)  PROVE StepOK
  BY <1>6, OpenTabStep
<1>7. CASE ShowHelp \/ ShowMonitor \/ CloseByKey \/ CloseByButton
  BY <1>7, ShowHelpStep, ShowMonitorStep, CloseStep
<1>8. ASSUME NEW n \in Nodes, SelectNode(n)  PROVE StepOK
  BY <1>8, SelectNodeStep
<1>9. ASSUME NEW i \in Items, SelectItem(i)  PROVE StepOK
  BY <1>9, SelectItemStep
<1>10. CASE Search \/ Scrolled \/ TogglePreference
  BY <1>10, SearchStep, ScrolledStep, TogglePreferenceStep
<1>11. CASE (\E v \in Views : SwitchPage(v)) \/ RefreshMonitor \/ Scroll \/ UNCHANGED vars
  BY <1>11, OtherStep
<1>. QED
  BY <1>1, <1>2, <1>3, <1>4, <1>5, <1>6, <1>7, <1>8, <1>9, <1>10, <1>11 DEF Next

\* The inductive invariant holds in every reachable state.
THEOREM Invariant == Spec => []IInv
<1>1. Init => IInv
  BY InitIInv
<1>2. IInv /\ [Next]_vars => IInv'
  BY NextStep DEF StepOK
<1>. QED  BY <1>1, <1>2, PTL DEF Spec

\* Type correctness: the notebook holds views that were opened, and every browser,
\* history and process keeps its type.
THEOREM TypeCorrect == Spec => []TypeOK
<1>1. IInv => TypeOK
  BY DEF IInv
<1>. QED  BY <1>1, Invariant, PTL

\* The toolbar, the URL and the current location of a view at rest belong to the
\* page it shows, whatever loads overtook each other (liferea_browser.c).
THEOREM BarsAreRight == Spec => []BarsMatchPage
<1>1. IInv => BarsMatchPage
  <2>. SUFFICES ASSUME IInv, NEW v \in Open, AtRest(v), browser[v].url \notin Downloads,
                       browser[v].shown # Blank
       PROVE  LET b == browser[v] IN
              /\ b.toolbar <=> External(b.shown) /\ ~b.hiddenBar
              /\ b.toolbar => b.url = b.shown /\ Location(b.history) = b.shown
    BY DEF BarsMatchPage
  <2>. DEFINE b == browser[v]
  <2>1. v \in Views
    BY BrowserAssumption DEF IInv, TypeOK, Open, ToSet
  <2>2. b \in Browsers /\ Settled(b) /\ b.loads = <<>>
    BY <2>1 DEF IInv, Coherent, AtRest
  <2>3. b.url \in Urls \union {None} /\ b.toolbar \in BOOLEAN /\ b.hiddenBar \in BOOLEAN
    BY <2>2 DEF Browsers
  <2>. QED  BY <2>2, <2>3 DEF Settled, AtUrl, External
<1>. QED  BY <1>1, Invariant, PTL

\* Going back or forward never changes the list of locations
\* (browser_history_add_location).
THEOREM StepsKeep == Spec => StepsKeepLocations
<1>1. IInv /\ [Next]_vars => [\A v \in Views : asked[v] = "history" /\ asked'[v] = "history" =>
            browser'[v].history.locations = browser[v].history.locations]_vars
  BY NextStep DEF StepOK, LocationsKept
<1>. QED  BY <1>1, Invariant, PTL DEF Spec, StepsKeepLocations

\* A page whose announcement has arrived is known to its view, in whatever order page
\* and connection came (liferea_web_extension_emit_pending_pages_created).
THEOREM PagesKnown == Spec => []PagesAreKnown
<1>1. IInv => PagesAreKnown
  BY DEF IInv, TypeOK, Processes, Announcements, PagesAreKnown
<1>. QED  BY <1>1, Invariant, PTL
=============================================================================
