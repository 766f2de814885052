------------------------------ MODULE Documents ------------------------------
(***************************************************************************)
(* How a downloaded document becomes items and feed data: the choice of    *)
(* the parser (feed_parser.c), the parsers (parsers/*.c) and what they     *)
(* store with metadata.c and item.c.  Elements arrive one by one in any    *)
(* order, as they do in real feeds, and nearly every element overwrites,   *)
(* extends or respects what an earlier one left; metadata also lives on    *)
(* from one update of the feed to the next.                                *)
(*                                                                         *)
(* A text is a record: vis, its visible characters, len, its length with   *)
(* markup (the lengths the code compares), img, whether it shows the       *)
(* picture.  A date is a record: how it is written and the moment t > 0.   *)
(* URLs are absolute; those outside Usable are not http(s) or gopher ones. *)
(***************************************************************************)
EXTENDS Integers, Sequences, FiniteSets, SequencesExt, TLC

CONSTANTS
    Kinds,          \* the documents: [root, gopher, events, articles, link]
    ChannelElements, RssElements, FeedElements, EntryElements,
    Scripts, Articles, Lines,       \* the elements of each format
    Usable,         \* the URLs item_set_source() takes
    Wrapper,        \* the length of an empty <div> of extracted HTML
    MaxGopherItems, \* MAX_GOPHER_ITEMS
    MaxTries,       \* AUTO_DISCOVERY_MAX_REDIRECTS
    MaxElements,    \* bound: elements read in a behaviour
    MaxUpdates,     \* bound: documents read in a behaviour
    None

ASSUME WrapperAssumption == Wrapper \in Nat \ {0}

\* The name spaces whose handlers read the children of an Atom entry (those
\* registered with Atom that have a parseItemTag), and those that read the
\* children of a channel or feed.
EntrySpaces == {"dc", "content", "media", "cc", "slash", "wfw", "georss", "trackback"}
ChannelSpaces == {"dc", "cc", "itunes", "syn", "admin", "source"}

\* An element with a handler is written with its prefix; those without text that
\* atom10_parse_entry_published() ignores are not among the elements.
ASSUME ElementsAssumption ==
    /\ \A e \in EntryElements :
          /\ e.ns \in EntrySpaces \union {None}
          /\ e.tag \in {"published", "updated"} => e.ns = None
          /\ e.tag = "published" => e.date # None
    /\ \A e \in ChannelElements \union FeedElements : e.ns \in ChannelSpaces \union {None}

VARIABLES
    sub,        \* the subscription: [meta, time, ttl, period, frequency, fhp, error, tries]
    orig,       \* ctxt->origSubscriptionMetadata
    kind,       \* the document that is read
    phase,      \* the parser loop that runs
    title,      \* ctxt->title
    item,       \* ctxt->item
    items,      \* ctxt->items
    seen,       \* history: the elements of the current item, in order
    undated,    \* history: the times this document gave to items without one
    steps, updates

documentsVars == <<sub, orig, kind, phase, title, item, items, seen, undated, steps, updates>>

-----------------------------------------------------------------------------
(* metadata.c: an ordered list of values per key. *)

NoMeta == <<>>

MetaSet(meta, k, v) ==
    [x \in DOMAIN meta \union {k} |-> IF x = k THEN <<v>> ELSE meta[x]]

MetaAppend(meta, k, v) ==
    IF v = None \/ (k \in DOMAIN meta /\ v \in ToSet(meta[k])) THEN meta
    ELSE IF k \in DOMAIN meta THEN [meta EXCEPT ![k] = Append(@, v)]
    ELSE MetaSet(meta, k, v)

MetaGet(meta, k) == IF k \in DOMAIN meta THEN meta[k][1] ELSE None

\* Copying appends value by value, which drops the values that are NULL.
MetaCopy(meta) ==
    [k \in {x \in DOMAIN meta : \E v \in ToSet(meta[x]) : v # None} |->
        SelectSeq(meta[k], LAMBDA v : v # None)]

-----------------------------------------------------------------------------
(* Texts, dates and the setters of an item. *)

NoText == [vis |-> 0, len |-> 0, img |-> FALSE]

\* xhtml_extract() puts what it finds, nothing included, into a <div>.
Extracted(x) == [x EXCEPT !.len = x.vis + Wrapper]
PlainText(x) == IF x.vis = 0 THEN NoText ELSE [x EXCEPT !.len = x.vis]

\* unhtmlize(): the text without its tags, or the tags if nothing else is there.
Unmarked(x) == IF x.vis = 0 THEN x ELSE [x EXCEPT !.len = x.vis]

DateIso8601(d) == IF d.form = "iso" THEN d.t ELSE 0
DateRfc822(d) == IF d.form = "rfc" THEN d.t ELSE 0

NewItem == [id |-> None, valid |-> FALSE, source |-> None, title |-> NoText,
            desc |-> NoText, time |-> 0, meta |-> NoMeta, enclosure |-> FALSE]

ItemSetDescription(it, x) ==
    IF x = NoText \/ (it.desc # NoText /\ x.len <= it.desc.len)
    THEN it ELSE [it EXCEPT !.desc = x]

ItemSetSource(it, url) ==
    [it EXCEPT !.source = IF url \in Usable THEN url ELSE None]

ItemSetTime(it, t) == [it EXCEPT !.time = t]
ItemSetTitle(it, x) == [it EXCEPT !.title = x]
ItemSetId(it, id) == [it EXCEPT !.id = id]
ItemMeta(it, k, v) == [it EXCEPT !.meta = MetaSet(@, k, v)]
ItemAppend(it, k, v) == [it EXCEPT !.meta = MetaAppend(@, k, v)]
SubMeta(s, k, v) == [s EXCEPT !.meta = MetaSet(@, k, v)]
SubAppend(s, k, v) == [s EXCEPT !.meta = MetaAppend(@, k, v)]

ItemAddEnclosure(it, url) ==
    [ItemAppend(it, "enclosure", url) EXCEPT !.enclosure = TRUE]

SetHomepage(s, url) == IF url = None THEN s ELSE SubMeta(s, "homepage", url)

-----------------------------------------------------------------------------
(* The name space handlers, for items and for the channel. *)

DcKey(tag) ==
    CASE tag = "dc:subject" -> "category" [] tag = "dc:creator" -> "creator"
      [] tag = "dc:description" -> "description" [] tag = "dc:language" -> "language"
      [] tag = "dc:rights" -> "copyright" [] OTHER -> None

DcItem(it, e) ==
    CASE e.tag = "dc:date" -> ItemSetTime(it, DateIso8601(e.date))
      [] e.tag = "dc:title" -> ItemSetTitle(it, e.text)
      [] DcKey(e.tag) # None -> ItemAppend(it, DcKey(e.tag), e.v)
      [] OTHER -> it

DcChannel(s, e) ==
    IF e.tag = "dc:title" THEN SubAppend(s, "feedTitle", e.v)
    ELSE IF DcKey(e.tag) # None THEN SubAppend(s, DcKey(e.tag), e.v) ELSE s

ContentItem(it, e) == ItemSetDescription(it, Extracted(e.text))

\* A gravatar is no enclosure, nor is a picture the description shows already.
MediaItem(it, e) ==
    CASE e.tag = "media:content" ->
            IF e.gravatar THEN ItemMeta(it, "gravatar", e.url)
            ELSE IF it.desc.img THEN it ELSE ItemAddEnclosure(it, e.url)
      [] e.tag = "media:thumbnail" -> ItemMeta(it, "mediathumbnail", e.url)
      [] e.tag = "media:description" -> ItemMeta(it, "mediadescription", e.v)
      [] e.tag = "media:starRating" ->
            ItemMeta(ItemMeta(it, "mediastarRatingcount", e.count), "mediastarRatingavg", e.v)
      [] e.tag = "media:statistics" -> IF e.v = "0" THEN it ELSE ItemMeta(it, "mediaviews", e.v)
      [] OTHER -> it

License(e) == IF e.tag = "cc:license" THEN e.v ELSE None
LicenseChannel(s, e) == SubMeta(s, "license", License(e))
LicenseItem(it, e) == ItemMeta(it, "license", License(e))

ItunesItem(it, e) ==
    CASE e.tag = "itunes:author" -> ItemAppend(it, "author", e.v)
      [] e.tag = "itunes:summary" -> ItemSetDescription(it, Extracted(e.text))
      [] e.tag = "itunes:image" -> ItemMeta(it, "mediathumbnail", e.url)
      [] e.tag = "itunes:keywords" -> FoldLeft(LAMBDA x, w : ItemAppend(x, "category", w), it, e.words)
      [] OTHER -> it

\* The summary replaces a shorter description of the feed, an older one included.
ItunesChannel(s, e) ==
    CASE e.tag = "itunes:summary" ->
            LET old == MetaGet(s.meta, "description")
                new == Extracted(e.text)
            IN IF old = None THEN SubMeta(s, "description", new)
               ELSE IF old.len < new.len THEN SubMeta(s, "description", new) ELSE s
      [] e.tag = "itunes:category" -> SubAppend(s, "category", e.v)
      [] e.tag = "itunes:image" -> SubMeta(s, "imageUrl", e.url)
      [] OTHER -> s

Period(v) ==
    CASE v = "hourly" -> 60 [] v = "daily" -> 60 * 24 [] v = "weekly" -> 7 * 24 * 60
      [] v = "monthly" -> 30 * 7 * 24 * 60 [] v = "yearly" -> 365 * 24 * 60 [] OTHER -> 0

SynChannel(s, e) ==
    IF e.tag = "syn:updatePeriod" THEN [s EXCEPT !.period = Period(e.v)]
    ELSE [s EXCEPT !.frequency = e.n]

SlashItem(it, e) ==
    IF e.tag = "slash:comments" /\ e.v = "0" THEN it
    ELSE ItemMeta(it, IF e.tag = "slash:comments" THEN "slashComments" ELSE "slashSection", e.v)

AdminChannel(s, e) == SubMeta(s, "errorReportsTo", e.v)
SourceChannel(s, e) == SubMeta(s, "blogroll", e.v)
WfwItem(it, e) == ItemMeta(it, "commentFeedUri", e.url)
GeorssItem(it, e) == ItemMeta(it, "point", e.v)
TrackbackItem(it, e) == ItemAppend(it, "related", e.url)

\* The handler parsed with a name space prefix; itunes is known to RSS only.
ItemNs(it, e) ==
    CASE e.ns = "dc" -> DcItem(it, e) [] e.ns = "content" -> ContentItem(it, e)
      [] e.ns = "media" -> MediaItem(it, e) [] e.ns = "cc" -> LicenseItem(it, e)
      [] e.ns = "itunes" -> ItunesItem(it, e) [] e.ns = "slash" -> SlashItem(it, e)
      [] e.ns = "wfw" -> WfwItem(it, e) [] e.ns = "georss" -> GeorssItem(it, e)
      [] e.ns = "trackback" -> TrackbackItem(it, e)

ChannelNs(s, e) ==
    CASE e.ns = "dc" -> DcChannel(s, e) [] e.ns = "cc" -> LicenseChannel(s, e)
      [] e.ns = "itunes" -> ItunesChannel(s, e) [] e.ns = "syn" -> SynChannel(s, e)
      [] e.ns = "admin" -> AdminChannel(s, e) [] e.ns = "source" -> SourceChannel(s, e)

-----------------------------------------------------------------------------
(* RSS: rss_channel.c and rss_item.c. *)

RssMapping(tag) ==
    CASE tag = "author" -> "author" [] tag = "generator" -> "feedgenerator"
      [] tag = "comments" -> "commentsUri" [] OTHER -> None

ChannelElement(s, e) ==
    IF e.ns # None THEN ChannelNs(s, e)
    ELSE CASE RssMapping(e.tag) # None -> SubMeta(s, RssMapping(e.tag), e.v)
           [] e.tag = "category" -> SubAppend(s, "category", e.v)
           [] e.tag = "pubDate" ->
                 [SubMeta(s, "contentUpdateDate", e.date) EXCEPT !.time = DateRfc822(e.date)]
           [] e.tag = "ttl" -> [s EXCEPT !.ttl = e.n]
           [] e.tag = "link" -> SetHomepage(s, e.url)
           [] e.tag = "description" -> SubMeta(s, "description", Extracted(e.text))
           [] OTHER -> s

\* The picture and the form of a channel; a form needs all of its four parts.
ImageElement(s, e) == SubMeta(s, "imageUrl", e.url)
TextInput(s, e) == IF e.complete THEN SubMeta(s, "textInput", e.v) ELSE s

\* The id is the rdf:about attribute or the first guid; a guid that is a
\* permalink is the source as long as there is none.
RssGuid(it, e) ==
    LET named == [ItemSetId(it, e.url) EXCEPT !.valid = TRUE]
    IN IF it.id # None THEN it
       ELSE IF it.source = None /\ e.permalink THEN ItemSetSource(named, e.url) ELSE named

RssElement(it, e) ==
    IF e.ns # None THEN ItemNs(it, e)
    ELSE CASE RssMapping(e.tag) # None -> ItemMeta(it, RssMapping(e.tag), e.v)
           [] e.tag = "pubDate" -> ItemSetTime(it, DateRfc822(e.date))
           [] e.tag = "enclosure" -> ItemAddEnclosure(it, e.url)
           [] e.tag = "guid" -> RssGuid(it, e)
           [] e.tag = "title" -> ItemSetTitle(it, Unmarked(e.text))
           [] e.tag = "link" -> ItemSetSource(it, e.url)
           [] e.tag = "description" ->
                 IF it.desc = NoText THEN ItemSetDescription(it, Extracted(e.text)) ELSE it
           [] e.tag = "source" -> ItemMeta(it, "realSourceUrl", e.url)
           [] OTHER -> it

RssItem(about) ==
    IF about = None THEN NewItem ELSE ItemSetSource(ItemSetId(NewItem, about), about)

-----------------------------------------------------------------------------
(* Atom: atom10.c. *)

TextConstruct(e) ==
    CASE e.type = "text" -> PlainText(e.text)
      [] e.type \in {"html", "xhtml"} -> Extracted(e.text)
      [] OTHER -> [vis |-> Wrapper, len |-> Wrapper, img |-> FALSE]  \* a fixed sentence

ContentConstruct(e) ==
    CASE e.type = "text" -> PlainText(e.text)
      [] e.type \in {"html", "xhtml"} -> Extracted(e.text)
      [] OTHER -> NoText      \* src attribute or a type that cannot be shown

\* The author in one line, or nothing: a name is required, of which the last counts (e.v),
\* and two mail addresses or pages are wrong.
Person(e) == IF e.names > 0 /\ e.mails <= 1 /\ e.uris <= 1 THEN e.v ELSE None

\* The rel values that name the page of the entry; anything unknown does.
IsAlternate(e) == e.rel \notin {"replies", "enclosure", "related", "via"}

\* What the other links leave with an entry.
LinkData(it, e) ==
    CASE e.rel = "replies" -> ItemMeta(it, "commentFeedUri", e.url)
      [] e.rel = "enclosure" -> ItemAddEnclosure(it, e.url)
      [] e.rel \in {"related", "via"} -> ItemAppend(it, e.rel, e.url)
      [] OTHER -> it

EntryLink(it, e) ==
    IF e.rel = "self" /\ it.source # None THEN it
    ELSE IF IsAlternate(e) THEN ItemSetSource(it, e.url) ELSE LinkData(it, e)

Hidden == {"reading-list", "read"}      \* categories of reader services

EntryPublished(it, e) ==
    ItemMeta(ItemSetTime(it, DateIso8601(e.date)), "pubDate", e.date)

\* (slip) the date of the last change always counts
UpdatedAlways(it, e) ==
    ItemMeta(ItemSetTime(it, DateIso8601(e.date)), "contentUpdateDate", e.date)

EntryUpdated(it, e) ==
    ItemMeta(IF MetaGet(it.meta, "pubDate") = None
             THEN ItemSetTime(it, DateIso8601(e.date)) ELSE it,
             "contentUpdateDate", e.date)

EntryElement(it, e) ==
    IF e.ns # None THEN ItemNs(it, e)
    ELSE CASE e.tag \in {"author", "contributor"} -> ItemAppend(it, e.tag, Person(e))
           [] e.tag = "category" ->
                 IF e.v \in Hidden THEN it ELSE ItemAppend(it, "category", e.v)
           [] e.tag = "content" -> ItemSetDescription(it, ContentConstruct(e))
           [] e.tag = "summary" -> ItemSetDescription(it, TextConstruct(e))
           [] e.tag = "id" -> [ItemSetId(it, e.url) EXCEPT !.valid = TRUE]
           [] e.tag = "link" -> EntryLink(it, e)
           [] e.tag = "published" -> EntryPublished(it, e)
           [] e.tag = "updated" -> EntryUpdated(it, e)
           [] e.tag = "rights" -> ItemMeta(it, "copyright", TextConstruct(e))
           [] e.tag = "title" -> ItemSetTitle(it, Unmarked(TextConstruct(e)))
           [] OTHER -> it

FeedLink(s, e) ==
    IF e.rel = "self" /\ MetaGet(s.meta, "homepage") # None THEN s
    ELSE IF IsAlternate(e) THEN SetHomepage(s, e.url) ELSE s

\* The other links of the feed go to the last entry, which still is ctxt->item.
LateLink(it, e) == IF e.tag = "link" /\ ~IsAlternate(e) THEN LinkData(it, e) ELSE it

\* Without a version or a uri nothing is built, and nothing is stored.
Generator(e) == IF e.versioned THEN e.v ELSE None

FeedElement(s, e) ==
    IF e.ns # None THEN ChannelNs(s, e)
    ELSE CASE e.tag \in {"author", "contributor"} -> SubAppend(s, e.tag, Person(e))
           [] e.tag = "category" -> SubAppend(s, "category", e.v)
           [] e.tag = "generator" -> SubMeta(s, "feedgenerator", Generator(e))
           [] e.tag = "icon" -> SubMeta(s, "icon", e.url)
           [] e.tag = "logo" -> SubMeta(s, "imageUrl", e.url)
           [] e.tag = "link" -> FeedLink(s, e)
           [] e.tag = "rights" -> SubMeta(s, "copyright", TextConstruct(e))
           [] e.tag = "subtitle" -> SubMeta(s, "description", TextConstruct(e))
           [] e.tag = "updated" ->
                 [SubMeta(s, "contentUpdateDate", e.date) EXCEPT !.time = DateIso8601(e.date)]
           [] OTHER -> s

\* g_list_insert_sorted() with atom10_item_sort_by_date(): newer items first.
InsertedByDate(is, it) ==
    LET older == {i \in DOMAIN is : is[i].time <= it.time}
        at == IF older = {} THEN Len(is) + 1 ELSE CHOOSE i \in older : \A j \in older : i <= j
    IN InsertAt(is, at, it)

-----------------------------------------------------------------------------
(* Pages and listings: html5_feed.c, ldjson_feed.c, gopher.c. *)

\* The time attribute is read as extracted HTML, which is never a date.
ArticleTime(e) == 0

Article(e) ==
    ItemSetDescription(
        [ItemSetSource(NewItem, e.url) EXCEPT
            !.id = e.url, !.title = e.text,
            !.time = IF ArticleTime(e) = 0 THEN sub.time ELSE ArticleTime(e)],
        Extracted(e.text))

ArticleItems(is, e) ==
    LET it == Article(e)
    IN IF it.id # None /\ it.title # NoText THEN Append(is, it) ELSE is

\* The two ways to write a date are told apart by a blank.
EventTime(e) ==
    CASE e.date = None -> sub.time
      [] e.date # None /\ e.date.form = "rfc" -> DateRfc822(e.date)
      [] OTHER -> DateIso8601(e.date)

Event(e) ==
    ItemSetDescription(
        [ItemSetSource(NewItem, e.url) EXCEPT
            !.id = e.url, !.title = e.text, !.time = EventTime(e)],
        e.text)

EventItems(is, e) ==
    LET it == Event(e)
    IN IF it.id # None /\ it.title # NoText THEN Append(is, it) ELSE is

Website(s, e) == SubMeta(SetHomepage(s, e.url), "imageUrl", e.v)

GopherItem(e) ==
    [ItemSetSource(NewItem, e.url) EXCEPT
        !.id = e.url, !.title = e.text, !.time = sub.time]

-----------------------------------------------------------------------------
(* feed_parser.c: which parsers read the document. *)

RssRoots == {"rss", "rdf", "Channel"}

\* The first of the syndication formats, in the order of registration.
FirstHandler(k) ==
    CASE k.root \in RssRoots -> "rss"
      [] k.root = "feed" -> "atom"
      [] k.root = None /\ k.gopher -> "gopher"
      [] OTHER -> None

\* A page counts as a feed with an event in its LD+JSON, or three articles.
HasEvents(k) == k.events
HasArticles(k) == k.articles

\* The parsers of pages come after discovery, and after any other parser.
HtmlHandler(k) ==
    CASE HasEvents(k) -> "ldjson"
      [] ~HasEvents(k) /\ HasArticles(k) -> "html5"
      [] OTHER -> None

\* Discovery: a feed link, which starts an update of its own, and a blogroll.
Discovers(s, k) == s.tries + 1 <= MaxTries /\ k.link

Searched(s, k) ==
    [IF Discovers(s, k) THEN SubMeta(s, "blogroll", "found") ELSE s EXCEPT !.tries = @ + 1]

LoopOf(h) ==
    CASE h = "rss" -> "channel" [] h = "atom" -> "feed" [] h = "gopher" -> "lines"
      [] h = "ldjson" -> "scripts" [] h = "html5" -> "articles"

\* A parser starts from the metadata the feed had before this document.
Begun(s, h, before, now) ==
    LET clean == [s EXCEPT !.fhp = h, !.meta = MetaCopy(before),
                           !.time = IF h = "atom" THEN @ ELSE now]
    IN IF h \in {"gopher", "ldjson", "html5"} THEN SetHomepage(clean, "source") ELSE clean

\* Step 6: a success clears the error and, with a known format, the tries.
Concluded(s, k, success) ==
    CASE success -> [s EXCEPT !.error = FALSE, !.tries = IF s.fhp = None THEN @ ELSE 0]
      [] ~success /\ k.root \in {"html", None} -> [s EXCEPT !.error = TRUE]
      [] OTHER -> s

-----------------------------------------------------------------------------
(* The steps of feed_parse(). *)

\* The fields of a subscription that documents set.
NewSubscription ==
    [meta |-> NoMeta, time |-> 0, ttl |-> 0, period |-> 0, frequency |-> 0,
     fhp |-> None, error |-> FALSE, tries |-> 0]

DocumentsInit ==
    /\ sub = NewSubscription
    /\ orig = NoMeta /\ kind = None /\ phase = "idle"
    /\ title = NoText /\ item = NewItem /\ items = <<>>
    /\ seen = <<>> /\ undated = {}
    /\ steps = 0 /\ updates = 0

\* Steps 1 to 5: a syndication format, else discovery and the page parsers.
Recognise(k) ==
    /\ phase = "idle" /\ updates < MaxUpdates
    /\ kind' = k /\ orig' = MetaCopy(sub.meta)
    /\ title' = NoText /\ item' = NewItem /\ items' = <<>>
    /\ seen' = <<>> /\ undated' = {}
    /\ LET first == FirstHandler(k)
           page == HtmlHandler(k)
           searched == Searched(sub, k)
       IN \/ /\ first # None
             /\ sub' = Begun(sub, first, MetaCopy(sub.meta), updates + 1) /\ phase' = LoopOf(first)
          \/ /\ first = None /\ page # None
             /\ sub' = Begun(searched, page, MetaCopy(sub.meta), updates + 1) /\ phase' = LoopOf(page)
          \/ /\ first = None /\ page = None
             /\ sub' = Concluded(searched, k, Discovers(sub, k)) /\ phase' = "idle"
    /\ updates' = updates + 1
    /\ UNCHANGED steps

\* The page parsers run after a syndication format as well; then step 6.
EndDocument ==
    /\ phase \in {"items", "feed", "lines", "scripts", "articles"}
    /\ LET page == HtmlHandler(kind)
           again == phase \in {"items", "feed", "lines"} /\ page # None
       IN \/ /\ again
             /\ sub' = Begun(sub, page, orig, updates) /\ phase' = LoopOf(page)
          \/ /\ ~again
             /\ sub' = Concluded(sub, kind, TRUE) /\ phase' = "idle"
    /\ UNCHANGED <<orig, kind, title, item, items, seen, undated, steps, updates>>

Reading == steps < MaxElements /\ steps' = steps + 1

\* Items without a date of their own take the one of the feed.
Dated(it) == IF it.time = 0 THEN ItemSetTime(it, sub.time) ELSE it
DateFilled == undated' = IF item.time = 0 THEN undated \union {sub.time} ELSE undated

NewTitle(e) == IF e.ns = None /\ e.tag = "title" THEN e.text ELSE title

\* (slip) the channel is read in one pass with its items
OnePass == {"channel", "items"}

\* RSS: one pass over the channel, a second one over its pictures and items.
ChannelPass == {"channel"}

ReadChannelElement(e) ==
    /\ phase \in ChannelPass /\ Reading
    /\ sub' = ChannelElement(sub, e) /\ title' = NewTitle(e)
    /\ UNCHANGED <<orig, kind, phase, item, items, seen, undated, updates>>

EndChannel ==
    /\ phase = "channel" /\ phase' = "items"
    /\ UNCHANGED <<sub, orig, kind, title, item, items, seen, undated, steps, updates>>

ReadChannelPart(e) ==
    /\ phase = "items" /\ e.tag \in {"image", "textInput"} /\ Reading
    /\ sub' = IF e.tag = "image" THEN ImageElement(sub, e) ELSE TextInput(sub, e)
    /\ UNCHANGED <<orig, kind, phase, title, item, items, seen, undated, updates>>

BeginRssItem(about) ==
    /\ phase = "items" /\ phase' = "rssitem" /\ Reading
    /\ item' = RssItem(about) /\ seen' = <<>>
    /\ UNCHANGED <<sub, orig, kind, title, items, undated, updates>>

ReadRssElement(e) ==
    /\ phase = "rssitem" /\ Reading
    /\ item' = RssElement(item, e) /\ seen' = Append(seen, e)
    /\ UNCHANGED <<sub, orig, kind, phase, title, items, undated, updates>>

EndRssItem ==
    /\ phase = "rssitem" /\ phase' = "items"
    /\ items' = Append(items, Dated(item)) /\ DateFilled
    /\ item' = Dated(item)
    /\ UNCHANGED <<sub, orig, kind, title, seen, steps, updates>>

ReadFeedElement(e) ==
    /\ phase = "feed" /\ Reading
    /\ sub' = FeedElement(sub, e) /\ title' = NewTitle(e)
    /\ IF items = <<>> THEN UNCHANGED <<item, items>>
       ELSE LET last == SelectInSeq(items, LAMBDA it : it = item)
            IN item' = LateLink(item, e) /\ items' = ReplaceAt(items, last, item')
    /\ UNCHANGED <<orig, kind, phase, seen, undated, updates>>

BeginEntry ==
    /\ phase = "feed" /\ phase' = "entry" /\ Reading
    /\ item' = NewItem /\ seen' = <<>>
    /\ UNCHANGED <<sub, orig, kind, title, items, undated, updates>>

ReadEntryElement(e) ==
    /\ phase = "entry" /\ Reading
    /\ item' = EntryElement(item, e) /\ seen' = Append(seen, e)
    /\ UNCHANGED <<sub, orig, kind, phase, title, items, undated, updates>>

EndEntry ==
    /\ phase = "entry" /\ phase' = "feed"
    /\ items' = InsertedByDate(items, Dated(item)) /\ DateFilled
    /\ item' = Dated(item)
    /\ UNCHANGED <<sub, orig, kind, title, seen, steps, updates>>

\* A gopher menu is read until it has given more than MaxGopherItems items.
ReadLine(e) ==
    /\ phase = "lines" /\ Len(items) <= MaxGopherItems /\ Reading
    /\ items' = Append(items, GopherItem(e))
    /\ UNCHANGED <<sub, orig, kind, phase, title, item, seen, undated, updates>>

ReadScript(e) ==
    /\ phase = "scripts" /\ Reading
    /\ IF e.tag = "WebPage"
       THEN sub' = Website(sub, e) /\ UNCHANGED <<item, items>>
       ELSE item' = Event(e) /\ items' = EventItems(items, e) /\ UNCHANGED sub
    /\ UNCHANGED <<orig, kind, phase, title, seen, undated, updates>>

ReadArticle(e) ==
    /\ phase = "articles" /\ Reading
    /\ item' = Article(e) /\ items' = ArticleItems(items, e)
    /\ UNCHANGED <<sub, orig, kind, phase, title, seen, undated, updates>>

DocumentsNext ==
    \/ \E k \in Kinds : Recognise(k)
    \/ \E e \in ChannelElements : ReadChannelElement(e) \/ ReadChannelPart(e)
    \/ EndChannel
    \/ \E about \in Usable \union {None} : BeginRssItem(about)
    \/ \E e \in RssElements : ReadRssElement(e)
    \/ EndRssItem
    \/ \E e \in FeedElements : ReadFeedElement(e)
    \/ BeginEntry
    \/ \E e \in EntryElements : ReadEntryElement(e)
    \/ EndEntry
    \/ \E e \in Lines : ReadLine(e)
    \/ \E e \in Scripts : ReadScript(e)
    \/ \E e \in Articles : ReadArticle(e)
    \/ EndDocument

DocumentsSpec == DocumentsInit /\ [][DocumentsNext]_documentsVars

-----------------------------------------------------------------------------
(* Properties *)

LastOf(tags) ==
    {i \in DOMAIN seen : /\ seen[i].tag \in tags
                         /\ \A j \in DOMAIN seen : seen[j].tag \in tags => j <= i}
Seen(tag) == {seen[i] : i \in {j \in DOMAIN seen : seen[j].tag = tag}}

(***************************************************************************)
(* In whatever order an Atom entry gives its dates, the publication date   *)
(* wins, and the date of the last change counts only when there is none    *)
(* (atom10_parse_entry_published, atom10_parse_entry_updated).             *)
(***************************************************************************)
EntryDate ==
    (phase = "entry" /\ Seen("dc:date") = {}) =>
        /\ \A i \in LastOf({"published"}) : item.time = DateIso8601(seen[i].date)
        /\ Seen("published") = {} =>
              \A i \in LastOf({"updated"}) : item.time = DateIso8601(seen[i].date)
        /\ Seen("published") \union Seen("updated") = {} => item.time = 0

(***************************************************************************)
(* All the items of an RSS document that carry no date get the same one,   *)
(* wherever among its elements the channel names its date (rss_parse reads *)
(* the channel in a pass of its own, before the items).                    *)
(***************************************************************************)
UndatedItemsAgree == sub.fhp = "rss" => Cardinality(undated) <= 1

(***************************************************************************)
(* The comment on atom10_parse_entry_summary(): the summary is shown if    *)
(* there is no content.  Shown is the longer of the two.                   *)
(***************************************************************************)
SummaryIsFallback ==
    phase = "entry" =>
        \A e \in Seen("content") : \A f \in Seen("summary") :
            (Cardinality(Seen("content")) = 1 /\ Seen("content:encoded") = {} /\ e.text.vis > 0
             /\ ContentConstruct(e) # NoText) => item.desc = ContentConstruct(e)

=============================================================================
