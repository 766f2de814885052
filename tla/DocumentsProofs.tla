-------------------------- MODULE DocumentsProofs --------------------------
(***************************************************************************)
(* Proofs about Documents, for any documents and elements, in any order,   *)
(* and, at the end, about Accounts, for any number of accounts, feeds and  *)
(* folders.                                                                *)
(***************************************************************************)
EXTENDS Documents, Accounts, FiniteSetTheorems, SequenceTheorems, TLAPS

ItemFields == {"id", "valid", "source", "title", "desc", "time", "meta", "enclosure"}

\* The publication date an Atom entry has stored.
PubDate(it) == MetaGet(it.meta, "pubDate")

\* b differs from a in neither its time nor its publication date.
SameDates(a, b) ==
    /\ DOMAIN b = ItemFields
    /\ b.time = a.time
    /\ PubDate(b) = PubDate(a)

LEMMA MetaSetOther ==
    ASSUME NEW meta, NEW k, NEW v, k # "pubDate"
    PROVE  MetaGet(MetaSet(meta, k, v), "pubDate") = MetaGet(meta, "pubDate")
  BY DEF MetaSet, MetaGet

LEMMA MetaAppendOther ==
    ASSUME NEW meta, NEW k, NEW v, k # "pubDate"
    PROVE  MetaGet(MetaAppend(meta, k, v), "pubDate") = MetaGet(meta, "pubDate")
  BY MetaSetOther DEF MetaAppend, MetaGet

LEMMA KeptByMeta ==
    ASSUME NEW it, DOMAIN it = ItemFields, NEW k, NEW v, k # "pubDate"
    PROVE  SameDates(it, ItemMeta(it, k, v)) /\ SameDates(it, ItemAppend(it, k, v))
  BY MetaSetOther, MetaAppendOther DEF ItemFields, SameDates, PubDate, ItemMeta, ItemAppend

LEMMA SameDatesTransitive ==
    ASSUME NEW a, NEW b, NEW c, SameDates(a, b), SameDates(b, c)
    PROVE  SameDates(a, c)
  BY DEF SameDates

LEMMA KeptBySetters ==
    ASSUME NEW it, DOMAIN it = ItemFields, NEW x
    PROVE  /\ SameDates(it, it)
           /\ SameDates(it, ItemSetDescription(it, x))
           /\ SameDates(it, ItemSetSource(it, x))
           /\ SameDates(it, ItemSetTitle(it, x))
           /\ SameDates(it, [ItemSetId(it, x) EXCEPT !.valid = TRUE])
           /\ SameDates(it, ItemAddEnclosure(it, x))
  <1>1. SameDates(it, it)
    BY DEF SameDates
  <1>2. SameDates(it, [it EXCEPT !.desc = x]) /\ SameDates(it, [it EXCEPT !.title = x])
    BY DEF SameDates, PubDate, ItemFields
  <1>3. SameDates(it, ItemSetSource(it, x))
    BY DEF SameDates, PubDate, ItemFields, ItemSetSource
  <1>4. SameDates(it, [ItemSetId(it, x) EXCEPT !.valid = TRUE])
    BY DEF SameDates, PubDate, ItemFields, ItemSetId
  <1>5. SameDates(it, ItemAddEnclosure(it, x))
    <2> DEFINE b == ItemAppend(it, "enclosure", x)
    <2>1. SameDates(it, b)
      BY KeptByMeta
    <2> HIDE DEF b
    <2>2. SameDates(b, [b EXCEPT !.enclosure = TRUE])
      BY <2>1 DEF SameDates, PubDate, ItemFields
    <2>3. SameDates(it, [b EXCEPT !.enclosure = TRUE])
      BY <2>1, <2>2, SameDatesTransitive
    <2>4. QED
      BY <2>3 DEF ItemAddEnclosure, b
  <1>6. QED
    BY <1>1, <1>2, <1>3, <1>4, <1>5 DEF ItemSetDescription, ItemSetTitle

LEMMA KeptByDc ==
    ASSUME NEW it, DOMAIN it = ItemFields, NEW e
    PROVE  /\ e.tag # "dc:date" => SameDates(it, DcItem(it, e))
           /\ DOMAIN DcItem(it, e) = ItemFields
           /\ PubDate(DcItem(it, e)) = PubDate(it)
  <1>1. DcKey(e.tag) # "pubDate" \/ DcKey(e.tag) = None
    BY DEF DcKey
  <1>2. CASE e.tag = "dc:date"
    BY <1>2 DEF DcItem, DcKey, ItemSetTime, PubDate, ItemFields
  <1>3. CASE e.tag = "dc:title"
    BY <1>3, KeptBySetters DEF DcItem, DcKey, SameDates
  <1>4. CASE e.tag \notin {"dc:date", "dc:title"} /\ DcKey(e.tag) # None
    <2>1. DcItem(it, e) = ItemAppend(it, DcKey(e.tag), e.v)
      BY <1>4 DEF DcItem
    <2>2. SameDates(it, DcItem(it, e))
      BY <1>1, <1>4, <2>1, KeptByMeta
    <2>3. QED
      BY <2>2 DEF SameDates
  <1>5. CASE e.tag \notin {"dc:date", "dc:title"} /\ DcKey(e.tag) = None
    BY <1>5, KeptBySetters DEF DcItem, SameDates
  <1>6. QED
    BY <1>2, <1>3, <1>4, <1>5

LEMMA KeptByMedia ==
    ASSUME NEW it, DOMAIN it = ItemFields, NEW e
    PROVE  SameDates(it, MediaItem(it, e))
  <1>1. SameDates(it, it) /\ SameDates(it, ItemAddEnclosure(it, e.url))
    BY KeptBySetters
  <1>2. /\ SameDates(it, ItemMeta(it, "gravatar", e.url))
        /\ SameDates(it, ItemMeta(it, "mediathumbnail", e.url))
        /\ SameDates(it, ItemMeta(it, "mediadescription", e.v))
        /\ SameDates(it, ItemMeta(it, "mediaviews", e.v))
    BY KeptByMeta
  <1>3. SameDates(it,
            ItemMeta(ItemMeta(it, "mediastarRatingcount", e.count), "mediastarRatingavg", e.v))
    <2> DEFINE b == ItemMeta(it, "mediastarRatingcount", e.count)
    <2>1. SameDates(it, b)
      BY KeptByMeta
    <2>2. DOMAIN b = ItemFields
      BY <2>1 DEF SameDates
    <2> HIDE DEF b
    <2>3. SameDates(b, ItemMeta(b, "mediastarRatingavg", e.v))
      BY <2>2, KeptByMeta
    <2>4. SameDates(it, ItemMeta(b, "mediastarRatingavg", e.v))
      BY <2>1, <2>3, SameDatesTransitive
    <2>5. QED
      BY <2>4 DEF b
  <1>4. QED
    BY <1>1, <1>2, <1>3 DEF MediaItem

\* A handler of another name space leaves the dates of an entry alone, dc:date apart.
LEMMA KeptByNs ==
    ASSUME NEW it, DOMAIN it = ItemFields, NEW e, e.ns \in EntrySpaces
    PROVE  /\ e.tag # "dc:date" => SameDates(it, ItemNs(it, e))
           /\ DOMAIN ItemNs(it, e) = ItemFields
           /\ PubDate(ItemNs(it, e)) = PubDate(it)
  <1>1. CASE e.ns = "dc"
    BY <1>1, KeptByDc DEF ItemNs
  <1>2. SUFFICES ASSUME e.ns # "dc"
                 PROVE  SameDates(it, ItemNs(it, e))
    BY <1>1 DEF SameDates
  <1>3. CASE e.ns = "content"
    BY <1>3, KeptBySetters DEF ItemNs, ContentItem
  <1>4. CASE e.ns = "media"
    BY <1>4, KeptByMedia DEF ItemNs
  <1>5. CASE e.ns = "cc"
    BY <1>5, KeptByMeta DEF ItemNs, LicenseItem
  <1>6. CASE e.ns = "slash"
    <2>1. /\ SameDates(it, it)
          /\ SameDates(it, ItemMeta(it, "slashComments", e.v))
          /\ SameDates(it, ItemMeta(it, "slashSection", e.v))
      BY KeptByMeta, KeptBySetters
    <2>2. QED
      BY <1>6, <2>1 DEF ItemNs, SlashItem
  <1>7. CASE e.ns = "wfw"
    BY <1>7, KeptByMeta DEF ItemNs, WfwItem
  <1>8. CASE e.ns = "georss"
    BY <1>8, KeptByMeta DEF ItemNs, GeorssItem
  <1>9. CASE e.ns = "trackback"
    BY <1>9, KeptByMeta DEF ItemNs, TrackbackItem
  <1>10. QED
    BY <1>2, <1>3, <1>4, <1>5, <1>6, <1>7, <1>8, <1>9 DEF EntrySpaces

LEMMA KeptByLink ==
    ASSUME NEW it, DOMAIN it = ItemFields, NEW e
    PROVE  SameDates(it, EntryLink(it, e))
  <1>1. /\ SameDates(it, it)
        /\ SameDates(it, ItemSetSource(it, e.url))
        /\ SameDates(it, ItemAddEnclosure(it, e.url))
    BY KeptBySetters
  <1>2. /\ SameDates(it, ItemMeta(it, "commentFeedUri", e.url))
        /\ e.rel \in {"related", "via"} => SameDates(it, ItemAppend(it, e.rel, e.url))
    BY KeptByMeta
  <1>3. SameDates(it, LinkData(it, e))
    BY <1>1, <1>2 DEF LinkData
  <1>4. QED
    BY <1>1, <1>3 DEF EntryLink

\* What an element of an entry does to its dates.
LEMMA DatesOfElement ==
    ASSUME NEW it, DOMAIN it = ItemFields, NEW e \in EntryElements
    PROVE  LET b == EntryElement(it, e)
           IN /\ DOMAIN b = ItemFields
              /\ e.tag = "published" => PubDate(b) # None /\ b.time = DateIso8601(e.date)
              /\ e.tag # "published" => PubDate(b) = PubDate(it)
              /\ e.tag = "updated" =>
                    b.time = IF PubDate(it) = None THEN DateIso8601(e.date) ELSE it.time
              /\ e.tag \notin {"published", "updated", "dc:date"} => b.time = it.time
  <1> DEFINE b == EntryElement(it, e)
  <1>1. /\ e.ns \in EntrySpaces \union {None}
        /\ e.tag \in {"published", "updated"} => e.ns = None
        /\ e.tag = "published" => e.date # None
    BY ElementsAssumption
  <1>2. CASE e.ns # None
    <2>1. b = ItemNs(it, e)
      BY <1>2 DEF EntryElement
    <2>2. QED
      BY <1>1, <1>2, <2>1, KeptByNs DEF SameDates
  <1>3. CASE e.ns = None /\ e.tag = "published"
    <2>1. b = EntryPublished(it, e)
      BY <1>3 DEF EntryElement
    <2>2. /\ DOMAIN b = ItemFields /\ b.time = DateIso8601(e.date)
          /\ b.meta = MetaSet(it.meta, "pubDate", e.date)
      BY <2>1 DEF EntryPublished, ItemMeta, ItemSetTime, ItemFields
    <2> HIDE DEF b
    <2>3. PubDate(b) = e.date
      BY <2>2 DEF PubDate, MetaGet, MetaSet
    <2>4. QED
      BY <1>1, <1>3, <2>2, <2>3 DEF b
  <1>4. CASE e.ns = None /\ e.tag = "updated"
    <2> DEFINE t == IF PubDate(it) = None THEN ItemSetTime(it, DateIso8601(e.date)) ELSE it
    <2>1. b = ItemMeta(t, "contentUpdateDate", e.date)
      BY <1>4 DEF EntryElement, EntryUpdated, PubDate
    <2>2. /\ DOMAIN t = ItemFields /\ PubDate(t) = PubDate(it)
          /\ t.time = IF PubDate(it) = None THEN DateIso8601(e.date) ELSE it.time
      BY DEF ItemSetTime, ItemFields, PubDate
    <2> HIDE DEF t
    <2>3. SameDates(t, b)
      BY <2>1, <2>2, KeptByMeta
    <2>4. QED
      BY <1>4, <2>2, <2>3 DEF SameDates
  <1>5. CASE e.ns = None /\ e.tag \notin {"published", "updated"}
    <2>1. SameDates(it, it) /\ SameDates(it, EntryLink(it, e))
      BY KeptBySetters, KeptByLink
    <2>2. /\ SameDates(it, ItemMeta(it, "copyright", TextConstruct(e)))
          /\ e.tag \in {"author", "contributor"} => SameDates(it, ItemAppend(it, e.tag, Person(e)))
          /\ SameDates(it, ItemAppend(it, "category", e.v))
      BY KeptByMeta
    <2>3. /\ SameDates(it, ItemSetDescription(it, ContentConstruct(e)))
          /\ SameDates(it, ItemSetDescription(it, TextConstruct(e)))
          /\ SameDates(it, [ItemSetId(it, e.url) EXCEPT !.valid = TRUE])
          /\ SameDates(it, ItemSetTitle(it, Unmarked(TextConstruct(e))))
      BY KeptBySetters
    <2>4. SameDates(it, b)
      BY <1>5, <2>1, <2>2, <2>3 DEF EntryElement
    <2>5. QED
      BY <1>5, <2>4 DEF SameDates
  <1>6. QED
    BY <1>2, <1>3, <1>4, <1>5

-----------------------------------------------------------------------------
(* The dates of an Atom entry. *)

\* The indexes of the last element of a name in a sequence (one or none).
LastIn(s, tag) ==
    {i \in DOMAIN s : s[i].tag = tag /\ \A j \in DOMAIN s : s[j].tag = tag => j <= i}

LEMMA SeenIsEmpty ==
    ASSUME NEW tag
    PROVE  /\ (Seen(tag) = {}) <=> (\A i \in DOMAIN seen : seen[i].tag # tag)
           /\ LastOf({tag}) = LastIn(seen, tag)
  BY DEF Seen, LastOf, LastIn

\* Appending an element of the name makes it the last; appending another changes nothing.
LEMMA LastAppended ==
    ASSUME NEW S, NEW s \in Seq(S), NEW e \in S, NEW tag, NEW t, t = Append(s, e)
    PROVE  /\ e.tag = tag => LastIn(t, tag) = {Len(s) + 1} /\ t[Len(s) + 1] = e
           /\ e.tag # tag =>
                 LastIn(t, tag) = LastIn(s, tag) /\ \A i \in LastIn(s, tag) : t[i] = s[i]
           /\ (\A i \in DOMAIN t : t[i].tag # tag) <=>
                 (e.tag # tag /\ \A i \in DOMAIN s : s[i].tag # tag)
  <1> DEFINE n == Len(s)
  <1>1. n \in Nat /\ DOMAIN s = 1..n /\ DOMAIN t = 1..n + 1
    OBVIOUS
  <1>2. t[n + 1] = e /\ \A i \in 1..n : t[i] = s[i]
    OBVIOUS
  <1> HIDE DEF n
  <1>3. \A i \in 1..n + 1 : i \in 1..n \/ i = n + 1
    BY <1>1
  <1>4. ASSUME e.tag = tag PROVE LastIn(t, tag) = {n + 1}
    BY <1>1, <1>2, <1>3, <1>4 DEF LastIn
  <1>5. ASSUME e.tag # tag
        PROVE  LastIn(t, tag) = LastIn(s, tag) /\ \A i \in LastIn(s, tag) : t[i] = s[i]
    BY <1>1, <1>2, <1>3, <1>5 DEF LastIn
  <1>6. (\A i \in DOMAIN t : t[i].tag # tag) <=> (e.tag # tag /\ \A i \in DOMAIN s : s[i].tag # tag)
    BY <1>1, <1>2, <1>3
  <1>7. QED
    BY <1>2, <1>4, <1>5, <1>6 DEF n

\* An entry has stored a publication date once it has given one, and only then.
EntryInv ==
    phase = "entry" =>
        /\ seen \in Seq(EntryElements)
        /\ DOMAIN item = ItemFields
        /\ (PubDate(item) = None) <=> (\A i \in DOMAIN seen : seen[i].tag # "published")
        /\ EntryDate

LEMMA EntryElementKeeps ==
    ASSUME EntryInv, NEW e \in EntryElements, ReadEntryElement(e)
    PROVE  EntryInv'
  <1> DEFINE Without(s, tag) == \A i \in DOMAIN s : s[i].tag # tag
  <1>1. /\ phase = "entry" /\ phase' = "entry"
        /\ item' = EntryElement(item, e) /\ seen' = Append(seen, e)
    BY DEF ReadEntryElement
  <1>2. /\ seen \in Seq(EntryElements) /\ DOMAIN item = ItemFields
        /\ (PubDate(item) = None) <=> Without(seen, "published")
        /\ EntryDate
    BY <1>1 DEF EntryInv
  <1>3. seen' \in Seq(EntryElements)
    BY <1>1, <1>2
  <1>4. /\ DOMAIN item' = ItemFields
        /\ e.tag = "published" => PubDate(item') # None /\ item'.time = DateIso8601(e.date)
        /\ e.tag # "published" => PubDate(item') = PubDate(item)
        /\ e.tag = "updated" =>
              item'.time = IF PubDate(item) = None THEN DateIso8601(e.date) ELSE item.time
        /\ e.tag \notin {"published", "updated", "dc:date"} => item'.time = item.time
    BY <1>1, <1>2, DatesOfElement
  <1>5. ASSUME NEW tag
        PROVE  /\ e.tag = tag => LastIn(seen', tag) = {Len(seen) + 1} /\ seen'[Len(seen) + 1] = e
               /\ e.tag # tag => /\ LastIn(seen', tag) = LastIn(seen, tag)
                                 /\ \A i \in LastIn(seen, tag) : seen'[i] = seen[i]
               /\ Without(seen', tag) <=> (e.tag # tag /\ Without(seen, tag))
    <2>1. /\ e.tag = tag => LastIn(seen', tag) = {Len(seen) + 1} /\ seen'[Len(seen) + 1] = e
          /\ e.tag # tag => /\ LastIn(seen', tag) = LastIn(seen, tag)
                            /\ \A i \in LastIn(seen, tag) : seen'[i] = seen[i]
          /\ (\A i \in DOMAIN seen' : seen'[i].tag # tag) <=>
                (e.tag # tag /\ \A i \in DOMAIN seen : seen[i].tag # tag)
      <3>1. seen \in Seq(EntryElements) /\ e \in EntryElements /\ seen' = Append(seen, e)
        BY <1>1, <1>2
      <3>2. QED
        BY ONLY <3>1, LastAppended DEF LastIn
    <2>2. QED
      BY <2>1
  <1>6. \A tag : /\ (Seen(tag) = {}) <=> Without(seen, tag)
                 /\ LastOf({tag}) = LastIn(seen, tag)
    BY SeenIsEmpty
  <1>7. \A tag : /\ (Seen(tag) = {})' <=> Without(seen', tag)
                 /\ LastOf({tag})' = LastIn(seen', tag)
    BY DEF Seen, LastOf, LastIn
  <1>8. (PubDate(item') = None) <=> Without(seen', "published")
    BY <1>2, <1>4, <1>5
  <1>9. Without(seen, "dc:date") =>
          /\ \A i \in LastIn(seen, "published") : item.time = DateIso8601(seen[i].date)
          /\ Without(seen, "published") =>
                \A i \in LastIn(seen, "updated") : item.time = DateIso8601(seen[i].date)
          /\ (Without(seen, "published") /\ Without(seen, "updated")) => item.time = 0
    BY <1>1, <1>2, <1>6 DEF EntryDate
  <1> HIDE DEF Without
  <1>10. Without(seen', "dc:date") =>
          /\ \A i \in LastIn(seen', "published") : item'.time = DateIso8601(seen'[i].date)
          /\ Without(seen', "published") =>
                \A i \in LastIn(seen', "updated") : item'.time = DateIso8601(seen'[i].date)
          /\ (Without(seen', "published") /\ Without(seen', "updated")) => item'.time = 0
    <2> SUFFICES ASSUME Without(seen', "dc:date")
                 PROVE  /\ \A i \in LastIn(seen', "published") :
                              item'.time = DateIso8601(seen'[i].date)
                        /\ Without(seen', "published") =>
                              \A i \in LastIn(seen', "updated") :
                                  item'.time = DateIso8601(seen'[i].date)
                        /\ (Without(seen', "published") /\ Without(seen', "updated")) =>
                              item'.time = 0
      OBVIOUS
    <2>1. e.tag # "dc:date" /\ Without(seen, "dc:date")
      BY <1>5
    <2>2. CASE e.tag = "published"
      BY <1>4, <1>5, <2>2
    <2>3. CASE e.tag = "updated"
      <3>1. /\ LastIn(seen', "published") = LastIn(seen, "published")
            /\ \A i \in LastIn(seen, "published") : seen'[i] = seen[i]
            /\ Without(seen', "published") <=> Without(seen, "published")
        BY <1>5, <2>3
      <3>2. LastIn(seen', "updated") = {Len(seen) + 1} /\ seen'[Len(seen) + 1] = e
        BY <1>5, <2>3
      <3>3. ~Without(seen', "updated")
        BY <1>5, <2>3
      <3>4. CASE Without(seen, "published")
        <4>1. LastIn(seen, "published") = {}
          BY <3>4 DEF Without, LastIn
        <4>2. item'.time = DateIso8601(e.date)
          BY <1>2, <1>4, <2>3, <3>4
        <4>3. QED
          BY <3>1, <3>2, <3>3, <4>1, <4>2
      <3>5. CASE ~Without(seen, "published")
        <4>1. item'.time = item.time
          BY <1>2, <1>4, <2>3, <3>5
        <4>2. QED
          BY <1>9, <2>1, <3>1, <3>5, <4>1
      <3>6. QED
        BY <3>4, <3>5
    <2>4. CASE e.tag \notin {"published", "updated"}
      BY <1>4, <1>5, <1>9, <2>1, <2>4
    <2>5. QED
      BY <2>2, <2>3, <2>4
  <1>11. EntryDate'
    BY <1>7, <1>10 DEF EntryDate
  <1>12. QED
    BY <1>3, <1>4, <1>8, <1>11 DEF EntryInv, Without

LEMMA EntryKept == EntryInv /\ [DocumentsNext]_documentsVars => EntryInv'
  <1> SUFFICES ASSUME EntryInv, [DocumentsNext]_documentsVars
               PROVE  EntryInv'
    OBVIOUS
  <1>1. CASE UNCHANGED documentsVars
    <2>1. phase' = phase /\ item' = item /\ seen' = seen
      BY <1>1 DEF documentsVars
    <2>2. EntryDate' = EntryDate
      BY <2>1 DEF EntryDate, Seen, LastOf
    <2>3. QED
      BY <2>1, <2>2 DEF EntryInv
  <1>2. ASSUME BeginEntry PROVE EntryInv'
    <2>1. item' = NewItem /\ seen' = <<>>
      BY <1>2 DEF BeginEntry
    <2>2. DOMAIN item' = ItemFields /\ PubDate(item') = None /\ item'.time = 0
      BY <2>1 DEF NewItem, NoMeta, ItemFields, PubDate, MetaGet
    <2>3. seen' \in Seq(EntryElements) /\ DOMAIN seen' = {}
      BY <2>1
    <2>4. EntryDate'
      BY <2>2, <2>3 DEF EntryDate, Seen, LastOf
    <2>5. QED
      BY <2>2, <2>3, <2>4 DEF EntryInv
  <1>3. ASSUME NEW e \in EntryElements, ReadEntryElement(e) PROVE EntryInv'
    BY <1>3, EntryElementKeeps
  <1>4. ASSUME NEW k \in Kinds, Recognise(k) PROVE phase' # "entry"
    BY <1>4 DEF Recognise, FirstHandler, HtmlHandler, LoopOf
  <1>5. ASSUME NEW e, ReadChannelElement(e) \/ ReadChannelPart(e) \/ ReadRssElement(e)
                      \/ ReadFeedElement(e) \/ ReadLine(e) \/ ReadScript(e) \/ ReadArticle(e)
        PROVE  phase' # "entry"
    BY <1>5 DEF ReadChannelElement, ReadChannelPart, ReadRssElement, ReadFeedElement,
                ReadLine, ReadScript, ReadArticle, ChannelPass
  <1>6. ASSUME \/ EndChannel \/ EndRssItem \/ EndEntry
               \/ \E about \in Usable \union {None} : BeginRssItem(about)
        PROVE  phase' # "entry"
    BY <1>6 DEF EndChannel, EndRssItem, EndEntry, BeginRssItem
  <1>7. ASSUME EndDocument PROVE phase' # "entry"
    BY <1>7 DEF EndDocument, HtmlHandler, LoopOf
  <1>8. phase' # "entry" => EntryInv'
    BY DEF EntryInv
  <1>9. QED
    BY <1>1, <1>2, <1>3, <1>4, <1>5, <1>6, <1>7, <1>8 DEF DocumentsNext

(***************************************************************************)
(* The date of an Atom entry does not depend on the order in which its     *)
(* elements come: the publication date wins over the date of the last      *)
(* change (parsers/atom10.c), whatever elements stand between them.        *)
(***************************************************************************)
THEOREM DatesAreOrderFree == DocumentsSpec => []EntryDate
  <1>1. DocumentsInit => EntryInv
    BY DEF DocumentsInit, EntryInv
  <1>2. EntryInv => EntryDate
    BY DEF EntryInv, EntryDate
  <1>3. QED
    BY <1>1, <1>2, EntryKept, PTL DEF DocumentsSpec

-----------------------------------------------------------------------------
(* The date of the feed and the items without one. *)

SubFields == {"meta", "time", "ttl", "period", "frequency", "fhp", "error", "tries"}

\* b differs from a not in its handler; and not in its time either.
SameHandler(a, b) == DOMAIN b = SubFields /\ b.fhp = a.fhp
SameTime(a, b) == SameHandler(a, b) /\ b.time = a.time

LEMMA TimeKeptByMeta ==
    ASSUME NEW s, DOMAIN s = SubFields, NEW k, NEW v
    PROVE  /\ SameTime(s, s) /\ SameTime(s, SubMeta(s, k, v))
           /\ SameTime(s, SubAppend(s, k, v)) /\ SameTime(s, SetHomepage(s, v))
  BY DEF SubFields, SameTime, SameHandler, SubMeta, SubAppend, SetHomepage

LEMMA HandlerKeptByNs ==
    ASSUME NEW s, DOMAIN s = SubFields, NEW e, e.ns \in ChannelSpaces
    PROVE  SameHandler(s, ChannelNs(s, e))
  <1>1. CASE e.ns = "dc"
    BY <1>1, TimeKeptByMeta DEF SameTime, ChannelNs, DcChannel
  <1>2. CASE e.ns = "cc"
    BY <1>2, TimeKeptByMeta DEF SameTime, ChannelNs, LicenseChannel
  <1>3. CASE e.ns = "itunes"
    BY <1>3, TimeKeptByMeta DEF SameTime, ChannelNs, ItunesChannel
  <1>4. CASE e.ns = "syn"
    BY <1>4 DEF SameHandler, ChannelNs, SynChannel, SubFields
  <1>5. CASE e.ns = "admin"
    BY <1>5, TimeKeptByMeta DEF SameTime, ChannelNs, AdminChannel
  <1>6. CASE e.ns = "source"
    BY <1>6, TimeKeptByMeta DEF SameTime, ChannelNs, SourceChannel
  <1>7. QED
    BY <1>1, <1>2, <1>3, <1>4, <1>5, <1>6 DEF ChannelSpaces

\* No element of a channel or of a feed touches the handler.
LEMMA HandlerKept ==
    ASSUME NEW s, DOMAIN s = SubFields, NEW e, e.ns \in ChannelSpaces \union {None}
    PROVE  SameHandler(s, ChannelElement(s, e)) /\ SameHandler(s, FeedElement(s, e))
  <1>1. CASE e.ns # None
    BY <1>1, HandlerKeptByNs DEF ChannelElement, FeedElement
  <1>2. CASE e.ns = None
    <2>1. SameHandler(s, ChannelElement(s, e))
      <3>1. SameHandler(s,
                [SubMeta(s, "contentUpdateDate", e.date) EXCEPT !.time = DateRfc822(e.date)])
        BY DEF SameHandler, SubMeta, SubFields
      <3>2. SameHandler(s, [s EXCEPT !.ttl = e.n])
        BY DEF SameHandler, SubFields
      <3>3. QED
        BY <1>2, <3>1, <3>2, TimeKeptByMeta DEF SameTime, ChannelElement
    <2>2. SameHandler(s, FeedElement(s, e))
      <3>1. SameHandler(s,
                [SubMeta(s, "contentUpdateDate", e.date) EXCEPT !.time = DateIso8601(e.date)])
        BY DEF SameHandler, SubMeta, SubFields
      <3>2. SameHandler(s, FeedLink(s, e))
        BY TimeKeptByMeta DEF SameTime, FeedLink
      <3>3. QED
        BY <1>2, <3>1, <3>2, TimeKeptByMeta DEF SameTime, FeedElement
    <2>3. QED
      BY <2>1, <2>2
  <1>3. QED
    BY <1>1, <1>2

LEMMA BegunHandler ==
    ASSUME NEW s, DOMAIN s = SubFields, NEW h, NEW before, NEW now
    PROVE  LET b == Begun(s, h, before, now)
           IN DOMAIN b = SubFields /\ b.fhp = h
  <1> DEFINE c == [s EXCEPT !.fhp = h, !.meta = MetaCopy(before),
                            !.time = IF h = "atom" THEN @ ELSE now]
  <1>1. DOMAIN c = SubFields /\ c.fhp = h
    BY DEF SubFields
  <1>2. Begun(s, h, before, now) = IF h \in {"gopher", "ldjson", "html5"}
                                   THEN SetHomepage(c, "source") ELSE c
    BY DEF Begun
  <1> HIDE DEF c
  <1>3. QED
    BY <1>1, <1>2, TimeKeptByMeta DEF SameTime, SameHandler

LEMMA ConcludedHandler ==
    ASSUME NEW s, DOMAIN s = SubFields, NEW k, NEW success \in BOOLEAN
    PROVE  SameHandler(s, Concluded(s, k, success))
  BY DEF SameHandler, SubFields, Concluded

LEMMA SearchedHandler ==
    ASSUME NEW s, DOMAIN s = SubFields, NEW k
    PROVE  SameHandler(s, Searched(s, k))
  <1> DEFINE b == IF Discovers(s, k) THEN SubMeta(s, "blogroll", "found") ELSE s
  <1>1. SameHandler(s, b)
    BY TimeKeptByMeta DEF SameTime
  <1>2. Searched(s, k) = [b EXCEPT !.tries = @ + 1]
    BY DEF Searched
  <1> HIDE DEF b
  <1>3. QED
    BY <1>1, <1>2 DEF SameHandler, SubFields

\* The handler of each parser loop.
HandlerOf ==
    [p \in {"channel", "items", "rssitem", "feed", "entry", "lines", "scripts", "articles"} |->
        CASE p \in {"channel", "items", "rssitem"} -> "rss"
          [] p \in {"feed", "entry"} -> "atom"
          [] p = "lines" -> "gopher" [] p = "scripts" -> "ldjson" [] p = "articles" -> "html5"]

\* While the items of an RSS document are read, the date of the feed stays what
\* every undated item was given; before that, no item was.
FeedInv ==
    /\ DOMAIN sub = SubFields
    /\ phase \in DOMAIN HandlerOf => sub.fhp = HandlerOf[phase]
    /\ phase = "channel" => undated = {}
    /\ phase \in {"items", "rssitem"} => undated \subseteq {sub.time}
    /\ sub.fhp = "rss" => \E t : undated \subseteq {t}

LEMMA FeedKept == FeedInv /\ [DocumentsNext]_documentsVars => FeedInv'
  <1> SUFFICES ASSUME FeedInv, [DocumentsNext]_documentsVars
               PROVE  FeedInv'
    OBVIOUS
  <1>1. CASE UNCHANGED documentsVars
    BY <1>1 DEF documentsVars, FeedInv
  <1>2. ASSUME NEW k \in Kinds, Recognise(k) PROVE FeedInv'
    <2> DEFINE searched == Searched(sub, k)
    <2>1. undated' = {}
      BY <1>2 DEF Recognise
    <2>2. DOMAIN searched = SubFields /\ searched.fhp = sub.fhp
      BY SearchedHandler DEF FeedInv, SameHandler
    <2>3. CASE FirstHandler(k) # None /\ phase' = LoopOf(FirstHandler(k))
               /\ sub' = Begun(sub, FirstHandler(k), MetaCopy(sub.meta), updates + 1)
      <3>1. DOMAIN sub' = SubFields /\ sub'.fhp = FirstHandler(k)
        BY <2>3, BegunHandler DEF FeedInv
      <3>2. QED
        BY <2>1, <2>3, <3>1 DEF FeedInv, FirstHandler, LoopOf, HandlerOf
    <2>4. CASE HtmlHandler(k) # None /\ phase' = LoopOf(HtmlHandler(k))
               /\ sub' = Begun(searched, HtmlHandler(k), MetaCopy(sub.meta), updates + 1)
      <3>1. DOMAIN sub' = SubFields /\ sub'.fhp = HtmlHandler(k)
        BY <2>2, <2>4, BegunHandler
      <3>2. QED
        BY <2>1, <2>4, <3>1 DEF FeedInv, HtmlHandler, LoopOf, HandlerOf
    <2>5. CASE phase' = "idle" /\ sub' = Concluded(searched, k, Discovers(sub, k))
      <3>1. DOMAIN sub' = SubFields
        BY <2>2, <2>5, ConcludedHandler DEF SameHandler, Discovers
      <3>2. QED
        BY <2>1, <2>5, <3>1 DEF FeedInv, HandlerOf
    <2>6. QED
      BY <1>2, <2>3, <2>4, <2>5 DEF Recognise
  <1>3. ASSUME NEW e \in ChannelElements, ReadChannelElement(e) PROVE FeedInv'
    <2>1. SameHandler(sub, sub')
      BY <1>3, HandlerKept, ElementsAssumption DEF ReadChannelElement, FeedInv
    <2>2. QED
      BY <1>3, <2>1 DEF ReadChannelElement, ChannelPass, FeedInv, SameHandler
  <1>4. ASSUME NEW e \in ChannelElements, ReadChannelPart(e) PROVE FeedInv'
    <2>1. SameTime(sub, sub')
      BY <1>4, TimeKeptByMeta DEF ReadChannelPart, FeedInv, ImageElement, TextInput
    <2>2. QED
      BY <1>4, <2>1 DEF ReadChannelPart, FeedInv, SameTime, SameHandler
  <1>5. ASSUME EndChannel PROVE FeedInv'
    BY <1>5 DEF EndChannel, FeedInv, HandlerOf
  <1>6. ASSUME NEW about \in Usable \union {None}, BeginRssItem(about) PROVE FeedInv'
    BY <1>6 DEF BeginRssItem, FeedInv, HandlerOf
  <1>7. ASSUME NEW e \in RssElements, ReadRssElement(e) PROVE FeedInv'
    BY <1>7 DEF ReadRssElement, FeedInv, HandlerOf
  <1>8. ASSUME EndRssItem PROVE FeedInv'
    BY <1>8 DEF EndRssItem, DateFilled, FeedInv, HandlerOf
  <1>9. ASSUME NEW e \in FeedElements, ReadFeedElement(e) PROVE FeedInv'
    <2>1. SameHandler(sub, sub')
      BY <1>9, HandlerKept, ElementsAssumption DEF ReadFeedElement, FeedInv
    <2>2. QED
      BY <1>9, <2>1 DEF ReadFeedElement, FeedInv, SameHandler
  <1>10. ASSUME BeginEntry PROVE FeedInv'
    BY <1>10 DEF BeginEntry, FeedInv, HandlerOf
  <1>11. ASSUME NEW e \in EntryElements, ReadEntryElement(e) PROVE FeedInv'
    BY <1>11 DEF ReadEntryElement, FeedInv
  <1>12. ASSUME EndEntry PROVE FeedInv'
    BY <1>12 DEF EndEntry, FeedInv, HandlerOf
  <1>13. ASSUME NEW e, ReadLine(e) \/ ReadArticle(e) PROVE FeedInv'
    BY <1>13 DEF ReadLine, ReadArticle, FeedInv
  <1>14. ASSUME NEW e \in Scripts, ReadScript(e) PROVE FeedInv'
    <2>1. SameHandler(sub, sub')
      <3>1. SameHandler(sub, Website(sub, e))
        <4> DEFINE h == SetHomepage(sub, e.url)
        <4>1. SameHandler(sub, h)
          BY TimeKeptByMeta DEF FeedInv, SameTime
        <4> HIDE DEF h
        <4>2. SameHandler(h, SubMeta(h, "imageUrl", e.v))
          BY <4>1, TimeKeptByMeta DEF SameTime, SameHandler
        <4>3. QED
          BY <4>1, <4>2 DEF Website, h, SameHandler
      <3>2. QED
        BY <1>14, <3>1, TimeKeptByMeta DEF ReadScript, SameHandler, FeedInv
    <2>2. QED
      BY <1>14, <2>1 DEF ReadScript, FeedInv, SameHandler
  <1>15. ASSUME EndDocument PROVE FeedInv'
    <2> DEFINE page == HtmlHandler(kind)
    <2>1. CASE page # None /\ sub' = Begun(sub, page, orig, updates) /\ phase' = LoopOf(page)
      <3>1. DOMAIN sub' = SubFields /\ sub'.fhp = page
        BY <2>1, BegunHandler DEF FeedInv
      <3>2. QED
        BY <2>1, <3>1 DEF FeedInv, HtmlHandler, LoopOf, HandlerOf
    <2>2. CASE sub' = Concluded(sub, kind, TRUE) /\ phase' = "idle"
      <3>1. SameHandler(sub, sub')
        BY <2>2, ConcludedHandler DEF FeedInv
      <3>2. QED
        BY <1>15, <2>2, <3>1 DEF EndDocument, FeedInv, HandlerOf, SameHandler
    <2>3. QED
      BY <1>15, <2>1, <2>2 DEF EndDocument
  <1>16. QED
    BY <1>1, <1>2, <1>3, <1>4, <1>5, <1>6, <1>7, <1>8, <1>9, <1>10, <1>11, <1>12, <1>13,
       <1>14, <1>15 DEF DocumentsNext

(***************************************************************************)
(* The items of an RSS document that carry no date get one and the same,   *)
(* wherever the channel names its date: all its own elements are read      *)
(* before the first item is finished (rss_parse, parsers/rss_channel.c).   *)
(***************************************************************************)
THEOREM OneDateForUndated == DocumentsSpec => []UndatedItemsAgree
  <1>1. DocumentsInit => FeedInv
    BY DEF DocumentsInit, NewSubscription, FeedInv, HandlerOf, SubFields
  <1>2. FeedInv => UndatedItemsAgree
    <2> SUFFICES ASSUME FeedInv, sub.fhp = "rss"
                 PROVE  Cardinality(undated) <= 1
      BY DEF UndatedItemsAgree
    <2>1. PICK t : undated \subseteq {t}
      BY DEF FeedInv
    <2>2. undated = {} \/ undated = {t}
      BY <2>1
    <2>3. CASE undated = {}
      BY <2>3, FS_EmptySet
    <2>4. CASE undated = {t}
      <3>1. Cardinality({t}) = 1
        BY FS_Singleton
      <3>2. QED
        BY <2>4, <3>1
    <2>5. QED
      BY <2>2, <2>3, <2>4
  <1>3. QED
    BY <1>1, <1>2, FeedKept, PTL DEF DocumentsSpec

-----------------------------------------------------------------------------
(***************************************************************************)
(* Accounts.                                                               *)
(***************************************************************************)
FeedFields == {"owner", "place", "url", "id", "fetching"}
AccountFields == {"login", "token", "dialog", "poll", "logins"}

IsFeed(f) == DOMAIN f = FeedFields /\ f = [x \in FeedFields |-> f[x]]
IsAccount(k) == DOMAIN k = AccountFields /\ k = [x \in AccountFields |-> k[x]]
IsTree(t) == t = [feeds |-> t.feeds, folders |-> t.folders] /\ \A f \in t.feeds : IsFeed(f)

Row(f) == [owner |-> f.owner, url |-> f.url]

\* Every id that is known has its row.
IdsHaveRows(t, rows) ==
    type \in {"reedah", "ttrss"} => \A f \in t.feeds : f.id => Row(f) \in rows

\* A converted account waits for nothing, and nothing is on its way for it.
Quiet(a) ==
    acct[a].login = "MIGRATE" =>
        acct[a] = Released(acct[a]) /\ \A e \in edits : e.acc # a

AccountsInv ==
    /\ type \in {"google", "reedah", "ttrss", "opml"}
    /\ IsTree(tree)
    /\ \A a \in Accounts : \A f \in saved[a].feeds : IsFeed(f)
    /\ DOMAIN acct = Accounts /\ DOMAIN saved = Accounts
    /\ \A a \in Accounts : IsAccount(acct[a]) /\ Quiet(a)
    /\ IdsHaveRows(tree, stored)

-----------------------------------------------------------------------------
(* What a poll does to the tree.                                           *)

\* The feeds of other accounts stay as they are.
Spares(t, u, a) == \A f \in t.feeds : f.owner # a => f \in u.feeds

LEMMA FeedChange ==
    ASSUME NEW f, IsFeed(f), NEW x \in FeedFields, NEW v
    PROVE  /\ IsFeed([f EXCEPT ![x] = v])
           /\ [f EXCEPT ![x] = v][x] = v
           /\ \A y \in FeedFields \ {x} : [f EXCEPT ![x] = v][y] = f[y]
BY DEF IsFeed

LEMMA NewFeedIsFeed ==
    ASSUME NEW t, NEW a, NEW u, NEW p
    PROVE  IsFeed(NewFeed(t, a, u, p))
BY DEF NewFeed, IsFeed, FeedFields

LEMMA MovedFeedIsFeed ==
    ASSUME NEW f, IsFeed(f), NEW p, NEW o
    PROVE  IsFeed([f EXCEPT !.place = p, !.owner = o])
BY DEF IsFeed, FeedFields

LEMMA GoogleMergedFeedIsFeed ==
    ASSUME NEW t, IsTree(t), NEW a, NEW u, NEW p
    PROVE  \A f \in GoogleMergedFeed(t, a, u, p) : IsFeed(f)
<1>1. \A f \in Found(t, a, u) : IsFeed(f)
  BY DEF Found, FeedsOf, IsTree
<1>2. CASE Found(t, a, u) = {}
  BY <1>2, NewFeedIsFeed DEF GoogleMergedFeed
<1>3. CASE Found(t, a, u) # {} /\ ~LoggedIn(acct[a])
  BY <1>1, <1>3 DEF GoogleMergedFeed
<1>4. CASE Found(t, a, u) # {} /\ LoggedIn(acct[a])
  <2>. DEFINE first == CHOOSE f \in Found(t, a, u) : TRUE
  <2>1. first \in Found(t, a, u)
    BY <1>4
  <2>2. IsFeed([first EXCEPT !.place = p, !.owner = OwnerAt(t, a, p)])
    BY <1>1, <2>1, MovedFeedIsFeed
  <2>3. GoogleMergedFeed(t, a, u, p) =
            (Found(t, a, u) \ {first})
                \union {[first EXCEPT !.place = p, !.owner = OwnerAt(t, a, p)]}
    BY <1>4 DEF GoogleMergedFeed
  <2>. QED  BY <1>1, <2>2, <2>3
<1>. QED  BY <1>2, <1>3, <1>4

LEMMA OtherMergedFeedIsFeed ==
    ASSUME NEW t, IsTree(t), NEW a, NEW u, NEW p
    PROVE  /\ \A f \in ReedahMergedFeed(t, a, u, p) : IsFeed(f)
           /\ \A f \in TtrssMergedFeed(t, a, u, p) : IsFeed(f)
           /\ \A f \in OpmlMergedFeed(t, a, u, p) : IsFeed(f)
<1>1. \A f \in Found(t, a, u) : IsFeed(f)
  BY DEF Found, FeedsOf, IsTree
<1>. QED
  BY <1>1, NewFeedIsFeed, GoogleMergedFeedIsFeed
     DEF ReedahMergedFeed, TtrssMergedFeed, OpmlMergedFeed

LEMMA WithFoldersKeeps ==
    ASSUME NEW t, IsTree(t), NEW a, NEW list
    PROVE  IsTree(WithFolders(t, a, list)) /\ WithFolders(t, a, list).feeds = t.feeds
<1>1. ASSUME NEW new
      PROVE  [t EXCEPT !.folders = @ \union new] =
                [feeds |-> t.feeds, folders |-> t.folders \union new]
  BY DEF IsTree
<1>2. PICK new : WithFolders(t, a, list) = [t EXCEPT !.folders = @ \union new]
  BY DEF WithFolders
<1>. QED  BY <1>1, <1>2 DEF IsTree

\* Each way to merge feeds takes the feeds of the account and no others.
LEMMA WithFeedsKeeps ==
    ASSUME NEW t, IsTree(t), NEW a, NEW list
    PROVE  /\ IsTree(WithFeeds(t, a, list, GoogleMergedFeed))
           /\ IsTree(WithFeeds(t, a, list, ReedahMergedFeed))
           /\ IsTree(WithFeeds(t, a, list, TtrssMergedFeed))
           /\ IsTree(WithFeeds(t, a, list, OpmlMergedFeed))
           /\ Spares(t, WithFeeds(t, a, list, GoogleMergedFeed), a)
           /\ Spares(t, WithFeeds(t, a, list, ReedahMergedFeed), a)
           /\ Spares(t, WithFeeds(t, a, list, TtrssMergedFeed), a)
           /\ Spares(t, WithFeeds(t, a, list, OpmlMergedFeed), a)
<1>. DEFINE kept == (t.feeds \ FeedsOf(t, a)) \union Unlisted(t, a, list)
            listed == {v \in Urls : list[v] # Absent}
            With(fs) == [t EXCEPT !.feeds = (@ \ FeedsOf(t, a)) \union Unlisted(t, a, list) \union fs]
<1>1. \A f \in kept : IsFeed(f)
  BY DEF Unlisted, FeedsOf, IsTree
<1>2. \A f \in t.feeds : f.owner # a => f \in kept
  BY DEF FeedsOf
<1>3. ASSUME NEW fs, \A f \in fs : IsFeed(f)
      PROVE  IsTree(With(fs)) /\ Spares(t, With(fs), a)
  <2>1. With(fs) = [feeds |-> kept \union fs, folders |-> t.folders]
    BY DEF IsTree
  <2>. HIDE DEF With, kept
  <2>. QED  BY <1>1, <1>2, <1>3, <2>1 DEF IsTree, Spares
<1>4. IsTree(With(UNION {GoogleMergedFeed(t, a, u, list[u]) : u \in listed}))
      /\ Spares(t, With(UNION {GoogleMergedFeed(t, a, u, list[u]) : u \in listed}), a)
  <2>. HIDE DEF With
  <2>. QED  BY <1>3, GoogleMergedFeedIsFeed
<1>5. IsTree(With(UNION {ReedahMergedFeed(t, a, u, list[u]) : u \in listed}))
      /\ Spares(t, With(UNION {ReedahMergedFeed(t, a, u, list[u]) : u \in listed}), a)
  <2>. HIDE DEF With
  <2>. QED  BY <1>3, OtherMergedFeedIsFeed
<1>6. IsTree(With(UNION {TtrssMergedFeed(t, a, u, list[u]) : u \in listed}))
      /\ Spares(t, With(UNION {TtrssMergedFeed(t, a, u, list[u]) : u \in listed}), a)
  <2>. HIDE DEF With
  <2>. QED  BY <1>3, OtherMergedFeedIsFeed
<1>7. IsTree(With(UNION {OpmlMergedFeed(t, a, u, list[u]) : u \in listed}))
      /\ Spares(t, With(UNION {OpmlMergedFeed(t, a, u, list[u]) : u \in listed}), a)
  <2>. HIDE DEF With
  <2>. QED  BY <1>3, OtherMergedFeedIsFeed
<1>. QED  BY <1>4, <1>5, <1>6, <1>7 DEF WithFeeds

\* Only feeds of the account are removed.
LEMMA CleanedUpKeeps ==
    ASSUME NEW t, IsTree(t), NEW a, NEW list
    PROVE  /\ IsTree(GoogleCleanedUp(t, a, list)) /\ Spares(t, GoogleCleanedUp(t, a, list), a)
           /\ IsTree(ReedahCleanedUp(t, a, list)) /\ Spares(t, ReedahCleanedUp(t, a, list), a)
           /\ IsTree(TtrssCleanedUp(t, a, list)) /\ Spares(t, TtrssCleanedUp(t, a, list), a)
           /\ IsTree(OpmlCleanedUp(t, a, list)) /\ Spares(t, OpmlCleanedUp(t, a, list), a)
<1>1. IsTree(GoogleCleanedUp(t, a, list)) /\ Spares(t, GoogleCleanedUp(t, a, list), a)
  BY DEF GoogleCleanedUp, Unlisted, FeedsOf, IsTree, Spares
<1>2. IsTree(ReedahCleanedUp(t, a, list)) /\ Spares(t, ReedahCleanedUp(t, a, list), a)
  BY DEF ReedahCleanedUp, Unlisted, FeedsOf, IsTree, Spares
<1>3. IsTree(TtrssCleanedUp(t, a, list)) /\ Spares(t, TtrssCleanedUp(t, a, list), a)
  BY DEF TtrssCleanedUp, Unlisted, FeedsOf, IsTree, Spares
<1>4. IsTree(OpmlCleanedUp(t, a, list)) /\ Spares(t, OpmlCleanedUp(t, a, list), a)
  BY DEF OpmlCleanedUp, Unlisted, FeedsOf, IsTree, Spares
<1>. QED  BY <1>1, <1>2, <1>3, <1>4

LEMMA SparesAll ==
    ASSUME NEW t, NEW u, NEW v, NEW a, Spares(t, u, a), Spares(u, v, a)
    PROVE  Spares(t, v, a)
BY DEF Spares

LEMMA SameFeedsSpares ==
    ASSUME NEW t, NEW u, NEW a, u.feeds = t.feeds
    PROVE  Spares(t, u, a)
BY DEF Spares

\* Merging a list keeps the shape of the tree and the feeds of other accounts.
LEMMA MergedKeeps ==
    ASSUME type \in {"google", "reedah", "ttrss", "opml"},
           NEW t, IsTree(t), NEW a, NEW list
    PROVE  IsTree(Merged(t, a, list)) /\ Spares(t, Merged(t, a, list), a)
<1>. DEFINE w == WithFolders(t, a, list)
<1>1. IsTree(w) /\ Spares(t, w, a)
  BY WithFoldersKeeps, SameFeedsSpares
<1>2. CASE type = "google"
  <2>. DEFINE g == WithFeeds(w, a, list, GoogleMergedFeed)
  <2>1. Merged(t, a, list) = GoogleCleanedUp(g, a, list)
    BY <1>2 DEF Merged, GoogleMerged
  <2>. HIDE DEF w
  <2>2. IsTree(g) /\ Spares(w, g, a)
    BY <1>1, WithFeedsKeeps
  <2>. HIDE DEF g
  <2>3. IsTree(GoogleCleanedUp(g, a, list)) /\ Spares(g, GoogleCleanedUp(g, a, list), a)
    BY <2>2, CleanedUpKeeps
  <2>. QED  BY <1>1, <2>1, <2>2, <2>3, SparesAll
<1>3. CASE type = "reedah"
  <2>. DEFINE g == WithFeeds(w, a, list, ReedahMergedFeed)
  <2>1. Merged(t, a, list) = ReedahCleanedUp(g, a, list)
    BY <1>3 DEF Merged, ReedahMerged
  <2>. HIDE DEF w
  <2>2. IsTree(g) /\ Spares(w, g, a)
    BY <1>1, WithFeedsKeeps
  <2>. HIDE DEF g
  <2>3. IsTree(ReedahCleanedUp(g, a, list)) /\ Spares(g, ReedahCleanedUp(g, a, list), a)
    BY <2>2, CleanedUpKeeps
  <2>. QED  BY <1>1, <2>1, <2>2, <2>3, SparesAll
<1>4. CASE type = "ttrss"
  <2>. DEFINE g == WithFeeds(w, a, list, TtrssMergedFeed)
  <2>1. Merged(t, a, list) = TtrssCleanedUp(g, a, list)
    BY <1>4 DEF Merged, TtrssMerged
  <2>. HIDE DEF w
  <2>2. IsTree(g) /\ Spares(w, g, a)
    BY <1>1, WithFeedsKeeps
  <2>. HIDE DEF g
  <2>3. IsTree(TtrssCleanedUp(g, a, list)) /\ Spares(g, TtrssCleanedUp(g, a, list), a)
    BY <2>2, CleanedUpKeeps
  <2>. QED  BY <1>1, <2>1, <2>2, <2>3, SparesAll
<1>5. CASE type = "opml"
  <2>. DEFINE c == OpmlCleanedUp(t, a, list)
              g == WithFolders(c, a, list)
  <2>1. Merged(t, a, list) = WithFeeds(g, a, list, OpmlMergedFeed)
    BY <1>5 DEF Merged, OpmlMerged
  <2>2. IsTree(c) /\ Spares(t, c, a)
    BY CleanedUpKeeps
  <2>. HIDE DEF c
  <2>3. IsTree(g) /\ Spares(c, g, a)
    BY <2>2, WithFoldersKeeps, SameFeedsSpares
  <2>. HIDE DEF g
  <2>4. IsTree(WithFeeds(g, a, list, OpmlMergedFeed))
        /\ Spares(g, WithFeeds(g, a, list, OpmlMergedFeed), a)
    BY <2>3, WithFeedsKeeps
  <2>. QED  BY <2>1, <2>2, <2>3, <2>4, SparesAll
<1>. QED  BY <1>2, <1>3, <1>4, <1>5

-----------------------------------------------------------------------------
(* What requests do to the feeds.                                          *)

\* f is g, fetched or not.
SameFeed(f, g) ==
    f.owner = g.owner /\ f.place = g.place /\ f.url = g.url /\ f.id = g.id

LEMMA FetchedKeeps ==
    ASSUME NEW feeds, \A f \in feeds : IsFeed(f)
    PROVE  \A g \in Fetched(feeds) : IsFeed(g) /\ \E f \in feeds : SameFeed(f, g)
<1>. SUFFICES ASSUME NEW f \in feeds
              PROVE  LET g == [f EXCEPT !.fetching = TRUE] IN IsFeed(g) /\ SameFeed(f, g)
  BY DEF Fetched
<1>. QED  BY DEF IsFeed, FeedFields, SameFeed

\* Updating the feeds of an account fetches some and drops some.
LEMMA FeedsUpdatedKeeps ==
    ASSUME type \in {"google", "reedah", "ttrss", "opml"},
           NEW t, IsTree(t), NEW a, NEW k
    PROVE  /\ IsTree(FeedsUpdated(t, a, k)) /\ Spares(t, FeedsUpdated(t, a, k), a)
           /\ \A g \in FeedsUpdated(t, a, k).feeds : \E f \in t.feeds : SameFeed(f, g)
<1>. DEFINE feeds == FeedsOf(t, a)
            new == CASE type = "google" -> GooglePrepared(feeds, k)
                     [] type = "reedah" -> IF LoggedIn(k) THEN ReedahPrepared(feeds) ELSE feeds
                     [] type = "ttrss" -> IF LoggedIn(k) THEN TtrssPrepared(feeds) ELSE feeds
                     [] type = "opml" -> Fetched(feeds)
<1>1. \A f \in feeds : IsFeed(f) /\ f \in t.feeds
  BY DEF FeedsOf, IsTree
<1>2. FeedsUpdated(t, a, k) = [feeds |-> (t.feeds \ feeds) \union new, folders |-> t.folders]
  BY DEF FeedsUpdated, IsTree
<1>3. \A f, g : f = g => SameFeed(f, g)
  BY DEF SameFeed
<1>4. \A g \in new : IsFeed(g) /\ \E f \in t.feeds : SameFeed(f, g)
  <2>. HIDE DEF feeds
  <2>1. \A g \in feeds \union Fetched(feeds) \union Fetched({f \in feeds : f.id}) :
            IsFeed(g) /\ \E f \in t.feeds : SameFeed(f, g)
    <3>1. \A g \in Fetched(feeds) : IsFeed(g) /\ \E f \in feeds : SameFeed(f, g)
      BY <1>1, FetchedKeeps
    <3>2. \A g \in Fetched({f \in feeds : f.id}) :
                IsFeed(g) /\ \E f \in {f \in feeds : f.id} : SameFeed(f, g)
      BY <1>1, FetchedKeeps
    <3>. QED  BY <1>1, <1>3, <3>1, <3>2
  <2>2. new \subseteq feeds \union Fetched(feeds) \union Fetched({f \in feeds : f.id})
    BY DEF GooglePrepared, ReedahPrepared, TtrssPrepared
  <2>. QED  BY <2>1, <2>2
<1>. HIDE DEF new
<1>5. \A f \in t.feeds \ feeds : IsFeed(f) /\ SameFeed(f, f)
  BY <1>3 DEF IsTree
<1>6. \A f \in t.feeds : f.owner # a => f \in t.feeds \ feeds
  BY DEF FeedsOf
<1>. HIDE DEF feeds
<1>. QED  BY <1>2, <1>4, <1>5, <1>6 DEF IsTree, Spares


-----------------------------------------------------------------------------
(* What requests do to an account.                                         *)

LEMMA RequestKeeps ==
    ASSUME NEW k, IsAccount(k)
    PROVE  /\ \A high : IsAccount(WithLogin(k, high)) /\ WithLogin(k, high).login = k.login
           /\ \A p : IsAccount([k EXCEPT !.poll = p]) /\ [k EXCEPT !.poll = p].login = k.login
           /\ \A d : IsAccount([k EXCEPT !.dialog = d]) /\ [k EXCEPT !.dialog = d].login = k.login
           /\ \A l : IsAccount([k EXCEPT !.login = l]) /\ [k EXCEPT !.login = l].login = l
BY DEF IsAccount, AccountFields, WithLogin

LEMMA RootUpdatedKeeps ==
    ASSUME NEW k, IsAccount(k), NEW only
    PROVE  IsAccount(RootUpdated(k, only)) /\ RootUpdated(k, only).login = k.login
<1>1. IsAccount(Asked(k, only)) /\ Asked(k, only).login = k.login
  BY RequestKeeps DEF Asked
<1>2. IsAccount(TtrssAsked(k, only)) /\ TtrssAsked(k, only).login = k.login
  BY <1>1, RequestKeeps DEF TtrssAsked
<1>. QED  BY <1>1, <1>2 DEF RootUpdated

LEMMA LoginEndKeeps ==
    ASSUME NEW a, IsAccount(acct[a]), NEW high, NEW challenge
    PROVE  /\ IsAccount(WithToken(LoginAnswered(a, high)))
           /\ WithToken(LoginAnswered(a, high)).login = "ACTIVE"
           /\ IsAccount(AuthFailed(LoginAnswered(a, high), challenge))
           /\ AuthFailed(LoginAnswered(a, high), challenge).login \in {"AUTH_CHALLENGE", "AUTH_FAILED"}
<1>1. IsAccount(LoginAnswered(a, high))
  BY DEF IsAccount, AccountFields, LoginAnswered
<1>. QED  BY <1>1 DEF IsAccount, AccountFields, WithToken, AuthFailed

LEMMA ReleasedIsAccount ==
    ASSUME NEW k
    PROVE  /\ IsAccount(NewAccount) /\ NewAccount.login = "NONE"
           /\ IsAccount(Released(k)) /\ Released(k).login = "MIGRATE"
           /\ Released(k).poll.state = "none" /\ ~Released(k).dialog
           /\ \A high \in BOOLEAN : Released(k).logins[high] = 0
<1>1. IsAccount(NewAccount) /\ NewAccount.login = "NONE"
      /\ NewAccount.poll = NoPoll /\ ~NewAccount.dialog
      /\ NewAccount.logins = [high \in BOOLEAN |-> 0]
  BY DEF IsAccount, AccountFields, NewAccount
<1>2. /\ Released(k).login = "MIGRATE" /\ IsAccount(Released(k))
      /\ Released(k).poll = NewAccount.poll /\ Released(k).dialog = NewAccount.dialog
      /\ Released(k).logins = NewAccount.logins
  BY <1>1 DEF Released, IsAccount, AccountFields
<1>. QED  BY <1>1, <1>2 DEF NoPoll

-----------------------------------------------------------------------------
(* The accounts, step by step.                                             *)

\* What a step does with the accounts ...
AccountsKept ==
    /\ DOMAIN acct' = Accounts
    /\ \A a \in Accounts :
        /\ IsAccount(acct'[a]) /\ Quiet(a)'
        /\ acct[a].login = "MIGRATE" => acct'[a].login = "MIGRATE"

\* ... with the feeds of those that were converted, and of all others.
LocalFeedsKept ==
    \A f \in tree.feeds :
        f.owner \in Accounts /\ acct[f.owner].login = "MIGRATE" =>
            \E g \in tree'.feeds : SameFeed(f, g)

\* Nothing is sent for a converted account.
NoNewEdits ==
    \A e \in edits' : e \in edits \/ (e.acc \in Accounts => acct[e.acc].login # "MIGRATE")

LEMMA AccountsSame ==
    ASSUME AccountsInv, UNCHANGED acct, NoNewEdits
    PROVE  AccountsKept
<1>1. ASSUME NEW a \in Accounts, acct[a].login = "MIGRATE", NEW e \in edits'
      PROVE  e.acc # a
  BY <1>1 DEF NoNewEdits, AccountsInv, Quiet
<1>. QED  BY <1>1 DEF AccountsKept, AccountsInv, Quiet, Released

LEMMA AccountChanges ==
    ASSUME AccountsInv, NEW a, a \in Accounts => acct[a].login # "MIGRATE",
           NEW k, a \in Accounts => IsAccount(k) /\ k.login # "MIGRATE", Changed(a, k), NoNewEdits
    PROVE  AccountsKept
<1>1. DOMAIN acct' = Accounts /\ \A b \in Accounts : acct'[b] = IF b = a THEN k ELSE acct[b]
  BY DEF Changed, AccountsInv
<1>2. ASSUME NEW b \in Accounts, acct[b].login = "MIGRATE", NEW e \in edits'
      PROVE  e.acc # b
  BY <1>2 DEF NoNewEdits, AccountsInv, Quiet
<1>3. ASSUME NEW b \in Accounts
      PROVE  /\ IsAccount(acct'[b]) /\ Quiet(b)'
             /\ acct[b].login = "MIGRATE" => acct'[b].login = "MIGRATE"
  <2>1. CASE b = a
    BY <1>1, <1>3, <2>1 DEF Quiet
  <2>2. CASE b # a
    BY <1>1, <1>2, <1>3, <2>2 DEF Quiet, AccountsInv, Released
  <2>. QED  BY <2>1, <2>2
<1>. QED  BY <1>1, <1>3 DEF AccountsKept

LEMMA EditsSame ==
    ASSUME edits' \subseteq edits
    PROVE  NoNewEdits
BY DEF NoNewEdits

\* A converted account gets no answer.
LEMMA ConvertedWaitsForNothing ==
    ASSUME AccountsInv, NEW a \in Accounts,
           \/ acct[a].poll.state # "none"
           \/ acct[a].dialog
           \/ \E high \in BOOLEAN : acct[a].logins[high] > 0
           \/ \E e \in edits : e.acc = a
    PROVE  acct[a].login # "MIGRATE"
<1>. SUFFICES ASSUME acct[a].login = "MIGRATE" PROVE FALSE
  OBVIOUS
<1>1. acct[a] = Released(acct[a]) /\ \A e \in edits : e.acc # a
  BY DEF AccountsInv, Quiet
<1>. QED  BY <1>1, ReleasedIsAccount


LEMMA NextAccounts ==
    ASSUME AccountsInv, [Next]_vars
    PROVE  AccountsKept
<1>. USE EditsSame
<1>1. CASE UNCHANGED vars
  BY <1>1, AccountsSame DEF vars
<1>2. ASSUME NEW a \in Accounts, AutoUpdate(a) PROVE AccountsKept
  <2>1. acct[a].login # "MIGRATE" /\ IsAccount(acct[a]) /\ edits' = edits
    BY <1>2 DEF AutoUpdate, Alone, AccountsInv
  <2>2. CASE acct[a].login = "NONE" /\ CanLogin
    <3>. DEFINE k == [acct[a] EXCEPT !.login = "IN_PROGRESS"]
    <3>1. PICK high \in BOOLEAN : Changed(a, WithLogin(k, high))
      BY <1>2, <2>2 DEF AutoUpdate
    <3>2. IsAccount(k) /\ k.login = "IN_PROGRESS"
      BY <2>1, RequestKeeps
    <3>. HIDE DEF k
    <3>3. IsAccount(WithLogin(k, high)) /\ WithLogin(k, high).login = "IN_PROGRESS"
      BY <3>2, RequestKeeps
    <3>. QED  BY <2>1, <3>1, <3>3, AccountChanges
  <2>3. CASE ~(acct[a].login = "NONE" /\ CanLogin)
    <3>. DEFINE k == IF acct[a].login = "NONE" THEN [acct[a] EXCEPT !.login = "ACTIVE"] ELSE acct[a]
    <3>1. Changed(a, RootUpdated(k, FALSE))
      BY <1>2, <2>3 DEF AutoUpdate
    <3>2. IsAccount(k) /\ k.login # "MIGRATE"
      BY <2>1, RequestKeeps
    <3>. HIDE DEF k
    <3>3. IsAccount(RootUpdated(k, FALSE)) /\ RootUpdated(k, FALSE).login # "MIGRATE"
      BY <3>2, RootUpdatedKeeps
    <3>. QED  BY <2>1, <3>1, <3>3, AccountChanges
  <2>. QED  BY <2>2, <2>3
<1>3. ASSUME NEW a \in Accounts, Update(a) PROVE AccountsKept
  <2>1. acct[a].login # "MIGRATE" /\ IsAccount(acct[a]) /\ edits' = edits
        /\ Changed(a, RootUpdated(acct[a], FALSE))
    BY <1>3 DEF Update, Alone, AccountsInv
  <2>. QED  BY <2>1, RootUpdatedKeeps, AccountChanges
<1>4. ASSUME NEW a \in Accounts, NEW high \in BOOLEAN,
             ReedahLogin(a, high) \/ TtrssLogin(a, high)
      PROVE  AccountsKept
  <2>1. LoggedInNow(a, high) \/ LoginRefused(a, high)
    BY <1>4 DEF ReedahLogin, TtrssLogin
  <2>2. acct[a].login # "MIGRATE" /\ IsAccount(acct[a])
    <3>1. acct[a].logins[high] > 0
      BY <2>1 DEF LoggedInNow, LoginRefused
    <3>. QED  BY <3>1, ConvertedWaitsForNothing DEF AccountsInv
  <2>3. edits' = edits
    BY <2>1 DEF LoggedInNow, LoginRefused, Crash
  <2>. DEFINE k == WithToken(LoginAnswered(a, high))
  <2>4. IsAccount(k) /\ k.login = "ACTIVE"
    BY <2>2, LoginEndKeeps
  <2>5. \/ UNCHANGED acct \/ Changed(a, RootUpdated(k, FALSE))
        \/ Changed(a, AuthFailed(LoginAnswered(a, high), high))
    BY <2>1 DEF LoggedInNow, LoginRefused, Crash
  <2>. HIDE DEF k
  <2>6. IsAccount(RootUpdated(k, FALSE)) /\ RootUpdated(k, FALSE).login # "MIGRATE"
    BY <2>4, RootUpdatedKeeps
  <2>. QED  BY <2>2, <2>3, <2>5, <2>6, LoginEndKeeps, AccountsSame, AccountChanges
<1>5. ASSUME NEW a \in Accounts, NEW ok \in BOOLEAN, AnswerDialog(a, ok) PROVE AccountsKept
  <2>. DEFINE k == [acct[a] EXCEPT !.dialog = FALSE]
  <2>1. acct[a].login # "MIGRATE" /\ IsAccount(acct[a]) /\ edits' = edits
        /\ (Changed(a, RootUpdated(k, FALSE)) \/ Changed(a, k))
    BY <1>5 DEF AnswerDialog, Alone, AccountsInv
  <2>2. IsAccount(k) /\ k.login # "MIGRATE"
    BY <2>1, RequestKeeps
  <2>. HIDE DEF k
  <2>. QED  BY <2>1, <2>2, RootUpdatedKeeps, AccountChanges
<1>6. ASSUME NEW a \in Accounts, acct[a].poll.state # "none", NEW k,
             IsAccount(k), k.login = acct[a].login, Changed(a, k), edits' = edits
      PROVE  AccountsKept
  BY <1>6, ConvertedWaitsForNothing, AccountChanges
<1>7. ASSUME NEW a \in Accounts, ListSent(a) \/ CategoriesMerged(a) \/ ListFails(a)
      PROVE  AccountsKept
  <2>1. acct[a].poll.state # "none" /\ edits' = edits
        /\ \E p : Changed(a, [acct[a] EXCEPT !.poll = p])
    BY <1>7 DEF ListSent, CategoriesMerged, ListFails, FeedsAsked
  <2>2. PICK p : Changed(a, [acct[a] EXCEPT !.poll = p])
    BY <2>1
  <2>3. IsAccount(acct[a])
    BY DEF AccountsInv
  <2>. QED  BY <1>6, <2>1, <2>2, <2>3, RequestKeeps
<1>8. ASSUME NEW a \in Accounts, ListDenied(a) PROVE AccountsKept
  <2>. DEFINE k == [acct[a] EXCEPT !.poll = NoPoll, !.dialog = @ \/ type # "ttrss"]
  <2>1. acct[a].poll.state # "none" /\ edits' = edits /\ Changed(a, k)
    BY <1>8 DEF ListDenied
  <2>2. IsAccount(k) /\ k.login = acct[a].login
    BY DEF AccountsInv, IsAccount, AccountFields
  <2>. HIDE DEF k
  <2>. QED  BY <1>6, <2>1, <2>2
<1>9. ASSUME NEW a \in Accounts, ListMerged(a) PROVE AccountsKept
  <2>. DEFINE k == PollDone(acct[a])
  <2>1. acct[a].poll.state # "none" /\ edits' = edits
        /\ (Changed(a, k) \/ Changed(a, RootUpdated(k, FALSE)))
    BY <1>9 DEF ListMerged, PollAgain
  <2>2. IsAccount(k) /\ k.login = acct[a].login
    BY RequestKeeps DEF AccountsInv, PollDone
  <2>. HIDE DEF k
  <2>. QED  BY <1>6, <2>1, <2>2, RootUpdatedKeeps
<1>10. ASSUME NEW a \in Accounts, FolderUsedAfterFree(a) PROVE AccountsKept
  BY <1>10, AccountsSame DEF FolderUsedAfterFree, Crash
<1>11. ASSUME NEW a \in Accounts, NEW u \in Urls, AddFeed(a, u) PROVE AccountsKept
  <2>1. NoNewEdits /\ UNCHANGED acct
    BY <1>11 DEF AddFeed, Alone, Subscribe, NoNewEdits
  <2>. QED  BY <2>1, AccountsSame
<1>12. ASSUME NEW a \in Accounts, NEW u \in Urls, NEW place \in Names \union {Top, Absent},
              ServerChanges(a, u, place)
       PROVE  AccountsKept
  BY <1>12, AccountsSame DEF ServerChanges
<1>13. ASSUME NEW a \in Accounts, ConvertToLocal(a) PROVE AccountsKept
  <2>1. /\ DOMAIN acct' = Accounts
        /\ \A b \in Accounts : acct'[b] = IF b = a THEN Released(acct[a]) ELSE acct[b]
        /\ edits' = {e \in edits : e.acc # a}
    BY <1>13 DEF ConvertToLocal, Changed, AccountsInv
  <2>2. Released(acct[a]) = Released(acct'[a])
    BY DEF Released
  <2>3. ASSUME NEW b \in Accounts
        PROVE  /\ IsAccount(acct'[b]) /\ Quiet(b)'
               /\ acct[b].login = "MIGRATE" => acct'[b].login = "MIGRATE"
    <3>1. CASE b = a
      BY <2>1, <2>2, <3>1, ReleasedIsAccount DEF Quiet
    <3>2. CASE b # a
      BY <2>1, <2>3, <3>2 DEF Quiet, AccountsInv, Released
    <3>. QED  BY <3>1, <3>2
  <2>. QED  BY <2>1, <2>3 DEF AccountsKept
<1>14. ASSUME NEW f \in tree.feeds, GoogleIds(f) \/ ReedahItems(f) \/ TtrssItems(f) \/ OpmlItems(f)
       PROVE  AccountsKept
  BY <1>14, AccountsSame DEF GoogleIds, ReedahItems, TtrssItems, OpmlItems, Answered, Crash
<1>15. ASSUME NEW f \in tree.feeds, RemoveFeed(f) PROVE AccountsKept
  <2>1. NoNewEdits /\ UNCHANGED acct
    BY <1>15 DEF RemoveFeed, Alone, GoogleRemoves, ReedahRemoves, TtrssRemoves, Unsubscribe, NoNewEdits
  <2>. QED  BY <2>1, AccountsSame
<1>16. ASSUME NEW e \in edits, EditDone(e) PROVE AccountsKept
  <2>1. NoNewEdits
    BY <1>16 DEF EditDone
  <2>2. UNCHANGED acct \/ Changed(e.acc, RootUpdated(acct[e.acc], TRUE))
    BY <1>16 DEF EditDone, Subscribed, TtrssSubscribed, Unsubscribed, TtrssUnsubscribed
  <2>3. e.acc \in Accounts => acct[e.acc].login # "MIGRATE" /\ IsAccount(acct[e.acc])
    BY ConvertedWaitsForNothing DEF AccountsInv
  <2>. QED  BY <2>1, <2>2, <2>3, RootUpdatedKeeps, AccountsSame, AccountChanges
<1>17. ASSUME NEW e \in edits, EditLost(e) PROVE AccountsKept
  BY <1>17, AccountsSame DEF EditLost
<1>18. CASE Save
  BY <1>18, AccountsSame DEF Save
<1>19. CASE Restart
  <2>1. acct' = [a \in Accounts |-> NewAccount] /\ \A a \in Accounts : acct[a].login # "MIGRATE"
    BY <1>19 DEF Restart
  <2>. QED  BY <2>1, ReleasedIsAccount DEF AccountsKept, Quiet
<1>. QED
  BY <1>1, <1>2, <1>3, <1>4, <1>5, <1>7, <1>8, <1>9, <1>10, <1>11, <1>12, <1>13, <1>14,
     <1>15, <1>16, <1>17, <1>18, <1>19 DEF Next


-----------------------------------------------------------------------------
(* The tree and the rows of its ids, step by step.                         *)

TreeKept ==
    /\ IsTree(tree')
    /\ \A a \in Accounts : \A f \in saved'[a].feeds : IsFeed(f)
    /\ DOMAIN saved' = Accounts
    /\ IdsHaveRows(tree', stored')
    /\ LocalFeedsKept

LEMMA SameFeedRefl == \A f : SameFeed(f, f)
BY DEF SameFeed

LEMMA TreeSame ==
    ASSUME AccountsInv, UNCHANGED <<tree, stored, saved>>
    PROVE  TreeKept
BY SameFeedRefl DEF TreeKept, AccountsInv, LocalFeedsKept

\* Rows that are kept: those of the feeds that are still there.
LEMMA RowsKept ==
    ASSUME NEW t, NEW u, NEW ids, IdsHaveRows(t, ids),
           \A g \in u.feeds : g.id => \E f \in t.feeds : f.id /\ Row(f) = Row(g)
    PROVE  IdsHaveRows(u, ids \ Forgotten(t, u))
BY DEF IdsHaveRows, Forgotten, Row

\* A poll writes the rows of the ids that are new.
LEMMA StoredIdsHaveRows ==
    ASSUME NEW t, NEW u, IdsHaveRows(t, stored)
    PROVE  IdsHaveRows(u, StoredIds(t, u))
<1>. SUFFICES ASSUME type \in {"reedah", "ttrss"}, NEW g \in u.feeds, g.id
              PROVE  Row(g) \in StoredIds(t, u)
  BY DEF IdsHaveRows
<1>1. CASE \A h \in t.feeds : h.owner # g.owner \/ h.url # g.url \/ ~h.id
  BY <1>1 DEF StoredIds, Row
<1>2. CASE \E h \in t.feeds : h.owner = g.owner /\ h.url = g.url /\ h.id
  <2>1. Row(g) \in stored
    BY <1>2 DEF IdsHaveRows, Row
  <2>2. Row(g) \notin Forgotten(t, u)
    BY DEF Forgotten, Row
  <2>. QED  BY <2>1, <2>2 DEF StoredIds
<1>. QED  BY <1>1, <1>2

\* Feeds are removed that are no local ones.
LEMMA FeedsRemoved ==
    ASSUME AccountsInv, NEW gone,
           \A f \in gone : f.owner \in Accounts => acct[f.owner].login # "MIGRATE",
           tree' = [tree EXCEPT !.feeds = @ \ gone], stored' = stored \ Forgotten(tree, tree'),
           saved' = saved, type' = type
    PROVE  TreeKept
<1>1. tree' = [feeds |-> tree.feeds \ gone, folders |-> tree.folders]
  BY DEF AccountsInv, IsTree
<1>2. IsTree(tree')
  BY <1>1 DEF AccountsInv, IsTree
<1>3. IdsHaveRows(tree', stored')
  BY <1>1, RowsKept DEF AccountsInv
<1>4. LocalFeedsKept
  BY <1>1, SameFeedRefl DEF LocalFeedsKept
<1>. QED  BY <1>2, <1>3, <1>4 DEF TreeKept, AccountsInv

\* The accounts keep their type.
LEMMA TypeStays ==
    ASSUME [Next]_vars
    PROVE  type' = type
<1>1. CASE UNCHANGED vars
  BY <1>1 DEF vars
<1>2. ASSUME NEW a \in Accounts,
             \/ AutoUpdate(a) \/ Update(a) \/ ListSent(a) \/ CategoriesMerged(a)
             \/ ListDenied(a) \/ ListFails(a) \/ ConvertToLocal(a)
             \/ \E ok \in BOOLEAN : AnswerDialog(a, ok)
             \/ \E u \in Urls : AddFeed(a, u)
             \/ \E u \in Urls, place \in Names \union {Top, Absent} : ServerChanges(a, u, place)
      PROVE  type' = type
  BY <1>2 DEF AutoUpdate, Update, AnswerDialog, ListSent, CategoriesMerged, ListDenied,
     ListFails, AddFeed, ServerChanges, ConvertToLocal
<1>3. ASSUME NEW a \in Accounts,
             \/ ListMerged(a) \/ FolderUsedAfterFree(a)
             \/ \E high \in BOOLEAN : ReedahLogin(a, high) \/ TtrssLogin(a, high)
      PROVE  type' = type
  BY <1>3 DEF ReedahLogin, TtrssLogin, LoggedInNow, LoginRefused, ListMerged,
     FolderUsedAfterFree, Crash
<1>4. ASSUME NEW f \in tree.feeds,
             GoogleIds(f) \/ ReedahItems(f) \/ TtrssItems(f) \/ OpmlItems(f) \/ RemoveFeed(f)
      PROVE  type' = type
  BY <1>4 DEF GoogleIds, ReedahItems, TtrssItems, OpmlItems, Answered, RemoveFeed, Crash
<1>5. ASSUME NEW e \in edits, EditDone(e) \/ EditLost(e) PROVE type' = type
  BY <1>5 DEF EditDone, EditLost
<1>6. CASE Save \/ Restart
  BY <1>6 DEF Save, Restart
<1>. QED  BY <1>1, <1>2, <1>3, <1>4, <1>5, <1>6 DEF Next

LEMMA NextTree ==
    ASSUME AccountsInv, [Next]_vars
    PROVE  TreeKept
<1>0. type' = type
  BY TypeStays
<1>1. CASE UNCHANGED vars
  BY <1>1, TreeSame DEF vars
<1>2. ASSUME NEW a \in Accounts,
             \/ AutoUpdate(a) \/ Update(a) \/ ListSent(a) \/ ListDenied(a)
             \/ FolderUsedAfterFree(a) \/ \E ok \in BOOLEAN : AnswerDialog(a, ok)
             \/ \E high \in BOOLEAN : ReedahLogin(a, high) \/ TtrssLogin(a, high)
             \/ \E u \in Urls : AddFeed(a, u)
             \/ \E u \in Urls, place \in Names \union {Top, Absent} : ServerChanges(a, u, place)
      PROVE  TreeKept
  <2>1. UNCHANGED <<tree, stored, saved>>
    BY <1>2 DEF AutoUpdate, Update, ListSent, ListDenied, FolderUsedAfterFree, AnswerDialog,
       ReedahLogin, TtrssLogin, LoggedInNow, LoginRefused, AddFeed, ServerChanges, Crash
  <2>. QED  BY <2>1, TreeSame
<1>3. ASSUME NEW a \in Accounts, CategoriesMerged(a) PROVE TreeKept
  <2>1. tree' = WithFolders(tree, a, remote[a]) /\ UNCHANGED <<stored, saved>>
    BY <1>3 DEF CategoriesMerged, WithCategories
  <2>2. IsTree(tree') /\ tree'.feeds = tree.feeds
    BY <2>1, WithFoldersKeeps DEF AccountsInv
  <2>. QED
    BY <1>0, <2>1, <2>2, SameFeedRefl DEF TreeKept, AccountsInv, LocalFeedsKept, IdsHaveRows
<1>4. ASSUME NEW a \in Accounts, ListFails(a) PROVE TreeKept
  <2>1. acct[a].login # "MIGRATE" /\ UNCHANGED <<stored, saved>>
        /\ (tree' = tree \/ tree' = FeedsUpdated(tree, a, acct[a]))
    BY <1>4, ConvertedWaitsForNothing DEF ListFails
  <2>2. CASE tree' = tree
    BY <2>1, <2>2, TreeSame
  <2>3. CASE tree' = FeedsUpdated(tree, a, acct[a])
    <3>1. /\ IsTree(tree') /\ Spares(tree, tree', a)
          /\ \A g \in tree'.feeds : \E f \in tree.feeds : SameFeed(f, g)
      BY <2>3, FeedsUpdatedKeeps DEF AccountsInv
    <3>2. LocalFeedsKept
      BY <2>1, <3>1, SameFeedRefl DEF LocalFeedsKept, Spares
    <3>3. IdsHaveRows(tree', stored')
      BY <1>0, <2>1, <3>1 DEF IdsHaveRows, AccountsInv, SameFeed, Row
    <3>. QED  BY <2>1, <3>1, <3>2, <3>3 DEF TreeKept, AccountsInv
  <2>. QED  BY <2>1, <2>2, <2>3
<1>5. ASSUME NEW a \in Accounts, ListMerged(a) PROVE TreeKept
  <2>. DEFINE list == acct[a].poll.list
              merged == Merged(tree, a, list)
              updated == FeedsUpdated(merged, a, acct[a])
  <2>1. /\ acct[a].login # "MIGRATE"
        /\ tree' = merged \/ tree' = updated
        /\ stored' = StoredIds(tree, tree')
        /\ saved' = [saved EXCEPT ![a] = [feeds |-> FeedsOf(merged, a), folders |-> FoldersOf(merged, a)]]
    BY <1>5, ConvertedWaitsForNothing DEF ListMerged
  <2>2. IsTree(merged) /\ Spares(tree, merged, a)
    BY MergedKeeps DEF AccountsInv
  <2>. HIDE DEF merged
  <2>3. IsTree(updated) /\ Spares(merged, updated, a)
    BY <2>2, FeedsUpdatedKeeps DEF AccountsInv
  <2>. HIDE DEF updated
  <2>4. IsTree(tree') /\ Spares(tree, tree', a)
    BY <2>1, <2>2, <2>3, SparesAll
  <2>5. LocalFeedsKept
    BY <2>1, <2>4, SameFeedRefl DEF LocalFeedsKept, Spares
  <2>6. IdsHaveRows(tree', stored')
    BY <1>0, <2>1, StoredIdsHaveRows DEF AccountsInv, IdsHaveRows
  <2>7. DOMAIN saved' = Accounts /\ \A b \in Accounts : \A f \in saved'[b].feeds : IsFeed(f)
    <3>1. \A f \in FeedsOf(merged, a) : IsFeed(f)
      BY <2>2 DEF FeedsOf, IsTree
    <3>. QED  BY <2>1, <3>1 DEF AccountsInv
  <2>. QED  BY <2>4, <2>5, <2>6, <2>7 DEF TreeKept
<1>6. ASSUME NEW a \in Accounts, ConvertToLocal(a) PROVE TreeKept
  <2>. DEFINE settled(f) == [f EXCEPT !.fetching = @ /\ f.owner # a]
  <2>1. tree' = [feeds |-> {settled(f) : f \in tree.feeds}, folders |-> tree.folders]
        /\ UNCHANGED <<stored, saved>>
    BY <1>6 DEF ConvertToLocal, AccountsInv, IsTree
  <2>2. \A f \in tree.feeds : IsFeed(settled(f)) /\ SameFeed(f, settled(f))
    BY DEF AccountsInv, IsTree, IsFeed, FeedFields, SameFeed
  <2>. HIDE DEF settled
  <2>3. IsTree(tree')
    BY <2>1, <2>2 DEF IsTree
  <2>4. LocalFeedsKept
    BY <2>1, <2>2 DEF LocalFeedsKept
  <2>5. IdsHaveRows(tree', stored')
    BY <1>0, <2>1, <2>2 DEF IdsHaveRows, AccountsInv, SameFeed, Row
  <2>. QED  BY <2>1, <2>3, <2>4, <2>5 DEF TreeKept, AccountsInv
<1>7. ASSUME NEW f \in tree.feeds, GoogleIds(f) \/ ReedahItems(f) \/ TtrssItems(f) \/ OpmlItems(f)
      PROVE  TreeKept
  <2>1. CASE Crash
    BY <2>1, TreeSame DEF Crash
  <2>2. CASE Answered(f)
    <3>. DEFINE done == [f EXCEPT !.fetching = FALSE]
    <3>1. IsFeed(done) /\ SameFeed(f, done)
      BY DEF AccountsInv, IsTree, IsFeed, FeedFields, SameFeed
    <3>2. tree' = [feeds |-> (tree.feeds \ {f}) \union {done}, folders |-> tree.folders]
          /\ stored' = (IF f.id THEN stored \union {Row(f)} ELSE stored) /\ UNCHANGED saved
      BY <2>2 DEF Answered, AccountsInv, IsTree, Row
    <3>. HIDE DEF done
    <3>3. IsTree(tree')
      BY <3>1, <3>2 DEF IsTree, AccountsInv
    <3>4. LocalFeedsKept
      BY <3>1, <3>2, SameFeedRefl DEF LocalFeedsKept
    <3>5. IdsHaveRows(tree', stored')
      BY <1>0, <3>1, <3>2 DEF IdsHaveRows, AccountsInv, SameFeed, Row
    <3>. QED  BY <3>2, <3>3, <3>4, <3>5 DEF TreeKept, AccountsInv
  <2>. QED  BY <1>7, <2>1, <2>2 DEF GoogleIds, ReedahItems, TtrssItems, OpmlItems
<1>8. ASSUME NEW f \in tree.feeds, RemoveFeed(f) PROVE TreeKept
  <2>1. f.owner \in Accounts => acct[f.owner].login # "MIGRATE"
    BY <1>8 DEF RemoveFeed, Alone
  <2>2. CASE UNCHANGED <<tree, stored>>
    BY <1>8, <2>2, TreeSame DEF RemoveFeed
  <2>3. CASE tree' = [tree EXCEPT !.feeds = @ \ {f}] /\ stored' = stored \ Forgotten(tree, tree')
    <3>. DEFINE gone == {f}
    <3>1. \A g \in gone : g.owner \in Accounts => acct[g.owner].login # "MIGRATE"
      BY <2>1
    <3>2. tree' = [tree EXCEPT !.feeds = @ \ gone] /\ saved' = saved
      BY <1>8, <2>3 DEF RemoveFeed
    <3>. HIDE DEF gone
    <3>. QED  BY <1>0, <2>3, <3>1, <3>2, FeedsRemoved
  <2>. QED  BY <1>8, <2>2, <2>3 DEF RemoveFeed, GoogleRemoves, ReedahRemoves, TtrssRemoves
<1>9. ASSUME NEW e \in edits, EditDone(e) PROVE TreeKept
  <2>1. e.acc \in Accounts => acct[e.acc].login # "MIGRATE"
    BY ConvertedWaitsForNothing
  <2>2. UNCHANGED saved
    BY <1>9 DEF EditDone
  <2>3. CASE Subscribed(e) \/ TtrssSubscribed(e)
    BY <2>2, <2>3, TreeSame DEF Subscribed, TtrssSubscribed
  <2>4. CASE Unsubscribed(e) \/ TtrssUnsubscribed(e)
    <3>1. PICK gone : /\ gone \subseteq Found(tree, e.acc, e.url)
                      /\ tree' = [tree EXCEPT !.feeds = @ \ gone]
                      /\ stored' = stored \ Forgotten(tree, tree')
      BY <2>4 DEF Unsubscribed, TtrssUnsubscribed
    <3>2. \A f \in gone : f.owner = e.acc
      BY <3>1 DEF Found, FeedsOf
    <3>. QED  BY <1>0, <2>1, <2>2, <3>1, <3>2, FeedsRemoved
  <2>. QED  BY <1>9, <2>3, <2>4 DEF EditDone
<1>10. ASSUME NEW e \in edits, EditLost(e) PROVE TreeKept
  BY <1>10, TreeSame DEF EditLost
<1>11. CASE Save
  <2>1. \A a \in Accounts : saved'[a].feeds = FeedsOf(tree, a)
        /\ DOMAIN saved' = Accounts /\ UNCHANGED <<tree, stored>>
    BY <1>11 DEF Save
  <2>2. DOMAIN saved' = Accounts /\ UNCHANGED <<tree, stored>>
    BY <1>11 DEF Save
  <2>3. \A a \in Accounts : \A f \in saved'[a].feeds : IsFeed(f)
    BY <2>1 DEF FeedsOf, AccountsInv, IsTree
  <2>. QED  BY <1>0, <2>2, <2>3, SameFeedRefl DEF TreeKept, AccountsInv, LocalFeedsKept, IdsHaveRows
<1>12. CASE Restart
  <2>. DEFINE loaded(f) == [f EXCEPT !.fetching = FALSE,
                                     !.id = [owner |-> f.owner, url |-> f.url] \in stored]
              files == UNION {saved[a].feeds : a \in Accounts}
  <2>1. /\ tree'.feeds = {loaded(f) : f \in files}
        /\ tree' = [feeds |-> tree'.feeds, folders |-> tree'.folders]
        /\ UNCHANGED <<stored, saved>>
        /\ \A a \in Accounts : acct[a].login # "MIGRATE"
    BY <1>12 DEF Restart
  <2>2. \A f \in files : IsFeed(f)
    BY DEF AccountsInv
  <2>3. \A f \in files : IsFeed(loaded(f)) /\ (loaded(f).id => Row(loaded(f)) \in stored)
    BY <2>2 DEF IsFeed, FeedFields, Row
  <2>. HIDE DEF loaded, files
  <2>4. IsTree(tree') /\ IdsHaveRows(tree', stored')
    BY <2>1, <2>3 DEF IsTree, IdsHaveRows
  <2>. QED  BY <2>1, <2>4 DEF TreeKept, LocalFeedsKept, AccountsInv
<1>. QED
  BY <1>1, <1>2, <1>3, <1>4, <1>5, <1>6, <1>7, <1>8, <1>9, <1>10, <1>11, <1>12 DEF Next

-----------------------------------------------------------------------------
LEMMA InitAccounts == Init => AccountsInv
<1>. SUFFICES ASSUME Init PROVE AccountsInv
  OBVIOUS
<1>1. acct = [a \in Accounts |-> NewAccount] /\ tree = [feeds |-> {}, folders |-> {}]
      /\ saved = [a \in Accounts |-> [feeds |-> {}, folders |-> {}]]
      /\ type \in {"google", "reedah", "ttrss", "opml"}
  BY AccountsAssumption DEF Init
<1>2. \A a \in Accounts : IsAccount(acct[a]) /\ Quiet(a)
  BY <1>1, ReleasedIsAccount DEF Quiet
<1>. QED  BY <1>1, <1>2 DEF AccountsInv, IsTree, IdsHaveRows

LEMMA NextAccountsInv == AccountsInv /\ [Next]_vars => AccountsInv'
<1>. SUFFICES ASSUME AccountsInv, [Next]_vars PROVE AccountsInv'
  OBVIOUS
<1>1. AccountsKept /\ TreeKept
  BY NextAccounts, NextTree
<1>2. type' = type
  BY TypeStays
<1>. QED
  BY <1>1, <1>2 DEF AccountsInv, AccountsKept, TreeKept, IdsHaveRows

\* Whatever polls, answers, edits and restarts do, an id that is known has its
\* row in the database.
THEOREM IdsAreSafe == Spec => []IdsAreStored
<1>1. AccountsInv => IdsAreStored
  BY DEF AccountsInv, IdsHaveRows, IdsAreStored, Row
<1>. QED  BY <1>1, InitAccounts, NextAccountsInv, PTL DEF Spec

\* An account that was converted stays converted, and no step of another account
\* or of an answer loses or moves one of its feeds.
THEOREM LocalFeedsStay == Spec => ConvertedIsLeftAlone
<1>1. AccountsInv /\ [Next]_vars =>
        \A a \in Accounts : acct[a].login = "MIGRATE" =>
            /\ acct'[a].login = "MIGRATE"
            /\ \A f \in FeedsOf(tree, a) :
                  \E g \in FeedsOf(tree', a) : g.place = f.place /\ g.url = f.url /\ g.id = f.id
  <2>. SUFFICES ASSUME AccountsInv, [Next]_vars, NEW a \in Accounts, acct[a].login = "MIGRATE"
                PROVE  /\ acct'[a].login = "MIGRATE"
                       /\ \A f \in FeedsOf(tree, a) :
                             \E g \in FeedsOf(tree', a) :
                                g.place = f.place /\ g.url = f.url /\ g.id = f.id
    OBVIOUS
  <2>1. acct'[a].login = "MIGRATE" /\ LocalFeedsKept
    BY NextAccounts, NextTree DEF AccountsKept, TreeKept
  <2>. QED  BY <2>1 DEF LocalFeedsKept, SameFeed, FeedsOf
<1>. QED
  BY <1>1, InitAccounts, NextAccountsInv, PTL DEF Spec, ConvertedIsLeftAlone
=============================================================================
