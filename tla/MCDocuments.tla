---------------------------- MODULE MCDocuments ----------------------------
(* Documents of every format and the elements that interact. *)
EXTENDS Documents

MCKinds ==
    {[root |-> r, gopher |-> FALSE, events |-> FALSE, articles |-> FALSE, link |-> FALSE] :
        r \in {"rss", "feed"}}
    \union {[root |-> "feed", gopher |-> FALSE, events |-> FALSE, articles |-> TRUE, link |-> FALSE],
            [root |-> None, gopher |-> TRUE, events |-> FALSE, articles |-> FALSE, link |-> FALSE],
            [root |-> "html", gopher |-> FALSE, events |-> TRUE, articles |-> FALSE, link |-> TRUE],
            [root |-> "html", gopher |-> FALSE, events |-> FALSE, articles |-> FALSE, link |-> FALSE]}

Short == [vis |-> 1, len |-> 2, img |-> FALSE]
Long == [vis |-> 4, len |-> 9, img |-> TRUE]
Iso(n) == [form |-> "iso", t |-> 10 + n]
Rfc(n) == [form |-> "rfc", t |-> 10 + n]

MCChannelElements ==
    {[tag |-> "pubDate", ns |-> None, date |-> d] : d \in {Rfc(1), Iso(2)}} \union
    {[tag |-> "link", ns |-> None, url |-> "u"],
     [tag |-> "category", ns |-> None, v |-> "a"],
     [tag |-> "generator", ns |-> None, v |-> "a"],
     [tag |-> "description", ns |-> None, text |-> Short],
     [tag |-> "ttl", ns |-> None, n |-> 60],
     [tag |-> "title", ns |-> None, text |-> Short],
     [tag |-> "itunes:summary", ns |-> "itunes", text |-> Long],
     [tag |-> "syn:updatePeriod", ns |-> "syn", v |-> "monthly"],
     [tag |-> "cc:license", ns |-> "cc", v |-> "by"],
     [tag |-> "admin:errorReportsTo", ns |-> "admin", v |-> "a"],
     [tag |-> "source:blogroll", ns |-> "source", v |-> "a"],
     [tag |-> "dc:creator", ns |-> "dc", v |-> "a"],
     [tag |-> "image", ns |-> None, url |-> "v"],
     [tag |-> "textInput", ns |-> None, complete |-> TRUE, v |-> "form"]}

MCRssElements ==
    {[tag |-> "pubDate", ns |-> None, date |-> Rfc(3)],
     [tag |-> "link", ns |-> None, url |-> "u"],
     [tag |-> "link", ns |-> None, url |-> "ftp"],
     [tag |-> "guid", ns |-> None, url |-> "v", permalink |-> TRUE],
     [tag |-> "description", ns |-> None, text |-> Long],
     [tag |-> "content:encoded", ns |-> "content", text |-> Short],
     [tag |-> "itunes:summary", ns |-> "itunes", text |-> Long],
     [tag |-> "itunes:keywords", ns |-> "itunes", words |-> <<"a", "b">>],
     [tag |-> "media:content", ns |-> "media", url |-> "p", gravatar |-> FALSE],
     [tag |-> "slash:comments", ns |-> "slash", v |-> "2"],
     [tag |-> "wfw:commentRss", ns |-> "wfw", url |-> "c"],
     [tag |-> "trackback:ping", ns |-> "trackback", url |-> "c"],
     [tag |-> "georss:point", ns |-> "georss", v |-> "a"]}

MCFeedElements ==
    {[tag |-> "updated", ns |-> None, date |-> Iso(1)],
     [tag |-> "link", ns |-> None, rel |-> "self", url |-> "v"],
     [tag |-> "link", ns |-> None, rel |-> "alternate", url |-> "u"],
     [tag |-> "link", ns |-> None, rel |-> "related", url |-> "v"],
     [tag |-> "author", ns |-> None, names |-> 1, mails |-> 0, uris |-> 2, v |-> "a"],
     [tag |-> "generator", ns |-> None, versioned |-> FALSE, v |-> "a"],
     [tag |-> "subtitle", ns |-> None, type |-> "text", text |-> Short]}

MCEntryElements ==
    {[tag |-> t, ns |-> None, date |-> d] : t \in {"published", "updated"}, d \in {Iso(4), Rfc(5)}} \union
    {[tag |-> "updated", ns |-> None, date |-> Iso(6)],
     [tag |-> "dc:date", ns |-> "dc", date |-> Iso(7)],
     [tag |-> "content", ns |-> None, type |-> "xhtml", text |-> Short],
     [tag |-> "summary", ns |-> None, type |-> "text", text |-> Long],
     [tag |-> "content:encoded", ns |-> "content", text |-> Short],
     [tag |-> "category", ns |-> None, v |-> "read"],
     [tag |-> "author", ns |-> None, names |-> 2, mails |-> 0, uris |-> 0, v |-> "a"],
     [tag |-> "title", ns |-> None, type |-> "html", text |-> Short],
     [tag |-> "id", ns |-> None, url |-> "i"]} \union
    {[tag |-> "link", ns |-> None, rel |-> r, url |-> u] :
        r \in {"self", "alternate", "enclosure"}, u \in {"u", "v"}}

MCLines == {[text |-> Short, url |-> "g"]}
MCScripts ==
    {[tag |-> "WebPage", url |-> "u", v |-> "logo"],
     [tag |-> "Event", date |-> None, url |-> "u", text |-> Short],
     [tag |-> "Event", date |-> Iso(8), url |-> None, text |-> Short]}
MCArticles == {[url |-> "u", text |-> Short], [url |-> "u", text |-> NoText]}
MCUsable == {"u", "v", "g"}
=============================================================================
