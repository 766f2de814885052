----------------------------- MODULE MCFeedList -----------------------------
(* A folder with a feed, a remote source with a feed and a search folder for   *)
(* unread items; a news bin can be added.                                                  *)
EXTENDS FeedList

CONSTANTS r, f, a, s, b, n, v, g, h

MCNodes == {r, f, a, s, b, n, v}

MCKind == (r :> "root") @@ (f :> "folder") @@ (s :> "source") @@ (v :> "vfolder")
          @@ (n :> "newsbin") @@ [x \in {a, b} |-> "feed"]

MCChildren == (r :> <<f, s, v>>) @@ (f :> <<a>>) @@ (s :> <<b>>)
              @@ [x \in {a, b, n, v} |-> <<>>]

Entry(id, text, time, read, flag) ==
    [id |-> id, text |-> text, time |-> time, read |-> read, flag |-> flag]

Fresh(id, time) == Entry(id, "t", time, FALSE, FALSE)

MCDb == (1 :> ([node |-> a] @@ Fresh(g, 2))) @@ (2 :> ([node |-> b] @@ Fresh(g, 2)))

\* Nothing new, the item of the other feed with a new one, an item read and
\* flagged elsewhere, one without guid.
MCDownloads == {<<Fresh(h, 3), Fresh(g, 2)>>, <<Entry(g, "t", 2, TRUE, TRUE)>>,
                <<Entry(NoId, "u", 4, FALSE, FALSE), Fresh(h, 1)>>}

MCCacheLimit == [x \in {a, b} |-> 2]
=============================================================================
