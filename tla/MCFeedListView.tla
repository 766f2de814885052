--------------------------- MODULE MCFeedListView ---------------------------
(* An open folder with the last selected feed, and a search folder; folders, *)
(* a feed and a news bin can be added.                                       *)
EXTENDS FeedListView

CONSTANTS root, folder1, folder2, folder3, feed1, feed2, bin1, search1

Folders3 == {folder1, folder2, folder3}

MCNodes == {root, feed1, feed2, bin1, search1} \union Folders3

MCKind == (root :> "root") @@ (search1 :> "vfolder") @@ (bin1 :> "newsbin")
          @@ [x \in Folders3 |-> "folder"] @@ [x \in {feed1, feed2} |-> "feed"]

MCChildren == (root :> <<folder1, search1>>) @@ (folder1 :> <<feed1>>)
              @@ [x \in MCNodes \ {root, folder1} |-> <<>>]

MCOpen == {folder1}

\* The first one is the address of the feed that is there.
MCEntries == {Url("a"), Text("b")}
MCSource == Url("a")

\* Saving the dialog as it was opened changes nothing, as long as an address has
\* its scheme and slash, a login its password and an interval is in its range.
Sources == {Url("a"), [Url("a") EXCEPT !.login = <<"user", "password">>], Text("file"),
            [Text("cmd") EXCEPT !.command = TRUE]}
Intervals == {-2, -1, 1, 59, 60, 90, 1440, 1500, 2880, 10000}

ASSUME SavedUnchanged ==
    \A source \in Sources, m \in Intervals, c \in {-2, -1, 0, 1, 10000},
       f \in {NoFilter, <<"command">>, <<"unsafe", "command">>},
       o \in SUBSET (Options \union {"alwaysShowInReduced"}) :
        LET s == [source |-> source, interval |-> m, filter |-> f, cache |-> c, options |-> o]
        IN  Applied(s, Loaded(s, 60)) = s
=============================================================================
