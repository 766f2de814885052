----------------------------- MODULE MCDatabase -----------------------------
(* No file, or a database of any version with an article, an orphan and a comment. *)
EXTENDS Database

MCIds == 1..4
MCVersions == {0, 4} \union 5..12
MCNodeOf == [i \in 1..4 |-> IF i = 2 THEN "gone" ELSE "feed"]
MCFeedMetadata ==
    {<<Pair("commentFeedUri", "c")>>,
     <<Pair("category", "a"), Pair("category", "b"), Pair("commentFeedUri", "c")>>}
=============================================================================
