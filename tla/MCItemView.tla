----------------------------- MODULE MCItemView -----------------------------
(* A feed with three items and a fourth to come, which has the guid of the *)
(* first.  The search folder asks for unread items at first; the user can  *)
(* make it one without podcasts, whose unread items alone are shown.       *)
EXTENDS ItemView
CONSTANTS g, h, k

MCGuid == [i \in Items |-> CASE i \in {1, 4} -> g [] i = 2 -> h [] OTHER -> k]

MCData ==
    [i \in Items |->
        [title |-> IF i = 2 THEN {""} ELSE {"", "topic"}, body |-> {""},
         feedTitle |-> {"", "feed"}, feedSource |-> {"", "source"}, folderTitle |-> {"", "folder"},
         authors |-> IF i = 2 THEN <<{"", "me"}>> ELSE <<>>, creators |-> <<>>,
         categories |-> {}, mimes |-> IF i = 3 THEN {"audio"} ELSE {}, enclosed |-> i = 3,
         flagged |-> FALSE, read |-> FALSE]]

Unread ==
    [rules |-> <<Rule("unread", "", TRUE)>>, anyMatch |-> TRUE, unreadOnly |-> FALSE]

Edit(op, at, to) == [op |-> op, at |-> at, to |-> to]
MCSettings ==
    {[edits |-> <<Edit("add", 2, ""), Edit("value", 2, "topic"), Edit("type", 2, "podcast"),
                  Edit("logic", 2, FALSE), Edit("remove", 1, "")>>,
      anyMatch |-> FALSE, unreadOnly |-> TRUE]}
=============================================================================
