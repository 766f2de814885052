--------------------------- MODULE MCSubscription ---------------------------
(***************************************************************************)
(* Two URLs that can serve two versions of a feed, pages that link to      *)
(* either of them with or without items of their own, redirects, errors;   *)
(* and three URLs with pages alone, one of which has items.                *)
(***************************************************************************)
EXTENDS Subscription

CONSTANTS u1, u2, u3

Doc(kind, link, its) == [kind |-> kind, link |-> link, items |-> its]

MCDocs == { Doc("feed", NoUrl, {1}), Doc("feed", NoUrl, {1, 2}),
            Doc("page", u1, {}), Doc("page", u2, {}), Doc("page", u2, {3}),
            Doc("moved", u2, {}), Doc("gone", NoUrl, {}) }

MCPages == { Doc("page", u1, {}), Doc("page", u2, {3}), Doc("page", u3, {}) }
=============================================================================
