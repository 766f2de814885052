----------------------------- MODULE MCBrowser -----------------------------
(* The headlines, a tab and a page that is a download. *)
EXTENDS Browser

MCViews == 1..2
=============================================================================
