---------------------------- MODULE MCWebDAVSync ----------------------------
(* The first client has a feed in a folder or none yet; the other one has    *)
(* nothing.                                                                  *)
EXTENDS WebDAVSync

CONSTANTS c1, c2, feed1, folder1

MCInitialTrees ==
    {[c \in {c1, c2} |-> [x \in {feed1} |-> IF c = c1 THEN p ELSE Absent]] : p \in {folder1, Absent}}
=============================================================================
