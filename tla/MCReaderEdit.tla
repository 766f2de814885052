---------------------------- MODULE MCReaderEdit ----------------------------
(***************************************************************************)
(* Small instances of ReaderEdit.                                          *)
(***************************************************************************)
EXTENDS ReaderEdit

CONSTANTS i1, f1
=============================================================================
