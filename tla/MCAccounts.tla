----------------------------- MODULE MCAccounts -----------------------------
(***************************************************************************)
(* Two urls and one folder.  MCAccounts.cfg has one account of each type,  *)
(* MCAccountsShared.cfg two accounts of one type.                          *)
(***************************************************************************)
EXTENDS Accounts

CONSTANTS a1, a2, u1, u2, n1

FirstLists == {[u \in Urls |-> IF u = u1 THEN n1 ELSE Absent]}
=============================================================================
