--------------------------- MODULE DatabaseProofs ---------------------------
(***************************************************************************)
(* Proofs about Database, for any items, feeds and old databases: no       *)
(* crash loses an article, only two places are fatal to the starts after   *)
(* a crash, and the comments of an item are fetched once.                  *)
(***************************************************************************)
EXTENDS Database, FiniteSetTheorems, TLAPS

Block == Len(DbInit) - Len(todo)        \* the block of db_init() that is carried out
Steps(b) == DbInit[b].calls[1]          \* the transaction of a migration

\* The articles that must be on disk.
Kept == {i \in articles : NodeOf[i] \in disk.nodes}

-----------------------------------------------------------------------------
(* One database. *)

WellFormed(w) ==
    /\ w = [version |-> w.version, tables |-> w.tables, rows |-> w.rows,
            triggers |-> w.triggers, nodes |-> w.nodes, metadata |-> w.metadata,
            last |-> w.last]
    /\ w.version \in EveryVersion
    /\ w.rows = [t \in TableNames |-> w.rows[t]]

\* The tables that the migration of a version finds, and those it has still to create.
Present(v) == CASE v \in 5..7 -> {"items", "itemsets", "view_state", "update_state"}
                [] v = 8 -> {"items", "view_state", "update_state"}
                [] v \in 9..10 -> {"items", "search_folder_items"}
                [] OTHER -> {}
Missing(v) == CASE v \in 5..7 -> {"backup", "search_folder_items", "items_new"}
                [] v = 8 -> {"search_folder_items", "items_new"}
                [] v \in 9..10 -> {"items_new"}
                [] OTHER -> {}

Shaped(w) ==
    /\ Present(w.version) \subseteq w.tables
    /\ Missing(w.version) \intersect w.tables = {}
    /\ "items" \notin w.tables => w.rows["items"] = {}

Holds(w, tables) == \A t \in tables : Kept \subseteq w.rows[t]

Sound(w) ==
    /\ WellFormed(w)
    /\ Shaped(w)
    /\ Holds(w, {"items"} \union IF w.version \in 5..7 THEN {"itemsets"} ELSE {})

-----------------------------------------------------------------------------
(* Where db_init() is, and what it has made of the tables by then. *)

Single(statements) == {<<s>> : s \in statements}

\* What the migrations do outside of their transactions.
Small == {Drop("attention_stats"), Copy("views", "search_folder_items"), Drop("views"),
          Sql("rebuild")}

\* What follows the check of the version.
Late == {Begin, End, Create("items"), Create("search_folder_items"), Create("update_state"),
         DropTrigger("item_insert"), DropTrigger("item_removal"),
         DropTrigger("subscription_removal"), Sql("items without node"),
         Sql("folder rows without node"), Sql("metadata without item"),
         Sql("legacy comments"), CreateTrigger("item_removal"),
         CreateTrigger("subscription_removal")}

Clean == work = disk /\ ~open

\* The statements from the m-th on of a transaction are left.
Position(s, m) ==
    /\ execs # <<>> /\ m \in 1..Len(s)
    /\ Head(execs) = SubSeq(s, m, Len(s))
    /\ Tail(execs) \in Seq(Single(Small))

\* Within a transaction: the version, the tables, and those that hold the articles.
Made(v, tables, holders) ==
    open /\ work.version = v /\ work.tables = tables /\ Holds(work, holders)

TriggersAt(m) ==
    \/ m = 1 /\ Clean
    \/ m \in {2, 3, 4} /\ Made(disk.version, disk.tables, {"items", "itemsets"})

WiderAt(m) ==
    LET v == disk.version
        tables == disk.tables
        more == disk.tables \union {"backup"}
    IN \/ m = 1 /\ Clean
       \/ m \in {2, 3} /\ Made(v, tables, {"items", "itemsets"})
       \/ m = 4 /\ Made(v, more, {"items", "itemsets"})
       \/ m = 5 /\ Made(v, more, {"items", "itemsets", "backup"})
       \/ m = 6 /\ Made(v, more \ {"itemsets"}, {"items", "backup"})
       \/ m = 7 /\ Made(v, more, {"items", "backup"})
       \/ m = 8 /\ Made(v, more, {"items", "itemsets", "backup"})
       \/ m = 9 /\ Made(v, tables, {"items", "itemsets"})
       \/ m = 10 /\ Made(v + 1, tables, {"items", "itemsets"})

To8At(m) ==
    LET tables == disk.tables
        more == disk.tables \union {"backup"}
    IN \/ m = 1 /\ Clean
       \/ m = 2 /\ Made(7, tables, {"items", "itemsets"})
       \/ m = 3 /\ Made(7, more, {"items", "itemsets"})
       \/ m = 4 /\ Made(7, more, {"items", "itemsets", "backup"})
       \/ m = 5 /\ Made(7, more \ {"items"}, {"itemsets", "backup"})
       \/ m = 6 /\ Made(7, more, {"itemsets", "backup"})
       \/ m = 7 /\ Made(7, more, {"items", "itemsets", "backup"})
       \/ m = 8 /\ Made(7, tables, {"items", "itemsets"})
       \/ m = 9 /\ Made(7, tables \ {"itemsets"}, {"items"})
       \/ m = 10 /\ Made(8, tables \ {"itemsets"}, {"items"})

To9At(m) ==
    LET fewer == disk.tables \ {"view_state", "update_state"}
    IN \/ m = 1 /\ Clean
       \/ m = 2 /\ Made(8, disk.tables, {"items"})
       \/ m = 3 /\ Made(8, disk.tables \ {"view_state"}, {"items"})
       \/ m = 4 /\ Made(8, fewer, {"items"})
       \/ m = 5 /\ Made(8, fewer \union {"search_folder_items"}, {"items"})
       \/ m = 6 /\ Made(9, fewer \union {"search_folder_items"}, {"items"})

To10At(m) ==
    \/ m = 1 /\ Clean
    \/ m = 2 /\ Made(9, disk.tables, {"items"})
    \/ m = 3 /\ Made(9, disk.tables \ {"search_folder_items"}, {"items"})
    \/ m = 4 /\ Made(9, disk.tables, {"items"})
    \/ m = 5 /\ Made(10, disk.tables, {"items"})

To11At(m) ==
    LET more == disk.tables \union {"items_new"}
    IN \/ m = 1 /\ Clean
       \/ m = 2 /\ Made(10, disk.tables, {"items"})
       \/ m = 3 /\ Made(10, more, {"items"})
       \/ m = 4 /\ Made(10, more, {"items", "items_new"})
       \/ m = 5 /\ Made(10, more \ {"items"}, {"items_new"})
       \/ m = 6 /\ Made(10, disk.tables, {"items"})
       \/ m = 7 /\ Made(11, disk.tables, {"items"})

MadeAt(b, m) ==
    CASE b = 2 -> TriggersAt(m)
      [] b \in {3, 4} -> WiderAt(m)
      [] b = 5 -> To8At(m)
      [] b = 6 -> To9At(m)
      [] b = 7 -> To10At(m)
      [] b = 8 -> To11At(m)

-----------------------------------------------------------------------------
(* The stages of a start. *)

\* The version on disk after a block.
Floor == <<5, 5, 6, 7, 8, 9, 10, 11>>

\* Between two migrations, or after the transaction of one.
Between ==
    /\ Block \in 0..8 /\ Clean
    /\ execs = <<>> \/ (Block # 1 /\ execs \in Seq(Single(Small)))
    /\ Block > 0 => disk.version \in Floor[Block]..Target

\* Only an old trigger that is missing leaves a transaction open; nothing that is
\* left to do commits it.
StuckVersion == open /\ disk.version \in {5, 6} /\ work.version = disk.version
Stuck ==
    /\ StuckVersion /\ Block \in 2..8
    /\ \/ execs \in Seq(Single(Small))
       \/ Block \in {3, 4} /\ execs = <<Steps(Block)>>

\* What is left of the block that gives a new file its version.
Opening == <<<<Create("info"), Version(-1)>>, <<Sql("adopt")>>, <<Sql("check")>>>>
Numbering == <<<<Version(-1)>>, <<Sql("adopt")>>, <<Sql("check")>>>>
Adopting == <<<<Sql("adopt")>>, <<Sql("check")>>>>
Judging == <<<<Sql("check")>>>>

NewFile ==
    /\ Block = 1 /\ Clean
    /\ \/ execs \in {Opening, Numbering, Adopting} /\ disk.version \notin 5..Target
       \/ execs = Judging /\ disk.version \notin 5..Target - 1

Migrating ==
    /\ Block \in 2..8 /\ disk.version \in DbInit[Block].versions
    /\ \E m \in 1..Len(Steps(Block)) : Position(Steps(Block), m) /\ MadeAt(Block, m)

Checking ==
    /\ Block = 9 /\ execs = <<<<Sql("check")>>>>
    /\ (Clean /\ disk.version = Target) \/ StuckVersion

\* Table items exists after CreateTables, in an empty database as well.
Creating == Block = 9 \/ (Block = 10 /\ \E k \in 1..Len(execs) : execs[k] = <<Create("items")>>)

Finishing ==
    /\ Block \in 9..13 /\ execs \in Seq(Single(Late))
    /\ disk.version = Target /\ work.version = Target /\ Sound(work)
    /\ ~open => work = disk
    /\ Creating \/ "items" \in work.tables

Starting ==
    /\ Len(todo) \in 0..13 /\ todo = SubSeq(DbInit, Block + 1, Len(DbInit))
    /\ Between \/ Stuck \/ NewFile \/ Migrating \/ Checking \/ Finishing

\* The versions that the check of the version refuses.
FatalVersions == phase = "fatal" => disk.version \notin 7..Target

IInv ==
    /\ articles \subseteq Ids \ Comments
    /\ \A i \in articles : NodeOf[i] \in InitialNodes => NodeOf[i] \in disk.nodes
    /\ open \in BOOLEAN
    /\ Sound(disk)
    /\ WellFormed(work) /\ work.nodes = disk.nodes
    /\ phase \in {"off", "starting", "running", "fatal"}
    /\ phase \in {"off", "fatal"} => Clean
    /\ phase = "starting" => Starting
    /\ phase = "running" => Clean /\ disk.version = Target /\ "items" \in disk.tables
    /\ FatalVersions
-----------------------------------------------------------------------------
(***************************************************************************)
(* Sequences: what is left of a transaction, and of the calls of a block.  *)
(***************************************************************************)
LEMMA SuffixAt ==
    ASSUME NEW T, NEW s \in Seq(T), NEW m \in 1..Len(s)
    PROVE  /\ SubSeq(s, m, Len(s)) \in Seq(T) /\ SubSeq(s, m, Len(s)) # <<>>
           /\ Head(SubSeq(s, m, Len(s))) = s[m]
           /\ m < Len(s) => /\ m + 1 \in 1..Len(s)
                            /\ Tail(SubSeq(s, m, Len(s))) = SubSeq(s, m + 1, Len(s))
                            /\ SubSeq(s, m + 1, Len(s)) # <<>>
           /\ m = Len(s) => Tail(SubSeq(s, m, Len(s))) = <<>>
<1>. DEFINE u == SubSeq(s, m, Len(s))
            n == Len(s)
<1>1. n \in Nat /\ m \in 1..n
  OBVIOUS
<1>2. /\ u \in Seq(T) /\ Len(u) = n - m + 1
      /\ \A k \in 1..(n - m + 1) : u[k] = s[m + k - 1]
  OBVIOUS
<1>3. u # <<>> /\ Head(u) = s[m]
  <2>1. Len(u) \in Nat \ {0} /\ u[1] = s[m]
    BY <1>1, <1>2
  <2>. HIDE DEF u
  <2>. QED  BY <1>2, <2>1
<1>4. /\ Tail(u) \in Seq(T) /\ Len(Tail(u)) = n - m
      /\ \A k \in 1..(n - m) : Tail(u)[k] = u[k + 1]
  <2>. HIDE DEF u
  <2>. QED  BY <1>1, <1>2, <1>3
<1>5. CASE m < n
  <2>. DEFINE v == SubSeq(s, m + 1, n)
  <2>1. /\ v \in Seq(T) /\ Len(v) = n - m
        /\ \A k \in 1..(n - m) : v[k] = s[m + k]
    BY <1>1, <1>5
  <2>2. ASSUME NEW k \in 1..(n - m) PROVE Tail(u)[k] = v[k]
    <3>1. /\ k \in Int /\ n \in Int /\ m \in Int /\ k + 1 \in 1..(n - m + 1)
          /\ m + (k + 1) - 1 = m + k
      BY <1>1
    <3>. HIDE DEF u, v, n
    <3>2. Tail(u)[k] = s[m + (k + 1) - 1]
      BY <1>2, <1>4, <3>1
    <3>3. v[k] = s[m + k]
      BY <2>1
    <3>. QED  BY <3>1, <3>2, <3>3
  <2>3. Tail(u) = v
    <3>. HIDE DEF u, v, n
    <3>. QED  BY <1>4, <2>1, <2>2
  <2>4. v # <<>>
    BY <1>1, <1>5, <2>1, SMTT(30)
  <2>. QED  BY <1>1, <1>2, <1>3, <1>5, <2>3, <2>4
<1>6. CASE m = n
  BY <1>1, <1>2, <1>3, <1>4, <1>6
<1>. QED  BY <1>1, <1>5, <1>6

LEMMA ConsAt ==
    ASSUME NEW T, NEW s \in Seq(T), NEW x
    PROVE  <<x>> \o s # <<>> /\ Head(<<x>> \o s) = x /\ Tail(<<x>> \o s) = s
<1>. DEFINE U == T \union {x}
<1>1. x \in U /\ s \in Seq(U)
  OBVIOUS
<1>. HIDE DEF U
<1>2. <<x>> \in Seq(U) /\ Len(<<x>>) = 1 /\ <<x>>[1] = x
  BY <1>1
<1>3. /\ <<x>> \o s \in Seq(U) /\ Len(<<x>> \o s) = Len(s) + 1 /\ Len(s) \in Nat
      /\ (<<x>> \o s)[1] = x
      /\ \A k \in 1..Len(s) : (<<x>> \o s)[k + 1] = s[k]
  BY <1>1, <1>2
<1>. DEFINE u == <<x>> \o s
<1>4. u \in Seq(U) /\ Len(u) = Len(s) + 1 /\ u[1] = x /\ \A k \in 1..Len(s) : u[k + 1] = s[k]
  BY <1>3
<1>. HIDE DEF u
<1>5. u # <<>> /\ Head(u) = x
  BY <1>1, <1>3, <1>4
<1>6. Tail(u) \in Seq(U) /\ Len(Tail(u)) = Len(s) /\ \A k \in 1..Len(s) : Tail(u)[k] = u[k + 1]
  BY <1>3, <1>4, <1>5
<1>7. Tail(u) = s
  BY <1>1, <1>3, <1>4, <1>6
<1>. QED  BY <1>5, <1>7 DEF u

\* The statement of a transaction that comes next, and what is left after it.
LEMMA Advance ==
    ASSUME NEW T, NEW s \in Seq(T), NEW m, Position(s, m)
    PROVE  /\ Statement = s[m]
           /\ Tail(execs) \in Seq(Single(Small))
           /\ m < Len(s) /\ execs' = Rest => Position(s, m + 1)'
           /\ m = Len(s) => Rest = Tail(execs)
<1>. DEFINE h == SubSeq(s, m, Len(s))
            small == Tail(execs)
<1>1. m \in 1..Len(s) /\ small \in Seq(Single(Small))
  BY DEF Position
<1>2. Head(execs) = h
  BY DEF Position
<1>3. Statement = s[m]
  BY <1>1, <1>2, SuffixAt DEF Statement
<1>4. CASE m < Len(s) /\ execs' = Rest
  <2>1. m + 1 \in 1..Len(s) /\ Tail(h) = SubSeq(s, m + 1, Len(s)) /\ Tail(h) # <<>>
    BY <1>1, <1>4, SuffixAt
  <2>2. execs' = <<Tail(h)>> \o small
    <3>. HIDE DEF h, small
    <3>1. Tail(Head(execs)) = Tail(h) /\ Tail(execs) = small
      BY <1>2 DEF small
    <3>. QED  BY <1>4, <2>1, <3>1 DEF Rest
  <2>3. execs' # <<>> /\ Head(execs') = Tail(h) /\ Tail(execs') = small
    <3>. HIDE DEF h, small
    <3>. QED  BY <1>1, <2>2, ConsAt
  <2>4. Position(s, m + 1)'
    <3>1. Head(execs') = SubSeq(s, m + 1, Len(s))
      BY <2>1, <2>3
    <3>. QED  BY <1>1, <2>1, <2>3, <3>1 DEF Position
  <2>. QED  BY <1>1, <1>3, <1>4, <2>4
<1>5. CASE m = Len(s)
  <2>1. Tail(Head(execs)) = <<>>
    BY <1>1, <1>2, <1>5, SuffixAt
  <2>. QED  BY <1>1, <1>3, <1>5, <2>1 DEF Rest
<1>. QED  BY <1>1, <1>3, <1>4, <1>5

\* ... and if the calls are single statements.
LEMMA OneByOne ==
    ASSUME NEW S, execs \in Seq(Single(S)), execs # <<>>
    PROVE  /\ Statement \in S /\ execs[1] = <<Statement>>
           /\ Tail(execs) \in Seq(Single(S)) /\ Rest = Tail(execs)
           /\ Len(execs) \in Nat \ {0} /\ Len(Tail(execs)) = Len(execs) - 1
           /\ \A k \in 1..(Len(execs) - 1) : Tail(execs)[k] = execs[k + 1]
<1>1. /\ Tail(execs) \in Seq(Single(S)) /\ Head(execs) \in Single(S) /\ Head(execs) = execs[1]
      /\ Len(execs) \in Nat \ {0} /\ Len(Tail(execs)) = Len(execs) - 1
      /\ \A k \in 1..(Len(execs) - 1) : Tail(execs)[k] = execs[k + 1]
  <2>. DEFINE T == Single(S)
  <2>1. execs \in Seq(T)
    OBVIOUS
  <2>. HIDE DEF T
  <2>2. /\ Tail(execs) \in Seq(T) /\ Head(execs) \in T /\ Head(execs) = execs[1]
        /\ Len(execs) \in Nat \ {0} /\ Len(Tail(execs)) = Len(execs) - 1
        /\ \A k \in 1..(Len(execs) - 1) : Tail(execs)[k] = execs[k + 1]
    BY <2>1
  <2>. QED  BY <2>2 DEF T
<1>2. PICK x \in S : Head(execs) = <<x>>
  BY <1>1 DEF Single
<1>3. Head(<<x>>) = x /\ Tail(<<x>>) = <<>>
  OBVIOUS
<1>. QED  BY <1>1, <1>2, <1>3 DEF Statement, Rest

LEMMA FirstOf ==
    ASSUME NEW s, execs = <<<<s>>>>
    PROVE  Statement = s
<1>1. Head(execs) = <<s>>
  OBVIOUS
<1>. QED  BY <1>1 DEF Statement

-----------------------------------------------------------------------------
(***************************************************************************)
(* The statements: when they fail, and what they make of the tables.       *)
(***************************************************************************)
Kin(u, w) == WellFormed(u) /\ u.version = w.version /\ u.nodes = w.nodes

Elsewhere(u, w, tables) == \A t \in TableNames \ tables : u.rows[t] = w.rows[t]

Refilled(u, w, t, ids) ==
    Kin(u, w) /\ u.tables = w.tables /\ u.rows[t] = ids /\ Elsewhere(u, w, {t})

Created(u, w, t) ==
    Kin(u, w) /\ u.tables = w.tables \union {t} /\ u.rows[t] = {} /\ Elsewhere(u, w, {t})

Dropped(u, w, t) ==
    Kin(u, w) /\ u.tables = w.tables \ {t} /\ u.rows[t] = {} /\ Elsewhere(u, w, {t})

Copied(u, w, of, t) == Refilled(u, w, t, w.rows[t] \union w.rows[of])

Joined(u, w) == Refilled(u, w, "items", w.rows["backup"] \intersect w.rows["itemsets"])

Renamed(u, w) ==
    /\ Kin(u, w) /\ u.tables = (w.tables \ {"items_new"}) \union {"items"}
    /\ u.rows["items"] = w.rows["items_new"] /\ u.rows["items_new"] = {}
    /\ Elsewhere(u, w, {"items", "items_new"})

Numbered(u, w, n) ==
    WellFormed(u) /\ u.version = n /\ u.nodes = w.nodes /\ u.tables = w.tables /\ u.rows = w.rows

Untouched(u, w) == Kin(u, w) /\ u.tables = w.tables /\ u.rows = w.rows

Commentless(u, w) ==
    /\ Kin(u, w) /\ u.tables = w.tables
    /\ u.rows["items"] = w.rows["items"] \ Comments
    /\ u.rows["itemsets"] = w.rows["itemsets"] \ Comments

\* The cleanup takes items of feeds without a row, and comments.
Cleaned(u, w) ==
    /\ Kin(u, w) /\ u.tables = w.tables
    /\ u.rows["items"] \subseteq w.rows["items"]
    /\ \A i \in w.rows["items"] \ Comments : NodeOf[i] \in w.nodes => i \in u.rows["items"]

LEMMA Fill ==
    ASSUME NEW w, WellFormed(w), NEW t \in TableNames, NEW ids,
           NEW u, u = Filled(w, t, ids)
    PROVE  Refilled(u, w, t, ids)
<1>1. w = [version |-> w.version, tables |-> w.tables, rows |-> w.rows,
           triggers |-> w.triggers, nodes |-> w.nodes, metadata |-> w.metadata,
           last |-> w.last]
  BY DEF WellFormed
<1>2. u = [version |-> w.version, tables |-> w.tables, rows |-> [w.rows EXCEPT ![t] = ids],
           triggers |-> w.triggers, nodes |-> w.nodes, metadata |-> w.metadata,
           last |-> w.last]
  BY <1>1 DEF Filled
<1>3. u.rows = [w.rows EXCEPT ![t] = ids] /\ w.rows = [x \in TableNames |-> w.rows[x]]
  BY <1>2 DEF WellFormed
<1>4. u.rows = [x \in TableNames |-> IF x = t THEN ids ELSE w.rows[x]]
  BY <1>3
<1>5. WellFormed(u)
  <2>1. u.rows = [x \in TableNames |-> u.rows[x]]
    BY <1>4
  <2>2. u.version \in EveryVersion
    BY <1>2 DEF WellFormed
  <2>. QED  BY <1>2, <2>1, <2>2 DEF WellFormed
<1>6. u.version = w.version /\ u.nodes = w.nodes /\ u.tables = w.tables
  BY <1>2
<1>. QED  BY <1>4, <1>5, <1>6 DEF Kin, Elsewhere, Refilled

\* Other tables, triggers, nodes or another version: the rows are the same.
LEMMA Changed ==
    ASSUME NEW w, WellFormed(w), NEW version \in EveryVersion, NEW tables, NEW triggers,
           NEW nodes, NEW metadata, NEW last, NEW u,
           u = [version |-> version, tables |-> tables, rows |-> w.rows,
                triggers |-> triggers, nodes |-> nodes, metadata |-> metadata, last |-> last]
    PROVE  /\ WellFormed(u) /\ u.version = version /\ u.tables = tables
           /\ u.rows = w.rows /\ u.nodes = nodes
BY DEF WellFormed

LEMMA CreateEffect ==
    ASSUME NEW w, WellFormed(w), NEW t \in TableNames, NEW u, u = Effect(Create(t), w)
    PROVE  Created(u, w, t) /\ (Fails(Create(t), w) <=> t \in w.tables)
<1>. DEFINE x == [w EXCEPT !.tables = @ \union {t}]
<1>1. u = Filled(x, t, {}) /\ (Fails(Create(t), w) <=> t \in w.tables)
  BY DEF Effect, Create, Fails
<1>2. x = [version |-> w.version, tables |-> w.tables \union {t}, rows |-> w.rows,
           triggers |-> w.triggers, nodes |-> w.nodes, metadata |-> w.metadata,
           last |-> w.last]
  <2>1. w = [version |-> w.version, tables |-> w.tables, rows |-> w.rows,
             triggers |-> w.triggers, nodes |-> w.nodes, metadata |-> w.metadata,
             last |-> w.last]
    BY DEF WellFormed
  <2>. QED  BY <2>1
<1>. HIDE DEF x
<1>3. /\ WellFormed(x) /\ x.version = w.version /\ x.tables = w.tables \union {t}
      /\ x.rows = w.rows /\ x.nodes = w.nodes
  <2>1. w.version \in EveryVersion
    BY DEF WellFormed
  <2>. QED  BY <1>2, <2>1, Changed
<1>. QED  BY <1>1, <1>3, Fill DEF Kin, Elsewhere, Created, Refilled

LEMMA DropEffect ==
    ASSUME NEW w, WellFormed(w), NEW t \in TableNames, NEW u, u = Effect(Drop(t), w)
    PROVE  Dropped(u, w, t) /\ (Fails(Drop(t), w) <=> t \notin w.tables)
<1>. DEFINE triggers == IF t = "items" THEN w.triggers \ {"item_removal", "item_insert"}
                        ELSE w.triggers
            x == [w EXCEPT !.tables = @ \ {t},
                           !.triggers = IF t = "items" THEN @ \ {"item_removal", "item_insert"}
                                        ELSE @]
<1>1. u = Filled(x, t, {}) /\ (Fails(Drop(t), w) <=> t \notin w.tables)
  BY DEF Effect, Drop, Fails
<1>2. x = [version |-> w.version, tables |-> w.tables \ {t}, rows |-> w.rows,
           triggers |-> triggers, nodes |-> w.nodes, metadata |-> w.metadata,
           last |-> w.last]
  <2>1. w = [version |-> w.version, tables |-> w.tables, rows |-> w.rows,
             triggers |-> w.triggers, nodes |-> w.nodes, metadata |-> w.metadata,
             last |-> w.last]
    BY DEF WellFormed
  <2>2. x = [w EXCEPT !.tables = w.tables \ {t}, !.triggers = triggers]
    OBVIOUS
  <2>. HIDE DEF x, triggers
  <2>. QED  BY <2>1, <2>2
<1>. HIDE DEF x, triggers
<1>3. /\ WellFormed(x) /\ x.version = w.version /\ x.tables = w.tables \ {t}
      /\ x.rows = w.rows /\ x.nodes = w.nodes
  <2>1. w.version \in EveryVersion
    BY DEF WellFormed
  <2>. QED  BY <1>2, <2>1, Changed
<1>. QED  BY <1>1, <1>3, Fill DEF Kin, Elsewhere, Dropped, Refilled

LEMMA CopyEffect ==
    ASSUME NEW w, WellFormed(w), NEW of \in TableNames, NEW t \in TableNames,
           NEW u, u = Effect(Copy(of, t), w)
    PROVE  Copied(u, w, of, t) /\ (Fails(Copy(of, t), w) <=> ~({of, t} \subseteq w.tables))
<1>1. /\ u = Filled(w, t, w.rows[t] \union w.rows[of])
      /\ Fails(Copy(of, t), w) <=> {of, t} \ w.tables # {}
  BY DEF Effect, Copy, Fails
<1>2. {of, t} \ w.tables # {} <=> ~({of, t} \subseteq w.tables)
  OBVIOUS
<1>. QED  BY <1>1, <1>2, Fill DEF Copied

LEMMA JoinEffect ==
    ASSUME NEW w, WellFormed(w), NEW u, u = Effect(Sql("join"), w)
    PROVE  /\ Joined(u, w)
           /\ Fails(Sql("join"), w) <=> ~({"backup", "itemsets", "items"} \subseteq w.tables)
<1>1. /\ u = Filled(w, "items", w.rows["backup"] \intersect w.rows["itemsets"])
      /\ Fails(Sql("join"), w) <=> {"backup", "itemsets", "items"} \ w.tables # {}
  BY DEF Effect, Sql, Fails
<1>2. /\ {"backup", "itemsets", "items"} \ w.tables # {}
            <=> ~({"backup", "itemsets", "items"} \subseteq w.tables)
      /\ "items" \in TableNames
  BY DEF TableNames
<1>. QED  BY <1>1, <1>2, Fill DEF Joined

LEMMA RenameEffect ==
    ASSUME NEW w, WellFormed(w), NEW u, u = Effect(Sql("rename"), w)
    PROVE  /\ Renamed(u, w)
           /\ Fails(Sql("rename"), w) <=> "items_new" \notin w.tables \/ "items" \in w.tables
<1>. DEFINE tables == (w.tables \ {"items_new"}) \union {"items"}
            rows == [t \in TableNames |-> IF t = "items" THEN w.rows["items_new"]
                                          ELSE IF t = "items_new" THEN {} ELSE w.rows[t]]
<1>1. /\ u = [w EXCEPT !.tables = (@ \ {"items_new"}) \union {"items"},
                       !.rows["items"] = w.rows["items_new"], !.rows["items_new"] = {}]
      /\ Fails(Sql("rename"), w) <=> "items_new" \notin w.tables \/ "items" \in w.tables
  BY DEF Effect, Sql, Fails
<1>2. /\ w = [version |-> w.version, tables |-> w.tables, rows |-> w.rows,
              triggers |-> w.triggers, nodes |-> w.nodes, metadata |-> w.metadata,
              last |-> w.last]
      /\ w.rows = [t \in TableNames |-> w.rows[t]] /\ w.version \in EveryVersion
  BY DEF WellFormed
<1>3. {"items", "items_new"} \subseteq TableNames
  BY DEF TableNames
<1>4. [[w.rows EXCEPT !["items"] = w.rows["items_new"]] EXCEPT !["items_new"] = {}] = rows
  BY <1>2, <1>3
<1>5. u = [version |-> w.version, tables |-> tables,
           rows |-> [[w.rows EXCEPT !["items"] = w.rows["items_new"]] EXCEPT !["items_new"] = {}],
           triggers |-> w.triggers, nodes |-> w.nodes, metadata |-> w.metadata,
           last |-> w.last]
  BY <1>1, <1>2
<1>6. u = [version |-> w.version, tables |-> tables, rows |-> rows,
           triggers |-> w.triggers, nodes |-> w.nodes, metadata |-> w.metadata,
           last |-> w.last]
  BY <1>4, <1>5
<1>7. u.version = w.version /\ u.tables = tables /\ u.nodes = w.nodes /\ u.rows = rows
  BY <1>6
<1>8. rows = [t \in TableNames |-> rows[t]]
  OBVIOUS
<1>9. /\ rows["items"] = w.rows["items_new"] /\ rows["items_new"] = {}
      /\ \A t \in TableNames \ {"items", "items_new"} : rows[t] = w.rows[t]
  BY <1>3
<1>. HIDE DEF tables, rows
<1>10. WellFormed(u)
  BY <1>2, <1>6, <1>7, <1>8 DEF WellFormed
<1>. QED  BY <1>1, <1>7, <1>9, <1>10 DEF Kin, Elsewhere, tables, Renamed

LEMMA VersionEffect ==
    ASSUME NEW w, WellFormed(w), NEW n \in EveryVersion, NEW u, u = Effect(Version(n), w)
    PROVE  Numbered(u, w, n) /\ ~Fails(Version(n), w)
<1>. DEFINE x == Effect(Version(n), w)
<1>1. x = [w EXCEPT !.version = n] /\ ~Fails(Version(n), w)
  BY DEF Effect, Version, Fails
<1>. HIDE DEF x
<1>2. w = [version |-> w.version, tables |-> w.tables, rows |-> w.rows,
           triggers |-> w.triggers, nodes |-> w.nodes, metadata |-> w.metadata,
           last |-> w.last]
  BY DEF WellFormed
<1>3. x = [version |-> n, tables |-> w.tables, rows |-> w.rows,
           triggers |-> w.triggers, nodes |-> w.nodes, metadata |-> w.metadata,
           last |-> w.last]
  BY <1>1, <1>2
<1>4. /\ WellFormed(x) /\ x.version = n /\ x.tables = w.tables
      /\ x.rows = w.rows /\ x.nodes = w.nodes
  BY <1>3, Changed
<1>5. u = x
  BY DEF x
<1>. QED  BY <1>1, <1>4, <1>5 DEF Numbered

\* The version of a new file.
Adopted(w) == IF w.version = -1 THEN Target ELSE w.version

LEMMA AdoptEffect ==
    ASSUME NEW w, WellFormed(w), NEW u, u = Effect(Sql("adopt"), w)
    PROVE  Numbered(u, w, Adopted(w)) /\ ~Fails(Sql("adopt"), w)
<1>. DEFINE x == Effect(Sql("adopt"), w)
            n == Adopted(w)
<1>1. x = [w EXCEPT !.version = n] /\ ~Fails(Sql("adopt"), w)
  BY DEF Effect, Sql, Fails, Adopted
<1>2. n \in EveryVersion
  BY DEF WellFormed, Adopted, EveryVersion, Target
<1>. HIDE DEF x, n
<1>3. w = [version |-> w.version, tables |-> w.tables, rows |-> w.rows,
           triggers |-> w.triggers, nodes |-> w.nodes, metadata |-> w.metadata,
           last |-> w.last]
  BY DEF WellFormed
<1>4. x = [version |-> n, tables |-> w.tables, rows |-> w.rows,
           triggers |-> w.triggers, nodes |-> w.nodes, metadata |-> w.metadata,
           last |-> w.last]
  BY <1>1, <1>3
<1>5. /\ WellFormed(x) /\ x.version = n /\ x.tables = w.tables
      /\ x.rows = w.rows /\ x.nodes = w.nodes
  BY <1>2, <1>4, Changed
<1>6. u = x
  BY DEF x
<1>. QED  BY <1>1, <1>5, <1>6 DEF Numbered, n

\* Statements about triggers and metadata leave the rows of the tables alone.
LEMMA TriggersEffect ==
    ASSUME NEW w, WellFormed(w), NEW t, NEW s \in {DropTrigger(t), CreateTrigger(t)},
           NEW u, u = Effect(s, w)
    PROVE  Untouched(u, w)
<1>1. PICK triggers : u = [w EXCEPT !.triggers = triggers]
  <2>1. CASE s = DropTrigger(t)
    <3>1. u = [w EXCEPT !.triggers = w.triggers \ {t}]
      BY <2>1 DEF Effect, DropTrigger
    <3>. QED  BY <3>1
  <2>2. CASE s = CreateTrigger(t)
    <3>1. u = [w EXCEPT !.triggers = w.triggers \union {t}]
      BY <2>2 DEF Effect, CreateTrigger
    <3>. QED  BY <3>1
  <2>. QED  BY <2>1, <2>2
<1>2. w = [version |-> w.version, tables |-> w.tables, rows |-> w.rows,
           triggers |-> w.triggers, nodes |-> w.nodes, metadata |-> w.metadata,
           last |-> w.last] /\ w.version \in EveryVersion
  BY DEF WellFormed
<1>3. u = [version |-> w.version, tables |-> w.tables, rows |-> w.rows,
           triggers |-> triggers, nodes |-> w.nodes, metadata |-> w.metadata,
           last |-> w.last]
  BY <1>1, <1>2
<1>4. /\ u.version = w.version /\ u.tables = w.tables /\ u.nodes = w.nodes
      /\ u.rows = w.rows
  BY <1>3
<1>5. WellFormed(u)
  BY <1>2, <1>3, <1>4 DEF WellFormed
<1>. QED  BY <1>4, <1>5 DEF Kin, Untouched

LEMMA MetadataEffect ==
    ASSUME NEW w, WellFormed(w), NEW u, u = Effect(Sql("metadata without item"), w)
    PROVE  Untouched(u, w)
<1>. DEFINE x == Effect(Sql("metadata without item"), w)
<1>1. PICK metadata : x = [w EXCEPT !.metadata = metadata]
  <2>. DEFINE metadata == [i \in Ids |-> IF i \in w.rows["items"] THEN w.metadata[i] ELSE <<>>]
  <2>1. x = [w EXCEPT !.metadata = metadata]
    BY DEF Effect, Sql
  <2>. HIDE DEF metadata
  <2>. QED  BY <2>1
<1>. HIDE DEF x
<1>2. w = [version |-> w.version, tables |-> w.tables, rows |-> w.rows,
           triggers |-> w.triggers, nodes |-> w.nodes, metadata |-> w.metadata,
           last |-> w.last] /\ w.version \in EveryVersion
  BY DEF WellFormed
<1>3. x = [version |-> w.version, tables |-> w.tables, rows |-> w.rows,
           triggers |-> w.triggers, nodes |-> w.nodes, metadata |-> metadata,
           last |-> w.last]
  BY <1>1, <1>2
<1>4. /\ x.version = w.version /\ x.tables = w.tables /\ x.nodes = w.nodes
      /\ x.rows = w.rows
  BY <1>3
<1>5. WellFormed(x)
  BY <1>2, <1>3, <1>4 DEF WellFormed
<1>6. u = x
  BY DEF x
<1>. QED  BY <1>6, <1>4, <1>5 DEF Kin, Untouched

LEMMA CommentsEffect ==
    ASSUME NEW w, WellFormed(w), NEW s, s = Sql("comments of itemsets"),
           NEW u, u = Effect(s, w)
    PROVE  /\ Commentless(u, w)
           /\ Fails(s, w) <=> ~({"items", "itemsets"} \subseteq w.tables)
<1>. DEFINE rows == [[w.rows EXCEPT !["itemsets"] = @ \ Comments] EXCEPT !["items"] = @ \ Comments]
<1>. DEFINE x == Effect(s, w)
<1>1. /\ x = [w EXCEPT !.rows["itemsets"] = @ \ Comments, !.rows["items"] = @ \ Comments]
      /\ Fails(s, w) <=> {"items", "itemsets"} \ w.tables # {}
  BY DEF Effect, Sql, Fails
<1>. HIDE DEF x
<1>2. /\ w = [version |-> w.version, tables |-> w.tables, rows |-> w.rows,
              triggers |-> w.triggers, nodes |-> w.nodes, metadata |-> w.metadata,
              last |-> w.last]
      /\ w.rows = [t \in TableNames |-> w.rows[t]] /\ w.version \in EveryVersion
  BY DEF WellFormed
<1>3. {"items", "itemsets"} \subseteq TableNames
  BY DEF TableNames
<1>4. x = [version |-> w.version, tables |-> w.tables, rows |-> rows,
           triggers |-> w.triggers, nodes |-> w.nodes, metadata |-> w.metadata,
           last |-> w.last]
  BY <1>1, <1>2
<1>5. /\ rows = [t \in TableNames |-> rows[t]]
      /\ rows["items"] = w.rows["items"] \ Comments
      /\ rows["itemsets"] = w.rows["itemsets"] \ Comments
  BY <1>2, <1>3
<1>. HIDE DEF rows
<1>6. x.version = w.version /\ x.tables = w.tables /\ x.nodes = w.nodes /\ x.rows = rows
  BY <1>4
<1>7. WellFormed(x)
  BY <1>2, <1>4, <1>5, <1>6 DEF WellFormed
<1>8. u = x
  BY DEF x
<1>. QED  BY <1>8, <1>1, <1>5, <1>6, <1>7 DEF Kin, Commentless

LEMMA CleanupEffect ==
    ASSUME NEW w, WellFormed(w)
    PROVE  /\ Cleaned(Effect(Sql("items without node"), w), w)
           /\ Cleaned(Effect(Sql("legacy comments"), w), w)
           /\ Cleaned(Effect(Sql("folder rows without node"), w), w)
<1>1. "items" \in TableNames /\ "search_folder_items" \in TableNames
  BY DEF TableNames
<1>2. Cleaned(Effect(Sql("items without node"), w), w)
  <2>. DEFINE x == Effect(Sql("items without node"), w)
              ids == {i \in w.rows["items"] : i \in Comments \/ NodeOf[i] \in w.nodes}
  <2>1. x = Filled(w, "items", ids)
    BY DEF Sql, Effect
  <2>2. /\ ids \subseteq w.rows["items"]
        /\ \A i \in w.rows["items"] \ Comments : NodeOf[i] \in w.nodes => i \in ids
    OBVIOUS
  <2>. HIDE DEF x, ids
  <2>3. Refilled(x, w, "items", ids)
    BY <1>1, <2>1, Fill
  <2>4. Cleaned(x, w)
    BY <2>2, <2>3 DEF Cleaned, Refilled
  <2>. QED  BY <2>4 DEF x
<1>3. Cleaned(Effect(Sql("legacy comments"), w), w)
  <2>. DEFINE x == Effect(Sql("legacy comments"), w)
  <2>1. x = Filled(w, "items", w.rows["items"] \ Comments)
    BY DEF Sql, Effect
  <2>. HIDE DEF x
  <2>2. Refilled(x, w, "items", w.rows["items"] \ Comments)
    BY <1>1, <2>1, Fill
  <2>3. Cleaned(x, w)
    BY <2>2 DEF Cleaned, Refilled
  <2>. QED  BY <2>3 DEF x
<1>4. Cleaned(Effect(Sql("folder rows without node"), w), w)
  <2>. DEFINE x == Effect(Sql("folder rows without node"), w)
              ids == {i \in w.rows["search_folder_items"] : {NodeOf[i], Folder} \subseteq w.nodes}
  <2>1. x = Filled(w, "search_folder_items", ids)
    BY DEF Sql, Effect
  <2>. HIDE DEF x, ids
  <2>2. Refilled(x, w, "search_folder_items", ids)
    BY <1>1, <2>1, Fill
  <2>3. x.rows["items"] = w.rows["items"]
    BY <1>1, <2>2 DEF Refilled, Elsewhere
  <2>4. Cleaned(x, w)
    BY <2>2, <2>3 DEF Cleaned, Refilled
  <2>. QED  BY <2>4 DEF x
<1>. QED  BY <1>2, <1>3, <1>4

LEMMA NoEffect ==
    ASSUME NEW w
    PROVE  /\ Effect(Begin, w) = w /\ (Fails(Begin, w) <=> open)
           /\ Effect(End, w) = w /\ ~Fails(End, w)
           /\ Effect(Sql("rebuild"), w) = w /\ ~Fails(Sql("rebuild"), w)
<1>1. Effect(Begin, w) = w /\ (Fails(Begin, w) <=> open)
  BY DEF Effect, Begin, Sql, Fails
<1>2. Effect(End, w) = w /\ ~Fails(End, w)
  BY DEF Effect, End, Sql, Fails
<1>3. Effect(Sql("rebuild"), w) = w /\ ~Fails(Sql("rebuild"), w)
  BY DEF Effect, Sql, Fails
<1>. QED  BY <1>1, <1>2, <1>3

-----------------------------------------------------------------------------
(***************************************************************************)
(* Execute, by the statement that is next.                                 *)
(***************************************************************************)
Failed ==
    execs' = Tail(execs) /\ work' = work /\ open' = open /\ disk' = IF open THEN disk ELSE work
Passed ==
    execs' = Rest /\ open' = open /\ disk' = IF open THEN disk ELSE work'

LEMMA Ran ==
    ASSUME Execute, NEW s, Statement = s, s.op \notin {"begin", "end"}
    PROVE  IF Fails(s, work) THEN Failed ELSE Passed /\ work' = Effect(s, work)
<1>1. CASE Fails(s, work)
  <2>1. /\ execs' = Tail(execs) /\ work' = work /\ open' = open
        /\ disk' = IF open THEN disk ELSE work
    BY <1>1 DEF Execute
  <2>. QED  BY <1>1, <2>1 DEF Failed
<1>2. CASE ~Fails(s, work)
  <2>1. /\ execs' = Rest /\ work' = Effect(s, work) /\ open' = open
        /\ disk' = IF open THEN disk ELSE Effect(s, work)
    BY <1>2 DEF Execute
  <2>. QED  BY <1>2, <2>1 DEF Passed
<1>. QED  BY <1>1, <1>2

LEMMA RunBegin ==
    ASSUME Execute, Statement = Begin
    PROVE  IF open THEN Failed
           ELSE execs' = Rest /\ open' /\ work' = work /\ disk' = disk
<1>1. /\ Effect(Statement, work) = work /\ (Fails(Statement, work) <=> open)
      /\ Statement.op = "begin"
  BY NoEffect DEF Begin, Sql
<1>2. CASE open
  BY <1>1, <1>2 DEF Execute, Failed
<1>3. CASE ~open
  BY <1>1, <1>3 DEF Execute
<1>. QED  BY <1>2, <1>3

LEMMA RunEnd ==
    ASSUME Execute, Statement = End
    PROVE  execs' = Rest /\ ~open' /\ work' = work /\ disk' = work
<1>1. /\ Effect(Statement, work) = work /\ ~Fails(Statement, work)
      /\ Statement.op = "end"
  BY NoEffect DEF End, Sql
<1>. QED  BY <1>1 DEF Execute

LEMMA RunCreate ==
    ASSUME Execute, WellFormed(work), NEW t \in TableNames,
           Statement = Create(t)
    PROVE  IF t \in work.tables THEN Failed ELSE Passed /\ Created(work', work, t)
<1>. DEFINE s == Create(t)
<1>1. s.op \notin {"begin", "end"}
  BY DEF Create
<1>2. IF Fails(s, work) THEN Failed ELSE Passed /\ work' = Effect(s, work)
  <2>. HIDE DEF s
  <2>1. Statement = s
    BY DEF s
  <2>. QED  BY <1>1, <2>1, Ran
<1>3. Fails(s, work) <=> t \in work.tables
  BY CreateEffect
<1>4. ASSUME work' = Effect(s, work) PROVE Created(work', work, t)
  BY <1>4, CreateEffect
<1>. HIDE DEF s
<1>. QED  BY <1>2, <1>3, <1>4

LEMMA RunDrop ==
    ASSUME Execute, WellFormed(work), NEW t \in TableNames,
           Statement = Drop(t)
    PROVE  IF t \notin work.tables THEN Failed ELSE Passed /\ Dropped(work', work, t)
<1>. DEFINE s == Drop(t)
<1>1. s.op \notin {"begin", "end"}
  BY DEF Drop
<1>2. IF Fails(s, work) THEN Failed ELSE Passed /\ work' = Effect(s, work)
  <2>. HIDE DEF s
  <2>1. Statement = s
    BY DEF s
  <2>. QED  BY <1>1, <2>1, Ran
<1>3. Fails(s, work) <=> t \notin work.tables
  BY DropEffect
<1>4. ASSUME work' = Effect(s, work) PROVE Dropped(work', work, t)
  BY <1>4, DropEffect
<1>. HIDE DEF s
<1>. QED  BY <1>2, <1>3, <1>4

LEMMA RunCopy ==
    ASSUME Execute, WellFormed(work), NEW of \in TableNames, NEW t \in TableNames,
           Statement = Copy(of, t)
    PROVE  IF ~({of, t} \subseteq work.tables) THEN Failed ELSE Passed /\ Copied(work', work, of, t)
<1>. DEFINE s == Copy(of, t)
<1>1. s.op \notin {"begin", "end"}
  BY DEF Copy
<1>2. IF Fails(s, work) THEN Failed ELSE Passed /\ work' = Effect(s, work)
  <2>. HIDE DEF s
  <2>1. Statement = s
    BY DEF s
  <2>. QED  BY <1>1, <2>1, Ran
<1>3. Fails(s, work) <=> ~({of, t} \subseteq work.tables)
  BY CopyEffect
<1>4. ASSUME work' = Effect(s, work) PROVE Copied(work', work, of, t)
  BY <1>4, CopyEffect
<1>. HIDE DEF s
<1>. QED  BY <1>2, <1>3, <1>4

LEMMA RunJoin ==
    ASSUME Execute, WellFormed(work), Statement = Sql("join")
    PROVE  IF ~({"backup", "itemsets", "items"} \subseteq work.tables) THEN Failed ELSE Passed /\ Joined(work', work)
<1>. DEFINE s == Sql("join")
<1>1. s.op \notin {"begin", "end"}
  BY DEF Sql
<1>2. IF Fails(s, work) THEN Failed ELSE Passed /\ work' = Effect(s, work)
  <2>. HIDE DEF s
  <2>1. Statement = s
    BY DEF s
  <2>. QED  BY <1>1, <2>1, Ran
<1>3. Fails(s, work) <=> ~({"backup", "itemsets", "items"} \subseteq work.tables)
  BY JoinEffect
<1>4. ASSUME work' = Effect(s, work) PROVE Joined(work', work)
  BY <1>4, JoinEffect
<1>. HIDE DEF s
<1>. QED  BY <1>2, <1>3, <1>4

LEMMA RunRename ==
    ASSUME Execute, WellFormed(work), Statement = Sql("rename")
    PROVE  IF "items_new" \notin work.tables \/ "items" \in work.tables THEN Failed ELSE Passed /\ Renamed(work', work)
<1>. DEFINE s == Sql("rename")
<1>1. s.op \notin {"begin", "end"}
  BY DEF Sql
<1>2. IF Fails(s, work) THEN Failed ELSE Passed /\ work' = Effect(s, work)
  <2>. HIDE DEF s
  <2>1. Statement = s
    BY DEF s
  <2>. QED  BY <1>1, <2>1, Ran
<1>3. Fails(s, work) <=> "items_new" \notin work.tables \/ "items" \in work.tables
  BY RenameEffect
<1>4. ASSUME work' = Effect(s, work) PROVE Renamed(work', work)
  BY <1>4, RenameEffect
<1>. HIDE DEF s
<1>. QED  BY <1>2, <1>3, <1>4

LEMMA RunVersion ==
    ASSUME Execute, WellFormed(work), NEW n \in EveryVersion,
           Statement = Version(n)
    PROVE  IF FALSE THEN Failed ELSE Passed /\ Numbered(work', work, n)
<1>. DEFINE s == Version(n)
<1>1. s.op \notin {"begin", "end"}
  BY DEF Version
<1>2. IF Fails(s, work) THEN Failed ELSE Passed /\ work' = Effect(s, work)
  <2>. HIDE DEF s
  <2>1. Statement = s
    BY DEF s
  <2>. QED  BY <1>1, <2>1, Ran
<1>3. Fails(s, work) <=> FALSE
  BY VersionEffect
<1>4. ASSUME work' = Effect(s, work) PROVE Numbered(work', work, n)
  BY <1>4, VersionEffect
<1>. HIDE DEF s
<1>. QED  BY <1>2, <1>3, <1>4

LEMMA RunComments ==
    ASSUME Execute, WellFormed(work), Statement = Sql("comments of itemsets")
    PROVE  IF ~({"items", "itemsets"} \subseteq work.tables) THEN Failed ELSE Passed /\ Commentless(work', work)
<1>. DEFINE s == Sql("comments of itemsets")
<1>1. s.op \notin {"begin", "end"}
  BY DEF Sql
<1>2. IF Fails(s, work) THEN Failed ELSE Passed /\ work' = Effect(s, work)
  <2>. HIDE DEF s
  <2>1. Statement = s
    BY DEF s
  <2>. QED  BY <1>1, <2>1, Ran
<1>3. Fails(s, work) <=> ~({"items", "itemsets"} \subseteq work.tables)
  BY CommentsEffect
<1>4. ASSUME work' = Effect(s, work) PROVE Commentless(work', work)
  BY <1>4, CommentsEffect
<1>. HIDE DEF s
<1>. QED  BY <1>2, <1>3, <1>4

LEMMA RunDropTrigger ==
    ASSUME Execute, WellFormed(work), NEW t, Statement = DropTrigger(t)
    PROVE  Failed \/ (Passed /\ Untouched(work', work))
<1>. DEFINE s == DropTrigger(t)
<1>1. s.op \notin {"begin", "end"}
  BY DEF DropTrigger
<1>2. IF Fails(s, work) THEN Failed ELSE Passed /\ work' = Effect(s, work)
  <2>. HIDE DEF s
  <2>1. Statement = s
    BY DEF s
  <2>. QED  BY <1>1, <2>1, Ran
<1>3. ASSUME work' = Effect(s, work) PROVE Untouched(work', work)
  BY <1>3, TriggersEffect
<1>. HIDE DEF s
<1>. QED  BY <1>2, <1>3

LEMMA RunCreateTrigger ==
    ASSUME Execute, WellFormed(work), NEW t, Statement = CreateTrigger(t)
    PROVE  Failed \/ (Passed /\ Untouched(work', work))
<1>. DEFINE s == CreateTrigger(t)
<1>1. s.op \notin {"begin", "end"}
  BY DEF CreateTrigger
<1>2. IF Fails(s, work) THEN Failed ELSE Passed /\ work' = Effect(s, work)
  <2>. HIDE DEF s
  <2>1. Statement = s
    BY DEF s
  <2>. QED  BY <1>1, <2>1, Ran
<1>3. ASSUME work' = Effect(s, work) PROVE Untouched(work', work)
  BY <1>3, TriggersEffect
<1>. HIDE DEF s
<1>. QED  BY <1>2, <1>3

LEMMA RunMetadata ==
    ASSUME Execute, WellFormed(work), Statement = Sql("metadata without item")
    PROVE  Failed \/ (Passed /\ Untouched(work', work))
<1>. DEFINE s == Sql("metadata without item")
<1>1. s.op \notin {"begin", "end"}
  BY DEF Sql
<1>2. IF Fails(s, work) THEN Failed ELSE Passed /\ work' = Effect(s, work)
  <2>. HIDE DEF s
  <2>1. Statement = s
    BY DEF s
  <2>. QED  BY <1>1, <2>1, Ran
<1>3. ASSUME work' = Effect(s, work) PROVE Untouched(work', work)
  BY <1>3, MetadataEffect
<1>. HIDE DEF s
<1>. QED  BY <1>2, <1>3

LEMMA RunRebuild ==
    ASSUME Execute, WellFormed(work), Statement = Sql("rebuild")
    PROVE  Failed \/ (Passed /\ Untouched(work', work))
<1>. DEFINE s == Sql("rebuild")
<1>1. s.op \notin {"begin", "end"}
  BY DEF Sql
<1>2. IF Fails(s, work) THEN Failed ELSE Passed /\ work' = Effect(s, work)
  <2>. HIDE DEF s
  <2>1. Statement = s
    BY DEF s
  <2>. QED  BY <1>1, <2>1, Ran
<1>3. ASSUME work' = Effect(s, work) PROVE Untouched(work', work)
  BY <1>3, NoEffect DEF Untouched, Kin
<1>. HIDE DEF s
<1>. QED  BY <1>2, <1>3

LEMMA RunAdopt ==
    ASSUME Execute, WellFormed(work), Statement = Sql("adopt")
    PROVE  Passed /\ Numbered(work', work, Adopted(work))
<1>. DEFINE s == Sql("adopt")
<1>1. s.op \notin {"begin", "end"}
  BY DEF Sql
<1>2. IF Fails(s, work) THEN Failed ELSE Passed /\ work' = Effect(s, work)
  <2>. HIDE DEF s
  <2>1. Statement = s
    BY DEF s
  <2>. QED  BY <1>1, <2>1, Ran
<1>3. ~Fails(s, work)
  BY AdoptEffect
<1>4. ASSUME work' = Effect(s, work) PROVE Numbered(work', work, Adopted(work))
  BY <1>4, AdoptEffect
<1>. HIDE DEF s
<1>. QED  BY <1>2, <1>3, <1>4

LEMMA RunOrphans ==
    ASSUME Execute, WellFormed(work), Statement = Sql("items without node")
    PROVE  Failed \/ (Passed /\ Cleaned(work', work))
<1>. DEFINE s == Sql("items without node")
<1>1. s.op \notin {"begin", "end"}
  BY DEF Sql
<1>2. IF Fails(s, work) THEN Failed ELSE Passed /\ work' = Effect(s, work)
  <2>. HIDE DEF s
  <2>1. Statement = s
    BY DEF s
  <2>. QED  BY <1>1, <2>1, Ran
<1>3. ASSUME work' = Effect(s, work) PROVE Cleaned(work', work)
  BY <1>3, CleanupEffect
<1>. HIDE DEF s
<1>. QED  BY <1>2, <1>3

LEMMA RunFolderRows ==
    ASSUME Execute, WellFormed(work), Statement = Sql("folder rows without node")
    PROVE  Failed \/ (Passed /\ Cleaned(work', work))
<1>. DEFINE s == Sql("folder rows without node")
<1>1. s.op \notin {"begin", "end"}
  BY DEF Sql
<1>2. IF Fails(s, work) THEN Failed ELSE Passed /\ work' = Effect(s, work)
  <2>. HIDE DEF s
  <2>1. Statement = s
    BY DEF s
  <2>. QED  BY <1>1, <2>1, Ran
<1>3. ASSUME work' = Effect(s, work) PROVE Cleaned(work', work)
  BY <1>3, CleanupEffect
<1>. HIDE DEF s
<1>. QED  BY <1>2, <1>3

LEMMA RunLegacy ==
    ASSUME Execute, WellFormed(work), Statement = Sql("legacy comments")
    PROVE  Failed \/ (Passed /\ Cleaned(work', work))
<1>. DEFINE s == Sql("legacy comments")
<1>1. s.op \notin {"begin", "end"}
  BY DEF Sql
<1>2. IF Fails(s, work) THEN Failed ELSE Passed /\ work' = Effect(s, work)
  <2>. HIDE DEF s
  <2>1. Statement = s
    BY DEF s
  <2>. QED  BY <1>1, <2>1, Ran
<1>3. ASSUME work' = Effect(s, work) PROVE Cleaned(work', work)
  BY <1>3, CleanupEffect
<1>. HIDE DEF s
<1>. QED  BY <1>2, <1>3

-----------------------------------------------------------------------------
(***************************************************************************)
(* The blocks of db_init().                                                *)
(***************************************************************************)
Elements(s) == {s[k] : k \in DOMAIN s}

LEMMA Blocks ==
    /\ Len(DbInit) = 13 /\ DbInit \in Seq(Elements(DbInit))
    /\ DbInit[1] = NewDatabase /\ DbInit[2] = DropOldTriggers
    /\ DbInit[3] = ToWiderItemsets(5) /\ DbInit[4] = ToWiderItemsets(6)
    /\ DbInit[5] = To8 /\ DbInit[6] = To9 /\ DbInit[7] = To10 /\ DbInit[8] = To11
    /\ DbInit[9] = CheckVersion /\ DbInit[10] = CreateTables
    /\ DbInit[11] = RemoveTriggers /\ DbInit[12] = Cleanup /\ DbInit[13] = CreateTriggers
<1>1. Len(DbInit) = 13
  BY DEF DbInit
<1>2. DbInit \in Seq(Elements(DbInit))
  BY DEF DbInit, Elements
<1>3. /\ DbInit[1] = NewDatabase /\ DbInit[2] = DropOldTriggers
      /\ DbInit[3] = ToWiderItemsets(5) /\ DbInit[4] = ToWiderItemsets(6)
      /\ DbInit[5] = To8 /\ DbInit[6] = To9 /\ DbInit[7] = To10 /\ DbInit[8] = To11
  BY DEF DbInit
<1>4. /\ DbInit[9] = CheckVersion /\ DbInit[10] = CreateTables
      /\ DbInit[11] = RemoveTriggers /\ DbInit[12] = Cleanup /\ DbInit[13] = CreateTriggers
  BY DEF DbInit
<1>. QED  BY <1>1, <1>2, <1>3, <1>4

LEMMA TriggersSteps ==
    /\ DropOldTriggers.versions = {5, 6} /\ DropOldTriggers.calls = <<Steps(2)>>
    /\ Steps(2) \in Seq(Elements(Steps(2))) /\ Len(Steps(2)) = 4
    /\ Steps(2)[1] = Begin /\ Steps(2)[2] = DropTrigger("item_removal")
    /\ Steps(2)[3] = DropTrigger("item_insert") /\ Steps(2)[4] = End
<1>. DEFINE s == <<Begin, DropTrigger("item_removal"), DropTrigger("item_insert"), End>>
<1>1. DropOldTriggers.versions = {5, 6} /\ DropOldTriggers.calls = <<s>>
  BY DEF DropOldTriggers, For
<1>2. Steps(2) = s
  <2>. HIDE DEF s
  <2>. QED  BY <1>1, Blocks DEF Steps
<1>3. s \in Seq(Elements(s)) /\ Len(s) = 4
  BY DEF Elements
<1>4. /\ s[1] = Begin /\ s[2] = DropTrigger("item_removal")
      /\ s[3] = DropTrigger("item_insert") /\ s[4] = End
  OBVIOUS
<1>. HIDE DEF s
<1>. QED  BY <1>1, <1>2, <1>3, <1>4

LEMMA Tuple10 ==
    ASSUME NEW a1, NEW a2, NEW a3, NEW a4, NEW a5, NEW a6, NEW a7, NEW a8, NEW a9, NEW a10,
           NEW s, s = <<a1, a2, a3, a4, a5, a6, a7, a8, a9, a10>>
    PROVE  s \in Seq(Elements(s)) /\ Len(s) = 10
BY DEF Elements

LEMMA WiderSteps ==
    ASSUME NEW b \in {3, 4}
    PROVE  /\ DbInit[b].versions = {b + 2} /\ DbInit[b].calls = <<Steps(b)>>
           /\ Steps(b) \in Seq(Elements(Steps(b))) /\ Len(Steps(b)) = 10
           /\ Steps(b)[1] = Begin /\ Steps(b)[2] = Sql("comments of itemsets")
           /\ Steps(b)[3] = Create("backup") /\ Steps(b)[4] = Copy("itemsets", "backup")
           /\ Steps(b)[5] = Drop("itemsets") /\ Steps(b)[6] = Create("itemsets")
           /\ Steps(b)[7] = Copy("backup", "itemsets") /\ Steps(b)[8] = Drop("backup")
           /\ Steps(b)[9] = Version((b + 2) + 1) /\ Steps(b)[10] = End
<1>. DEFINE s == <<Begin, Sql("comments of itemsets"), Create("backup"),
                   Copy("itemsets", "backup"), Drop("itemsets"), Create("itemsets"),
                   Copy("backup", "itemsets"), Drop("backup"), Version((b + 2) + 1), End>>
<1>1. DbInit[b] = ToWiderItemsets(b + 2)
  BY Blocks
<1>2. DbInit[b].versions = {b + 2} /\ DbInit[b].calls = <<s>>
  <2>. DEFINE v == b + 2
  <2>1. ToWiderItemsets(v) = [versions |-> {v}, calls |-> <<s>>]
    BY DEF ToWiderItemsets, For
  <2>. HIDE DEF s, v
  <2>2. ToWiderItemsets(v).versions = {v} /\ ToWiderItemsets(v).calls = <<s>>
    BY <2>1
  <2>. QED  BY <1>1, <2>2 DEF v
<1>3. Steps(b) = s
  <2>. HIDE DEF s
  <2>. QED  BY <1>2 DEF Steps
<1>4. s \in Seq(Elements(s)) /\ Len(s) = 10
  BY Tuple10
<1>5. /\ s[1] = Begin /\ s[2] = Sql("comments of itemsets")
      /\ s[3] = Create("backup") /\ s[4] = Copy("itemsets", "backup")
      /\ s[5] = Drop("itemsets") /\ s[6] = Create("itemsets")
      /\ s[7] = Copy("backup", "itemsets") /\ s[8] = Drop("backup")
      /\ s[9] = Version((b + 2) + 1) /\ s[10] = End
  OBVIOUS
<1>. HIDE DEF s
<1>. QED  BY <1>2, <1>3, <1>4, <1>5

LEMMA To8Steps ==
    /\ DbInit[5].versions = {7} /\ DbInit[5].calls = <<Steps(5), <<Drop("attention_stats")>>>>
    /\ Steps(5) \in Seq(Elements(Steps(5))) /\ Len(Steps(5)) = 10
    /\ Steps(5)[1] = Begin /\ Steps(5)[2] = Create("backup")
    /\ Steps(5)[3] = Copy("items", "backup") /\ Steps(5)[4] = Drop("items")
    /\ Steps(5)[5] = Create("items") /\ Steps(5)[6] = Sql("join")
    /\ Steps(5)[7] = Drop("backup") /\ Steps(5)[8] = Drop("itemsets")
    /\ Steps(5)[9] = Version(8) /\ Steps(5)[10] = End
<1>. DEFINE s == <<Begin, Create("backup"), Copy("items", "backup"),
                   Drop("items"), Create("items"), Sql("join"), Drop("backup"),
                   Drop("itemsets"), Version(8), End>>
<1>1. DbInit[5].versions = {7} /\ DbInit[5].calls = <<s, <<Drop("attention_stats")>>>>
  BY Blocks DEF To8, For
<1>2. Steps(5) = s
  <2>. HIDE DEF s
  <2>. QED  BY <1>1 DEF Steps
<1>3. s \in Seq(Elements(s)) /\ Len(s) = 10
  BY Tuple10
<1>4. /\ s[1] = Begin /\ s[2] = Create("backup")
      /\ s[3] = Copy("items", "backup") /\ s[4] = Drop("items")
      /\ s[5] = Create("items") /\ s[6] = Sql("join")
      /\ s[7] = Drop("backup") /\ s[8] = Drop("itemsets")
      /\ s[9] = Version(8) /\ s[10] = End
  OBVIOUS
<1>. HIDE DEF s
<1>. QED  BY <1>1, <1>2, <1>3, <1>4

LEMMA To9Steps ==
    /\ DbInit[6].versions = {8} /\ DbInit[6].calls = <<Steps(6), <<Copy("views", "search_folder_items")>>, <<Drop("views")>>>>
    /\ Steps(6) \in Seq(Elements(Steps(6))) /\ Len(Steps(6)) = 6
    /\ Steps(6)[1] = Begin /\ Steps(6)[2] = Drop("view_state")
    /\ Steps(6)[3] = Drop("update_state") /\ Steps(6)[4] = Create("search_folder_items")
    /\ Steps(6)[5] = Version(9) /\ Steps(6)[6] = End
<1>. DEFINE s == <<Begin, Drop("view_state"), Drop("update_state"),
                   Create("search_folder_items"), Version(9), End>>
<1>1. DbInit[6].versions = {8} /\ DbInit[6].calls = <<s, <<Copy("views", "search_folder_items")>>, <<Drop("views")>>>>
  BY Blocks DEF To9, For
<1>2. Steps(6) = s
  <2>. HIDE DEF s
  <2>. QED  BY <1>1 DEF Steps
<1>3. s \in Seq(Elements(s)) /\ Len(s) = 6
  BY DEF Elements
<1>4. /\ s[1] = Begin /\ s[2] = Drop("view_state")
      /\ s[3] = Drop("update_state") /\ s[4] = Create("search_folder_items")
      /\ s[5] = Version(9) /\ s[6] = End
  OBVIOUS
<1>. HIDE DEF s
<1>. QED  BY <1>1, <1>2, <1>3, <1>4

LEMMA To10Steps ==
    /\ DbInit[7].versions = {9} /\ DbInit[7].calls = <<Steps(7), <<Sql("rebuild")>>>>
    /\ Steps(7) \in Seq(Elements(Steps(7))) /\ Len(Steps(7)) = 5
    /\ Steps(7)[1] = Begin /\ Steps(7)[2] = Drop("search_folder_items")
    /\ Steps(7)[3] = Create("search_folder_items") /\ Steps(7)[4] = Version(10)
    /\ Steps(7)[5] = End
<1>. DEFINE s == <<Begin, Drop("search_folder_items"),
                   Create("search_folder_items"), Version(10), End>>
<1>1. DbInit[7].versions = {9} /\ DbInit[7].calls = <<s, <<Sql("rebuild")>>>>
  BY Blocks DEF To10, For
<1>2. Steps(7) = s
  <2>. HIDE DEF s
  <2>. QED  BY <1>1 DEF Steps
<1>3. s \in Seq(Elements(s)) /\ Len(s) = 5
  BY DEF Elements
<1>4. /\ s[1] = Begin /\ s[2] = Drop("search_folder_items")
      /\ s[3] = Create("search_folder_items") /\ s[4] = Version(10)
      /\ s[5] = End
  OBVIOUS
<1>. HIDE DEF s
<1>. QED  BY <1>1, <1>2, <1>3, <1>4

LEMMA To11Steps ==
    /\ DbInit[8].versions = {10} /\ DbInit[8].calls = <<Steps(8)>>
    /\ Steps(8) \in Seq(Elements(Steps(8))) /\ Len(Steps(8)) = 7
    /\ Steps(8)[1] = Begin /\ Steps(8)[2] = Create("items_new")
    /\ Steps(8)[3] = Copy("items", "items_new") /\ Steps(8)[4] = Drop("items")
    /\ Steps(8)[5] = Sql("rename") /\ Steps(8)[6] = Version(11)
    /\ Steps(8)[7] = End
<1>. DEFINE s == <<Begin, Create("items_new"), Copy("items", "items_new"),
                   Drop("items"), Sql("rename"), Version(11), End>>
<1>1. DbInit[8].versions = {10} /\ DbInit[8].calls = <<s>>
  BY Blocks DEF To11, For
<1>2. Steps(8) = s
  <2>. HIDE DEF s
  <2>. QED  BY <1>1 DEF Steps
<1>3. s \in Seq(Elements(s)) /\ Len(s) = 7
  BY DEF Elements
<1>4. /\ s[1] = Begin /\ s[2] = Create("items_new")
      /\ s[3] = Copy("items", "items_new") /\ s[4] = Drop("items")
      /\ s[5] = Sql("rename") /\ s[6] = Version(11)
      /\ s[7] = End
  OBVIOUS
<1>. HIDE DEF s
<1>. QED  BY <1>1, <1>2, <1>3, <1>4

-----------------------------------------------------------------------------
(***************************************************************************)
(* Within a transaction every statement of a migration succeeds, and the   *)
(* articles are always in some table.                                      *)
(***************************************************************************)
LEMMA ExecuteFrame ==
    ASSUME Execute
    PROVE  /\ phase = "starting" /\ phase' = "starting" /\ execs # <<>> /\ Statement.op # "check"
           /\ todo' = todo /\ Block' = Block /\ articles' = articles
<1>1. todo' = todo /\ phase' = phase /\ UNCHANGED history
  BY DEF Execute
<1>. QED  BY <1>1 DEF Execute, Block, history

\* After a statement: v, tables and holders are what they were before it.
Reached(v, tables, holders) ==
    /\ execs' = Rest /\ open' /\ disk' = disk
    /\ WellFormed(work') /\ work'.nodes = work.nodes
    /\ work'.version = v /\ work'.tables = tables
    /\ \A t \in holders : Kept \subseteq work'.rows[t]

LEMMA MadeCreate ==
    ASSUME Execute, WellFormed(work), NEW v, NEW tables, NEW holders \in SUBSET TableNames,
           Made(v, tables, holders), NEW t \in TableNames, t \notin tables,
           Statement = Create(t)
    PROVE  Reached(v, tables \union {t}, holders \ {t})
<1>1. /\ open /\ work.version = v
      /\ work.tables = tables /\ \A x \in holders : Kept \subseteq work.rows[x]
  BY DEF Made, Holds
<1>2. Passed /\ Created(work', work, t)
  BY <1>1, RunCreate
<1>. QED  BY <1>1, <1>2 DEF Passed, Created, Kin, Elsewhere, Reached

LEMMA MadeDrop ==
    ASSUME Execute, WellFormed(work), NEW v, NEW tables, NEW holders \in SUBSET TableNames,
           Made(v, tables, holders), NEW t \in TableNames, t \in tables,
           Statement = Drop(t)
    PROVE  Reached(v, tables \ {t}, holders \ {t})
<1>1. /\ open /\ work.version = v
      /\ work.tables = tables /\ \A x \in holders : Kept \subseteq work.rows[x]
  BY DEF Made, Holds
<1>2. Passed /\ Dropped(work', work, t)
  BY <1>1, RunDrop
<1>. QED  BY <1>1, <1>2 DEF Passed, Dropped, Kin, Elsewhere, Reached

LEMMA MadeCopy ==
    ASSUME Execute, WellFormed(work), NEW v, NEW tables, NEW holders \in SUBSET TableNames,
           Made(v, tables, holders), NEW of \in TableNames, NEW t \in TableNames,
           {of, t} \subseteq tables, of \in holders, Statement = Copy(of, t)
    PROVE  Reached(v, tables, holders \union {t})
<1>1. /\ open /\ work.version = v
      /\ work.tables = tables /\ \A x \in holders : Kept \subseteq work.rows[x]
  BY DEF Made, Holds
<1>2. Passed /\ Copied(work', work, of, t)
  BY <1>1, RunCopy
<1>. QED  BY <1>1, <1>2 DEF Passed, Copied, Refilled, Kin, Elsewhere, Reached

LEMMA MadeJoin ==
    ASSUME Execute, WellFormed(work), NEW v, NEW tables, NEW holders \in SUBSET TableNames,
           Made(v, tables, holders), {"backup", "itemsets", "items"} \subseteq tables,
           {"backup", "itemsets"} \subseteq holders, Statement = Sql("join")
    PROVE  Reached(v, tables, holders \union {"items"})
<1>1. /\ open /\ work.version = v
      /\ work.tables = tables /\ \A x \in holders : Kept \subseteq work.rows[x]
  BY DEF Made, Holds
<1>2. Passed /\ Joined(work', work)
  BY <1>1, RunJoin
<1>. QED  BY <1>1, <1>2 DEF Passed, Joined, Refilled, Kin, Elsewhere, Reached

LEMMA MadeRename ==
    ASSUME Execute, WellFormed(work), NEW v, NEW tables, NEW holders \in SUBSET TableNames,
           Made(v, tables, holders), "items_new" \in tables, "items" \notin tables,
           "items_new" \in holders, Statement = Sql("rename")
    PROVE  Reached(v, (tables \ {"items_new"}) \union {"items"}, {"items"})
<1>1. /\ open /\ work.version = v
      /\ work.tables = tables /\ \A x \in holders : Kept \subseteq work.rows[x]
  BY DEF Made, Holds
<1>2. Passed /\ Renamed(work', work)
  BY <1>1, RunRename
<1>. QED  BY <1>1, <1>2 DEF Passed, Renamed, Kin, Reached

LEMMA MadeVersion ==
    ASSUME Execute, WellFormed(work), NEW v, NEW tables, NEW holders \in SUBSET TableNames,
           Made(v, tables, holders), NEW n \in EveryVersion, Statement = Version(n)
    PROVE  Reached(n, tables, holders)
<1>1. /\ open /\ work.version = v
      /\ work.tables = tables /\ \A x \in holders : Kept \subseteq work.rows[x]
  BY DEF Made, Holds
<1>2. Passed /\ Numbered(work', work, n)
  BY <1>1, RunVersion
<1>. QED  BY <1>1, <1>2 DEF Passed, Numbered, Reached

LEMMA MadeComments ==
    ASSUME Execute, WellFormed(work), NEW v, NEW tables, articles \intersect Comments = {},
           Made(v, tables, {"items", "itemsets"}), {"items", "itemsets"} \subseteq tables,
           Statement = Sql("comments of itemsets")
    PROVE  Reached(v, tables, {"items", "itemsets"})
<1>1. /\ open /\ work.version = v /\ work.tables = tables
      /\ Kept \subseteq work.rows["items"] /\ Kept \subseteq work.rows["itemsets"]
  BY DEF Made, Holds
<1>2. Passed /\ Commentless(work', work)
  BY <1>1, RunComments
<1>3. Kept \intersect Comments = {}
  BY DEF Kept
<1>. QED  BY <1>1, <1>2, <1>3 DEF Passed, Commentless, Kin, Reached

LEMMA Opened ==
    ASSUME IInv, Execute, Clean, Statement = Begin, NEW holders, Holds(disk, holders)
    PROVE  Reached(disk.version, disk.tables, holders)
<1>1. execs' = Rest /\ open' /\ work' = work /\ disk' = disk
  BY RunBegin DEF Clean
<1>2. work = disk /\ WellFormed(work)
  BY DEF IInv, Clean
<1>. QED  BY <1>1, <1>2 DEF Reached, Holds

LEMMA Inner ==
    /\ 2 \in 2..8 /\ 3 \in 2..8 /\ 4 \in 2..8 /\ 5 \in 2..8 /\ 6 \in 2..8
    /\ 7 \in 2..8 /\ 8 \in 2..8
    /\ \A l, m : l = 4 /\ m \in {1, 2, 3} => m \in 1..(l - 1)
    /\ \A l, m : l = 5 /\ m \in {1, 2, 3, 4} => m \in 1..(l - 1)
    /\ \A l, m : l = 6 /\ m \in {1, 2, 3, 4, 5} => m \in 1..(l - 1)
    /\ \A l, m : l = 7 /\ m \in {1, 2, 3, 4, 5, 6} => m \in 1..(l - 1)
    /\ \A l, m : l = 10 /\ m \in {1, 2, 3, 4, 5, 6, 7, 8, 9} => m \in 1..(l - 1)
  OBVIOUS

\* The next statement of a transaction, ...
LEMMA Proceed ==
    ASSUME IInv, Execute, NEW b \in 2..8, Block = b, disk.version \in DbInit[b].versions,
           Steps(b) \in Seq(Elements(Steps(b))),
           NEW m \in 1..(Len(Steps(b)) - 1), Position(Steps(b), m),
           NEW v, NEW tables, NEW holders, Reached(v, tables, holders),
           MadeAt(b, m + 1)'
    PROVE  IInv' /\ Migrating'
<1>1. /\ execs' = Rest /\ open' /\ disk' = disk
      /\ WellFormed(work') /\ work'.nodes = work.nodes
  BY DEF Reached
<1>2. Len(Steps(b)) \in Nat /\ m < Len(Steps(b)) /\ m + 1 \in 1..Len(Steps(b))
  OBVIOUS
<1>3. Position(Steps(b), m + 1)'
  BY <1>1, <1>2, Advance
<1>4. /\ phase' = "starting" /\ phase = "starting" /\ todo' = todo /\ Block' = Block
      /\ articles' = articles /\ Kept' = Kept
  BY <1>1, ExecuteFrame DEF Kept
<1>5. Migrating'
  BY <1>1, <1>2, <1>3, <1>4 DEF Migrating
<1>6. Starting'
  BY <1>4, <1>5 DEF IInv, Starting
<1>7. Sound(disk)'
  BY <1>1, <1>4 DEF IInv, Sound, Holds
<1>. QED  BY <1>1, <1>4, <1>5, <1>6, <1>7 DEF IInv, FatalVersions

\* ... and its end, which makes it permanent.
LEMMA Commit ==
    ASSUME IInv, Execute, Block \in 2..8,
           execs' \in Seq(Single(Small)), ~open', work' = work, disk' = work,
           Sound(work), work.version \in Floor[Block]..Target
    PROVE  IInv'
<1>1. /\ phase' = "starting" /\ phase = "starting" /\ todo' = todo /\ Block' = Block
      /\ articles' = articles
  BY ExecuteFrame
<1>2. Kept' = Kept
  BY <1>1 DEF IInv, Kept
<1>3. Between'
  BY <1>1 DEF Between, Clean
<1>4. Starting'
  BY <1>1, <1>3 DEF IInv, Starting
<1>5. Sound(disk)' /\ WellFormed(work')
  BY <1>2 DEF Sound, Holds
<1>6. /\ articles' \subseteq Ids \ Comments
      /\ \A i \in articles' : NodeOf[i] \in InitialNodes => NodeOf[i] \in disk'.nodes
      /\ work'.nodes = disk'.nodes /\ open' \in BOOLEAN
  <2>1. disk'.nodes = disk.nodes
    BY DEF IInv
  <2>2. open' \in BOOLEAN
    BY <1>3 DEF Execute, IInv
  <2>. QED  BY <1>1, <2>1, <2>2 DEF IInv
<1>. QED  BY <1>1, <1>4, <1>5, <1>6 DEF IInv, FatalVersions

LEMMA To8Step ==
    ASSUME IInv, Execute, Block = 5, disk.version \in DbInit[5].versions,
           NEW m, Position(Steps(5), m), To8At(m)
    PROVE  IInv'
<1>1. /\ disk.version = 7 /\ {"items", "itemsets", "view_state", "update_state"} \subseteq disk.tables
      /\ {"backup", "search_folder_items", "items_new"} \intersect disk.tables = {}
      /\ \A t \in {"items", "itemsets"} : Kept \subseteq disk.rows[t]
      /\ WellFormed(work) /\ work.nodes = disk.nodes
      /\ articles \intersect Comments = {}
  BY To8Steps DEF IInv, Sound, Shaped, Present, Missing, Holds
<1>2. /\ Steps(5) \in Seq(Elements(Steps(5))) /\ Len(Steps(5)) = 10
      /\ Statement = Steps(5)[m] /\ m \in 1..10
      /\ 5 \in 2..8
  BY To8Steps, Advance, Inner DEF Position
<1>3. {"items", "itemsets", "backup"} \subseteq TableNames
  BY DEF TableNames
<1>4. CASE m = 1
  <2>1. Clean /\ Statement = Begin
    BY <1>2, <1>4, To8Steps DEF To8At, Made
  <2>2. Holds(disk, {"items", "itemsets"})
    BY <1>1 DEF Holds
  <2>3. Reached(disk.version, disk.tables, {"items", "itemsets"})
    BY <2>1, <2>2, Opened
  <2>4. Made(7, disk.tables, {"items", "itemsets"})'
    <3>1. disk' = disk /\ Kept' = Kept
      BY <2>3, ExecuteFrame DEF Reached, Kept
    <3>. QED  BY <1>1, <2>3, <3>1 DEF Reached, Made, Holds
  <2>5. MadeAt(5, m + 1)'
    BY <1>4, <2>4 DEF MadeAt, To8At
  <2>6. m \in 1..(Len(Steps(5)) - 1)
    BY <1>2, <1>4, Inner
  <2>. QED  BY <1>1, <1>2, <2>3, <2>5, <2>6, Proceed
<1>5. CASE m = 2
  <2>1. Made(7, disk.tables, {"items", "itemsets"}) /\ Statement = Create("backup")
    BY <1>2, <1>5, To8Steps DEF To8At, Clean
  <2>2. Reached(7, disk.tables \union {"backup"}, {"items", "itemsets"} \ {"backup"})
    BY <1>1, <1>3, <2>1, MadeCreate
  <2>3. Made(7, (disk.tables \union {"backup"}), {"items", "itemsets"})'
    <3>1. disk' = disk /\ Kept' = Kept
      BY <2>2, ExecuteFrame DEF Reached, Kept
    <3>. QED  BY <1>1, <2>2, <3>1 DEF Reached, Made, Holds
  <2>4. MadeAt(5, m + 1)'
    BY <1>5, <2>3 DEF MadeAt, To8At
  <2>5. m \in 1..(Len(Steps(5)) - 1)
    BY <1>2, <1>5, Inner
  <2>. QED  BY <1>1, <1>2, <2>2, <2>4, <2>5, Proceed
<1>6. CASE m = 3
  <2>1. /\ Made(7, (disk.tables \union {"backup"}), {"items", "itemsets"})
        /\ Statement = Copy("items", "backup")
    BY <1>2, <1>6, To8Steps DEF To8At, Clean
  <2>2. Reached(7, (disk.tables \union {"backup"}), {"items", "itemsets"} \union {"backup"})
    BY <1>1, <1>3, <2>1, MadeCopy
  <2>3. Made(7, (disk.tables \union {"backup"}), {"items", "itemsets", "backup"})'
    <3>1. disk' = disk /\ Kept' = Kept
      BY <2>2, ExecuteFrame DEF Reached, Kept
    <3>. QED  BY <1>1, <2>2, <3>1 DEF Reached, Made, Holds
  <2>4. MadeAt(5, m + 1)'
    BY <1>6, <2>3 DEF MadeAt, To8At
  <2>5. m \in 1..(Len(Steps(5)) - 1)
    BY <1>2, <1>6, Inner
  <2>. QED  BY <1>1, <1>2, <2>2, <2>4, <2>5, Proceed
<1>7. CASE m = 4
  <2>1. /\ Made(7, (disk.tables \union {"backup"}), {"items", "itemsets", "backup"})
        /\ Statement = Drop("items")
    BY <1>2, <1>7, To8Steps DEF To8At, Clean
  <2>2. Reached(7, (disk.tables \union {"backup"}) \ {"items"},
                {"items", "itemsets", "backup"} \ {"items"})
    BY <1>1, <1>3, <2>1, MadeDrop
  <2>3. Made(7, (disk.tables \union {"backup"}) \ {"items"}, {"itemsets", "backup"})'
    <3>1. disk' = disk /\ Kept' = Kept
      BY <2>2, ExecuteFrame DEF Reached, Kept
    <3>. QED  BY <1>1, <2>2, <3>1 DEF Reached, Made, Holds
  <2>4. MadeAt(5, m + 1)'
    BY <1>7, <2>3 DEF MadeAt, To8At
  <2>5. m \in 1..(Len(Steps(5)) - 1)
    BY <1>2, <1>7, Inner
  <2>. QED  BY <1>1, <1>2, <2>2, <2>4, <2>5, Proceed
<1>8. CASE m = 5
  <2>1. /\ Made(7, (disk.tables \union {"backup"}) \ {"items"}, {"itemsets", "backup"})
        /\ Statement = Create("items")
    BY <1>2, <1>8, To8Steps DEF To8At, Clean
  <2>2. Reached(7, ((disk.tables \union {"backup"}) \ {"items"}) \union {"items"},
                {"itemsets", "backup"} \ {"items"})
    BY <1>1, <1>3, <2>1, MadeCreate
  <2>3. Made(7, (disk.tables \union {"backup"}), {"itemsets", "backup"})'
    <3>1. disk' = disk /\ Kept' = Kept
      BY <2>2, ExecuteFrame DEF Reached, Kept
    <3>. QED  BY <1>1, <2>2, <3>1 DEF Reached, Made, Holds
  <2>4. MadeAt(5, m + 1)'
    BY <1>8, <2>3 DEF MadeAt, To8At
  <2>5. m \in 1..(Len(Steps(5)) - 1)
    BY <1>2, <1>8, Inner
  <2>. QED  BY <1>1, <1>2, <2>2, <2>4, <2>5, Proceed
<1>9. CASE m = 6
  <2>1. /\ Made(7, (disk.tables \union {"backup"}), {"itemsets", "backup"})
        /\ Statement = Sql("join")
    BY <1>2, <1>9, To8Steps DEF To8At, Clean
  <2>2. Reached(7, (disk.tables \union {"backup"}), {"itemsets", "backup"} \union {"items"})
    BY <1>1, <1>3, <2>1, MadeJoin
  <2>3. Made(7, (disk.tables \union {"backup"}), {"items", "itemsets", "backup"})'
    <3>1. disk' = disk /\ Kept' = Kept
      BY <2>2, ExecuteFrame DEF Reached, Kept
    <3>. QED  BY <1>1, <2>2, <3>1 DEF Reached, Made, Holds
  <2>4. MadeAt(5, m + 1)'
    BY <1>9, <2>3 DEF MadeAt, To8At
  <2>5. m \in 1..(Len(Steps(5)) - 1)
    BY <1>2, <1>9, Inner
  <2>. QED  BY <1>1, <1>2, <2>2, <2>4, <2>5, Proceed
<1>10. CASE m = 7
  <2>1. /\ Made(7, (disk.tables \union {"backup"}), {"items", "itemsets", "backup"})
        /\ Statement = Drop("backup")
    BY <1>2, <1>10, To8Steps DEF To8At, Clean
  <2>2. Reached(7, (disk.tables \union {"backup"}) \ {"backup"},
                {"items", "itemsets", "backup"} \ {"backup"})
    BY <1>1, <1>3, <2>1, MadeDrop
  <2>3. Made(7, disk.tables, {"items", "itemsets"})'
    <3>1. disk' = disk /\ Kept' = Kept
      BY <2>2, ExecuteFrame DEF Reached, Kept
    <3>. QED  BY <1>1, <2>2, <3>1 DEF Reached, Made, Holds
  <2>4. MadeAt(5, m + 1)'
    BY <1>10, <2>3 DEF MadeAt, To8At
  <2>5. m \in 1..(Len(Steps(5)) - 1)
    BY <1>2, <1>10, Inner
  <2>. QED  BY <1>1, <1>2, <2>2, <2>4, <2>5, Proceed
<1>11. CASE m = 8
  <2>1. Made(7, disk.tables, {"items", "itemsets"}) /\ Statement = Drop("itemsets")
    BY <1>2, <1>11, To8Steps DEF To8At, Clean
  <2>2. Reached(7, disk.tables \ {"itemsets"}, {"items", "itemsets"} \ {"itemsets"})
    BY <1>1, <1>3, <2>1, MadeDrop
  <2>3. Made(7, disk.tables \ {"itemsets"}, {"items"})'
    <3>1. disk' = disk /\ Kept' = Kept
      BY <2>2, ExecuteFrame DEF Reached, Kept
    <3>. QED  BY <1>1, <2>2, <3>1 DEF Reached, Made, Holds
  <2>4. MadeAt(5, m + 1)'
    BY <1>11, <2>3 DEF MadeAt, To8At
  <2>5. m \in 1..(Len(Steps(5)) - 1)
    BY <1>2, <1>11, Inner
  <2>. QED  BY <1>1, <1>2, <2>2, <2>4, <2>5, Proceed
<1>12. CASE m = 9
  <2>1. Made(7, disk.tables \ {"itemsets"}, {"items"}) /\ Statement = Version(8)
    BY <1>2, <1>12, To8Steps DEF To8At, Clean
  <2>2. Reached(8, disk.tables \ {"itemsets"}, {"items"})
    BY <1>1, <1>3, <2>1, MadeVersion DEF EveryVersion, Target
  <2>3. Made(8, disk.tables \ {"itemsets"}, {"items"})'
    <3>1. disk' = disk /\ Kept' = Kept
      BY <2>2, ExecuteFrame DEF Reached, Kept
    <3>. QED  BY <1>1, <2>2, <3>1 DEF Reached, Made, Holds
  <2>4. MadeAt(5, m + 1)'
    BY <1>12, <2>3 DEF MadeAt, To8At
  <2>5. m \in 1..(Len(Steps(5)) - 1)
    BY <1>2, <1>12, Inner
  <2>. QED  BY <1>1, <1>2, <2>2, <2>4, <2>5, Proceed
<1>13. CASE m = 10
  <2>1. Made(8, disk.tables \ {"itemsets"}, {"items"}) /\ Statement = End
    BY <1>2, <1>13, To8Steps DEF To8At, Clean
  <2>2. execs' = Rest /\ ~open' /\ work' = work /\ disk' = work
    BY <2>1, RunEnd
  <2>3. execs' \in Seq(Single(Small))
    BY <1>2, <1>13, <2>2, Advance
  <2>4. Sound(work)
    <3>1. work.version = 8 /\ work.tables = disk.tables \ {"itemsets"}
      BY <2>1 DEF Made
    <3>2. Shaped(work)
      BY <1>1, <3>1 DEF Shaped, Present, Missing
    <3>3. Holds(work, {"items"} \union IF work.version \in 5..7 THEN {"itemsets"} ELSE {})
      BY <1>1, <2>1, <3>1 DEF Made, Holds
    <3>. QED  BY <1>1, <3>2, <3>3 DEF Sound
  <2>5. work.version \in Floor[5]..Target
    BY <1>1, <2>1 DEF Made, Floor, Target
  <2>. QED  BY <1>1, <2>2, <2>3, <2>4, <2>5, Commit
<1>. QED  BY <1>2, <1>4, <1>5, <1>6, <1>7, <1>8, <1>9, <1>10, <1>11, <1>12, <1>13

LEMMA To9Step ==
    ASSUME IInv, Execute, Block = 6, disk.version \in DbInit[6].versions,
           NEW m, Position(Steps(6), m), To9At(m)
    PROVE  IInv'
<1>1. /\ disk.version = 8 /\ {"items", "view_state", "update_state"} \subseteq disk.tables
      /\ {"search_folder_items", "items_new"} \intersect disk.tables = {}
      /\ Kept \subseteq disk.rows["items"]
      /\ WellFormed(work) /\ work.nodes = disk.nodes
      /\ articles \intersect Comments = {}
  BY To9Steps DEF IInv, Sound, Shaped, Present, Missing, Holds
<1>2. /\ Steps(6) \in Seq(Elements(Steps(6))) /\ Len(Steps(6)) = 6
      /\ Statement = Steps(6)[m] /\ m \in 1..6
      /\ 6 \in 2..8
  BY To9Steps, Advance, Inner DEF Position
<1>3. {"items", "view_state", "update_state", "search_folder_items"} \subseteq TableNames
  BY DEF TableNames
<1>4. CASE m = 1
  <2>1. Clean /\ Statement = Begin
    BY <1>2, <1>4, To9Steps DEF To9At, Made
  <2>2. Holds(disk, {"items"})
    BY <1>1 DEF Holds
  <2>3. Reached(disk.version, disk.tables, {"items"})
    BY <2>1, <2>2, Opened
  <2>4. Made(8, disk.tables, {"items"})'
    <3>1. disk' = disk /\ Kept' = Kept
      BY <2>3, ExecuteFrame DEF Reached, Kept
    <3>. QED  BY <1>1, <2>3, <3>1 DEF Reached, Made, Holds
  <2>5. MadeAt(6, m + 1)'
    BY <1>4, <2>4 DEF MadeAt, To9At
  <2>6. m \in 1..(Len(Steps(6)) - 1)
    BY <1>2, <1>4, Inner
  <2>. QED  BY <1>1, <1>2, <2>3, <2>5, <2>6, Proceed
<1>5. CASE m = 2
  <2>1. Made(8, disk.tables, {"items"}) /\ Statement = Drop("view_state")
    BY <1>2, <1>5, To9Steps DEF To9At, Clean
  <2>2. Reached(8, disk.tables \ {"view_state"}, {"items"} \ {"view_state"})
    BY <1>1, <1>3, <2>1, MadeDrop
  <2>3. Made(8, disk.tables \ {"view_state"}, {"items"})'
    <3>1. disk' = disk /\ Kept' = Kept
      BY <2>2, ExecuteFrame DEF Reached, Kept
    <3>. QED  BY <1>1, <2>2, <3>1 DEF Reached, Made, Holds
  <2>4. MadeAt(6, m + 1)'
    BY <1>5, <2>3 DEF MadeAt, To9At
  <2>5. m \in 1..(Len(Steps(6)) - 1)
    BY <1>2, <1>5, Inner
  <2>. QED  BY <1>1, <1>2, <2>2, <2>4, <2>5, Proceed
<1>6. CASE m = 3
  <2>1. Made(8, disk.tables \ {"view_state"}, {"items"}) /\ Statement = Drop("update_state")
    BY <1>2, <1>6, To9Steps DEF To9At, Clean
  <2>2. Reached(8, (disk.tables \ {"view_state"}) \ {"update_state"},
                {"items"} \ {"update_state"})
    BY <1>1, <1>3, <2>1, MadeDrop
  <2>3. Made(8, disk.tables \ {"view_state", "update_state"}, {"items"})'
    <3>1. disk' = disk /\ Kept' = Kept
      BY <2>2, ExecuteFrame DEF Reached, Kept
    <3>. QED  BY <1>1, <2>2, <3>1 DEF Reached, Made, Holds
  <2>4. MadeAt(6, m + 1)'
    BY <1>6, <2>3 DEF MadeAt, To9At
  <2>5. m \in 1..(Len(Steps(6)) - 1)
    BY <1>2, <1>6, Inner
  <2>. QED  BY <1>1, <1>2, <2>2, <2>4, <2>5, Proceed
<1>7. CASE m = 4
  <2>1. /\ Made(8, disk.tables \ {"view_state", "update_state"}, {"items"})
        /\ Statement = Create("search_folder_items")
    BY <1>2, <1>7, To9Steps DEF To9At, Clean
  <2>2. Reached(8, (disk.tables \ {"view_state", "update_state"}) \union {"search_folder_items"},
                {"items"} \ {"search_folder_items"})
    BY <1>1, <1>3, <2>1, MadeCreate
  <2>3. Made(8, (disk.tables \ {"view_state", "update_state"}) \union {"search_folder_items"},
             {"items"})'
    <3>1. disk' = disk /\ Kept' = Kept
      BY <2>2, ExecuteFrame DEF Reached, Kept
    <3>. QED  BY <1>1, <2>2, <3>1 DEF Reached, Made, Holds
  <2>4. MadeAt(6, m + 1)'
    BY <1>7, <2>3 DEF MadeAt, To9At
  <2>5. m \in 1..(Len(Steps(6)) - 1)
    BY <1>2, <1>7, Inner
  <2>. QED  BY <1>1, <1>2, <2>2, <2>4, <2>5, Proceed
<1>8. CASE m = 5
  <2>1. /\ Made(8, (disk.tables \ {"view_state", "update_state"}) \union {"search_folder_items"},
                {"items"})
        /\ Statement = Version(9)
    BY <1>2, <1>8, To9Steps DEF To9At, Clean
  <2>2. Reached(9, (disk.tables \ {"view_state", "update_state"}) \union {"search_folder_items"},
                {"items"})
    BY <1>1, <1>3, <2>1, MadeVersion DEF EveryVersion, Target
  <2>3. Made(9, (disk.tables \ {"view_state", "update_state"}) \union {"search_folder_items"},
             {"items"})'
    <3>1. disk' = disk /\ Kept' = Kept
      BY <2>2, ExecuteFrame DEF Reached, Kept
    <3>. QED  BY <1>1, <2>2, <3>1 DEF Reached, Made, Holds
  <2>4. MadeAt(6, m + 1)'
    BY <1>8, <2>3 DEF MadeAt, To9At
  <2>5. m \in 1..(Len(Steps(6)) - 1)
    BY <1>2, <1>8, Inner
  <2>. QED  BY <1>1, <1>2, <2>2, <2>4, <2>5, Proceed
<1>9. CASE m = 6
  <2>1. /\ Made(9, (disk.tables \ {"view_state", "update_state"}) \union {"search_folder_items"},
                {"items"})
        /\ Statement = End
    BY <1>2, <1>9, To9Steps DEF To9At, Clean
  <2>2. execs' = Rest /\ ~open' /\ work' = work /\ disk' = work
    BY <2>1, RunEnd
  <2>3. execs' \in Seq(Single(Small))
    BY <1>2, <1>9, <2>2, Advance
  <2>4. Sound(work)
    <3>1. work.version = 9 /\ work.tables = (disk.tables \ {"view_state", "update_state"}) \union {"search_folder_items"}
      BY <2>1 DEF Made
    <3>2. Shaped(work)
      BY <1>1, <3>1 DEF Shaped, Present, Missing
    <3>3. Holds(work, {"items"} \union IF work.version \in 5..7 THEN {"itemsets"} ELSE {})
      BY <1>1, <2>1, <3>1 DEF Made, Holds
    <3>. QED  BY <1>1, <3>2, <3>3 DEF Sound
  <2>5. work.version \in Floor[6]..Target
    BY <1>1, <2>1 DEF Made, Floor, Target
  <2>. QED  BY <1>1, <2>2, <2>3, <2>4, <2>5, Commit
<1>. QED  BY <1>2, <1>4, <1>5, <1>6, <1>7, <1>8, <1>9

LEMMA To10Step ==
    ASSUME IInv, Execute, Block = 7, disk.version \in DbInit[7].versions,
           NEW m, Position(Steps(7), m), To10At(m)
    PROVE  IInv'
<1>1. /\ disk.version = 9 /\ {"items", "search_folder_items"} \subseteq disk.tables
      /\ "items_new" \notin disk.tables /\ Kept \subseteq disk.rows["items"]
      /\ WellFormed(work) /\ work.nodes = disk.nodes
      /\ articles \intersect Comments = {}
  BY To10Steps DEF IInv, Sound, Shaped, Present, Missing, Holds
<1>2. /\ Steps(7) \in Seq(Elements(Steps(7))) /\ Len(Steps(7)) = 5
      /\ Statement = Steps(7)[m] /\ m \in 1..5
      /\ 7 \in 2..8
  BY To10Steps, Advance, Inner DEF Position
<1>3. {"items", "search_folder_items"} \subseteq TableNames
  BY DEF TableNames
<1>4. CASE m = 1
  <2>1. Clean /\ Statement = Begin
    BY <1>2, <1>4, To10Steps DEF To10At, Made
  <2>2. Holds(disk, {"items"})
    BY <1>1 DEF Holds
  <2>3. Reached(disk.version, disk.tables, {"items"})
    BY <2>1, <2>2, Opened
  <2>4. Made(9, disk.tables, {"items"})'
    <3>1. disk' = disk /\ Kept' = Kept
      BY <2>3, ExecuteFrame DEF Reached, Kept
    <3>. QED  BY <1>1, <2>3, <3>1 DEF Reached, Made, Holds
  <2>5. MadeAt(7, m + 1)'
    BY <1>4, <2>4 DEF MadeAt, To10At
  <2>6. m \in 1..(Len(Steps(7)) - 1)
    BY <1>2, <1>4, Inner
  <2>. QED  BY <1>1, <1>2, <2>3, <2>5, <2>6, Proceed
<1>5. CASE m = 2
  <2>1. Made(9, disk.tables, {"items"}) /\ Statement = Drop("search_folder_items")
    BY <1>2, <1>5, To10Steps DEF To10At, Clean
  <2>2. Reached(9, disk.tables \ {"search_folder_items"}, {"items"} \ {"search_folder_items"})
    BY <1>1, <1>3, <2>1, MadeDrop
  <2>3. Made(9, disk.tables \ {"search_folder_items"}, {"items"})'
    <3>1. disk' = disk /\ Kept' = Kept
      BY <2>2, ExecuteFrame DEF Reached, Kept
    <3>. QED  BY <1>1, <2>2, <3>1 DEF Reached, Made, Holds
  <2>4. MadeAt(7, m + 1)'
    BY <1>5, <2>3 DEF MadeAt, To10At
  <2>5. m \in 1..(Len(Steps(7)) - 1)
    BY <1>2, <1>5, Inner
  <2>. QED  BY <1>1, <1>2, <2>2, <2>4, <2>5, Proceed
<1>6. CASE m = 3
  <2>1. /\ Made(9, disk.tables \ {"search_folder_items"}, {"items"})
        /\ Statement = Create("search_folder_items")
    BY <1>2, <1>6, To10Steps DEF To10At, Clean
  <2>2. Reached(9, (disk.tables \ {"search_folder_items"}) \union {"search_folder_items"},
                {"items"} \ {"search_folder_items"})
    BY <1>1, <1>3, <2>1, MadeCreate
  <2>3. Made(9, disk.tables, {"items"})'
    <3>1. disk' = disk /\ Kept' = Kept
      BY <2>2, ExecuteFrame DEF Reached, Kept
    <3>. QED  BY <1>1, <2>2, <3>1 DEF Reached, Made, Holds
  <2>4. MadeAt(7, m + 1)'
    BY <1>6, <2>3 DEF MadeAt, To10At
  <2>5. m \in 1..(Len(Steps(7)) - 1)
    BY <1>2, <1>6, Inner
  <2>. QED  BY <1>1, <1>2, <2>2, <2>4, <2>5, Proceed
<1>7. CASE m = 4
  <2>1. Made(9, disk.tables, {"items"}) /\ Statement = Version(10)
    BY <1>2, <1>7, To10Steps DEF To10At, Clean
  <2>2. Reached(10, disk.tables, {"items"})
    BY <1>1, <1>3, <2>1, MadeVersion DEF EveryVersion, Target
  <2>3. Made(10, disk.tables, {"items"})'
    <3>1. disk' = disk /\ Kept' = Kept
      BY <2>2, ExecuteFrame DEF Reached, Kept
    <3>. QED  BY <1>1, <2>2, <3>1 DEF Reached, Made, Holds
  <2>4. MadeAt(7, m + 1)'
    BY <1>7, <2>3 DEF MadeAt, To10At
  <2>5. m \in 1..(Len(Steps(7)) - 1)
    BY <1>2, <1>7, Inner
  <2>. QED  BY <1>1, <1>2, <2>2, <2>4, <2>5, Proceed
<1>8. CASE m = 5
  <2>1. Made(10, disk.tables, {"items"}) /\ Statement = End
    BY <1>2, <1>8, To10Steps DEF To10At, Clean
  <2>2. execs' = Rest /\ ~open' /\ work' = work /\ disk' = work
    BY <2>1, RunEnd
  <2>3. execs' \in Seq(Single(Small))
    BY <1>2, <1>8, <2>2, Advance
  <2>4. Sound(work)
    <3>1. work.version = 10 /\ work.tables = disk.tables
      BY <2>1 DEF Made
    <3>2. Shaped(work)
      BY <1>1, <3>1 DEF Shaped, Present, Missing
    <3>3. Holds(work, {"items"} \union IF work.version \in 5..7 THEN {"itemsets"} ELSE {})
      BY <1>1, <2>1, <3>1 DEF Made, Holds
    <3>. QED  BY <1>1, <3>2, <3>3 DEF Sound
  <2>5. work.version \in Floor[7]..Target
    BY <1>1, <2>1 DEF Made, Floor, Target
  <2>. QED  BY <1>1, <2>2, <2>3, <2>4, <2>5, Commit
<1>. QED  BY <1>2, <1>4, <1>5, <1>6, <1>7, <1>8

LEMMA To11Step ==
    ASSUME IInv, Execute, Block = 8, disk.version \in DbInit[8].versions,
           NEW m, Position(Steps(8), m), To11At(m)
    PROVE  IInv'
<1>1. /\ disk.version = 10 /\ {"items", "search_folder_items"} \subseteq disk.tables
      /\ "items_new" \notin disk.tables /\ Kept \subseteq disk.rows["items"]
      /\ WellFormed(work) /\ work.nodes = disk.nodes
      /\ articles \intersect Comments = {}
  BY To11Steps DEF IInv, Sound, Shaped, Present, Missing, Holds
<1>2. /\ Steps(8) \in Seq(Elements(Steps(8))) /\ Len(Steps(8)) = 7
      /\ Statement = Steps(8)[m] /\ m \in 1..7
      /\ 8 \in 2..8
  BY To11Steps, Advance, Inner DEF Position
<1>3. {"items", "items_new"} \subseteq TableNames
  BY DEF TableNames
<1>4. CASE m = 1
  <2>1. Clean /\ Statement = Begin
    BY <1>2, <1>4, To11Steps DEF To11At, Made
  <2>2. Holds(disk, {"items"})
    BY <1>1 DEF Holds
  <2>3. Reached(disk.version, disk.tables, {"items"})
    BY <2>1, <2>2, Opened
  <2>4. Made(10, disk.tables, {"items"})'
    <3>1. disk' = disk /\ Kept' = Kept
      BY <2>3, ExecuteFrame DEF Reached, Kept
    <3>. QED  BY <1>1, <2>3, <3>1 DEF Reached, Made, Holds
  <2>5. MadeAt(8, m + 1)'
    BY <1>4, <2>4 DEF MadeAt, To11At
  <2>6. m \in 1..(Len(Steps(8)) - 1)
    BY <1>2, <1>4, Inner
  <2>. QED  BY <1>1, <1>2, <2>3, <2>5, <2>6, Proceed
<1>5. CASE m = 2
  <2>1. Made(10, disk.tables, {"items"}) /\ Statement = Create("items_new")
    BY <1>2, <1>5, To11Steps DEF To11At, Clean
  <2>2. Reached(10, disk.tables \union {"items_new"}, {"items"} \ {"items_new"})
    BY <1>1, <1>3, <2>1, MadeCreate
  <2>3. Made(10, (disk.tables \union {"items_new"}), {"items"})'
    <3>1. disk' = disk /\ Kept' = Kept
      BY <2>2, ExecuteFrame DEF Reached, Kept
    <3>. QED  BY <1>1, <2>2, <3>1 DEF Reached, Made, Holds
  <2>4. MadeAt(8, m + 1)'
    BY <1>5, <2>3 DEF MadeAt, To11At
  <2>5. m \in 1..(Len(Steps(8)) - 1)
    BY <1>2, <1>5, Inner
  <2>. QED  BY <1>1, <1>2, <2>2, <2>4, <2>5, Proceed
<1>6. CASE m = 3
  <2>1. /\ Made(10, (disk.tables \union {"items_new"}), {"items"})
        /\ Statement = Copy("items", "items_new")
    BY <1>2, <1>6, To11Steps DEF To11At, Clean
  <2>2. Reached(10, (disk.tables \union {"items_new"}), {"items"} \union {"items_new"})
    BY <1>1, <1>3, <2>1, MadeCopy
  <2>3. Made(10, (disk.tables \union {"items_new"}), {"items", "items_new"})'
    <3>1. disk' = disk /\ Kept' = Kept
      BY <2>2, ExecuteFrame DEF Reached, Kept
    <3>. QED  BY <1>1, <2>2, <3>1 DEF Reached, Made, Holds
  <2>4. MadeAt(8, m + 1)'
    BY <1>6, <2>3 DEF MadeAt, To11At
  <2>5. m \in 1..(Len(Steps(8)) - 1)
    BY <1>2, <1>6, Inner
  <2>. QED  BY <1>1, <1>2, <2>2, <2>4, <2>5, Proceed
<1>7. CASE m = 4
  <2>1. /\ Made(10, (disk.tables \union {"items_new"}), {"items", "items_new"})
        /\ Statement = Drop("items")
    BY <1>2, <1>7, To11Steps DEF To11At, Clean
  <2>2. Reached(10, (disk.tables \union {"items_new"}) \ {"items"},
                {"items", "items_new"} \ {"items"})
    BY <1>1, <1>3, <2>1, MadeDrop
  <2>3. Made(10, (disk.tables \union {"items_new"}) \ {"items"}, {"items_new"})'
    <3>1. disk' = disk /\ Kept' = Kept
      BY <2>2, ExecuteFrame DEF Reached, Kept
    <3>. QED  BY <1>1, <2>2, <3>1 DEF Reached, Made, Holds
  <2>4. MadeAt(8, m + 1)'
    BY <1>7, <2>3 DEF MadeAt, To11At
  <2>5. m \in 1..(Len(Steps(8)) - 1)
    BY <1>2, <1>7, Inner
  <2>. QED  BY <1>1, <1>2, <2>2, <2>4, <2>5, Proceed
<1>8. CASE m = 5
  <2>1. /\ Made(10, (disk.tables \union {"items_new"}) \ {"items"}, {"items_new"})
        /\ Statement = Sql("rename")
    BY <1>2, <1>8, To11Steps DEF To11At, Clean
  <2>2. Reached(10, (((disk.tables \union {"items_new"}) \ {"items"}) \ {"items_new"}) \union {"items"},
                {"items"})
    BY <1>1, <1>3, <2>1, MadeRename
  <2>3. Made(10, disk.tables, {"items"})'
    <3>1. disk' = disk /\ Kept' = Kept
      BY <2>2, ExecuteFrame DEF Reached, Kept
    <3>. QED  BY <1>1, <2>2, <3>1 DEF Reached, Made, Holds
  <2>4. MadeAt(8, m + 1)'
    BY <1>8, <2>3 DEF MadeAt, To11At
  <2>5. m \in 1..(Len(Steps(8)) - 1)
    BY <1>2, <1>8, Inner
  <2>. QED  BY <1>1, <1>2, <2>2, <2>4, <2>5, Proceed
<1>9. CASE m = 6
  <2>1. Made(10, disk.tables, {"items"}) /\ Statement = Version(11)
    BY <1>2, <1>9, To11Steps DEF To11At, Clean
  <2>2. Reached(11, disk.tables, {"items"})
    BY <1>1, <1>3, <2>1, MadeVersion DEF EveryVersion, Target
  <2>3. Made(11, disk.tables, {"items"})'
    <3>1. disk' = disk /\ Kept' = Kept
      BY <2>2, ExecuteFrame DEF Reached, Kept
    <3>. QED  BY <1>1, <2>2, <3>1 DEF Reached, Made, Holds
  <2>4. MadeAt(8, m + 1)'
    BY <1>9, <2>3 DEF MadeAt, To11At
  <2>5. m \in 1..(Len(Steps(8)) - 1)
    BY <1>2, <1>9, Inner
  <2>. QED  BY <1>1, <1>2, <2>2, <2>4, <2>5, Proceed
<1>10. CASE m = 7
  <2>1. Made(11, disk.tables, {"items"}) /\ Statement = End
    BY <1>2, <1>10, To11Steps DEF To11At, Clean
  <2>2. execs' = Rest /\ ~open' /\ work' = work /\ disk' = work
    BY <2>1, RunEnd
  <2>3. execs' \in Seq(Single(Small))
    BY <1>2, <1>10, <2>2, Advance
  <2>4. Sound(work)
    <3>1. work.version = 11 /\ work.tables = disk.tables
      BY <2>1 DEF Made
    <3>2. Shaped(work)
      BY <1>1, <3>1 DEF Shaped, Present, Missing
    <3>3. Holds(work, {"items"} \union IF work.version \in 5..7 THEN {"itemsets"} ELSE {})
      BY <1>1, <2>1, <3>1 DEF Made, Holds
    <3>. QED  BY <1>1, <3>2, <3>3 DEF Sound
  <2>5. work.version \in Floor[8]..Target
    BY <1>1, <2>1 DEF Made, Floor, Target
  <2>. QED  BY <1>1, <2>2, <2>3, <2>4, <2>5, Commit
<1>. QED  BY <1>2, <1>4, <1>5, <1>6, <1>7, <1>8, <1>9, <1>10

LEMMA WiderVersions ==
    ASSUME NEW b \in {3, 4}, NEW v, v = b + 2
    PROVE  /\ v \in {5, 6} /\ v \in 5..7 /\ v + 1 \in {6, 7} /\ v + 1 \in 5..7
           /\ v + 1 \in EveryVersion /\ v + 1 \in Floor[b]..Target
  BY DEF EveryVersion, Target, Floor

LEMMA WiderMade ==
    ASSUME NEW b \in {3, 4}, NEW m
    PROVE  (MadeAt(b, m) <=> WiderAt(m)) /\ (MadeAt(b, m)' <=> WiderAt(m)')
<1>1. MadeAt(b, m) = WiderAt(m) /\ MadeAt(b, m)' = WiderAt(m)'
  <2>1. CASE b = 3
    BY <2>1 DEF MadeAt
  <2>2. CASE b = 4
    BY <2>2 DEF MadeAt
  <2>. QED  BY <2>1, <2>2
<1>. QED  BY <1>1

LEMMA WiderStep ==
    ASSUME IInv, Execute, NEW b \in {3, 4}, Block = b, disk.version \in DbInit[b].versions,
           NEW m, Position(Steps(b), m), WiderAt(m)
    PROVE  IInv' /\ (Migrating' \/ ~open')
<1>0. /\ b \in {3, 4} /\ disk.version = b + 2
      /\ disk.version \in {5, 6} /\ disk.version \in 5..7
      /\ disk.version + 1 \in {6, 7} /\ disk.version + 1 \in 5..7
      /\ disk.version + 1 \in EveryVersion /\ disk.version + 1 \in Floor[b]..Target
  <2>1. disk.version = b + 2
    BY WiderSteps
  <2>. QED  BY <2>1, WiderVersions
<1>1. /\ disk.version \in {5, 6} /\ disk.version \in 5..7
      /\ {"items", "itemsets", "view_state", "update_state"} \subseteq disk.tables
      /\ {"backup", "search_folder_items", "items_new"} \intersect disk.tables = {}
      /\ \A t \in {"items", "itemsets"} : Kept \subseteq disk.rows[t]
      /\ WellFormed(work) /\ work.nodes = disk.nodes
      /\ articles \intersect Comments = {}
  BY <1>0 DEF IInv, Sound, Shaped, Present, Missing, Holds
<1>2. /\ Steps(b) \in Seq(Elements(Steps(b))) /\ Len(Steps(b)) = 10
      /\ Statement = Steps(b)[m] /\ m \in 1..10
      /\ b \in 2..8
  BY WiderSteps, Advance, Inner DEF Position
<1>3. {"items", "itemsets", "backup"} \subseteq TableNames
  BY DEF TableNames
<1>s. /\ Steps(b)[1] = Begin /\ Steps(b)[2] = Sql("comments of itemsets")
      /\ Steps(b)[3] = Create("backup") /\ Steps(b)[4] = Copy("itemsets", "backup")
      /\ Steps(b)[5] = Drop("itemsets") /\ Steps(b)[6] = Create("itemsets")
      /\ Steps(b)[7] = Copy("backup", "itemsets") /\ Steps(b)[8] = Drop("backup")
      /\ Steps(b)[9] = Version(disk.version + 1) /\ Steps(b)[10] = End
  BY <1>0, WiderSteps
<1>4. CASE m = 1
  <2>1. Clean /\ Statement = Begin
    <3>1. Clean
      BY <1>4 DEF WiderAt
    <3>. QED  BY <1>2, <1>4, <1>s, <3>1
  <2>2. Holds(disk, {"items", "itemsets"})
    BY <1>1 DEF Holds
  <2>3. Reached(disk.version, disk.tables, {"items", "itemsets"})
    BY <2>1, <2>2, Opened
  <2>4. Made(disk.version, disk.tables, {"items", "itemsets"})'
    <3>1. disk' = disk /\ Kept' = Kept
      BY <2>3, ExecuteFrame DEF Reached, Kept
    <3>. QED  BY <1>1, <2>3, <3>1 DEF Reached, Made, Holds
  <2>5. MadeAt(b, m + 1)'
    BY <1>0, <1>4, <2>4, WiderMade DEF WiderAt
  <2>6. m \in 1..(Len(Steps(b)) - 1)
    BY <1>2, <1>4, Inner
  <2>. QED  BY <1>1, <1>2, <2>3, <2>5, <2>6, Proceed
<1>5. CASE m = 2
  <2>1. /\ Made(disk.version, disk.tables, {"items", "itemsets"})
        /\ Statement = Sql("comments of itemsets")
    <3>1. Made(disk.version, disk.tables, {"items", "itemsets"})
      BY <1>5 DEF WiderAt
    <3>. QED  BY <1>2, <1>5, <1>s, <3>1
  <2>2. Reached(disk.version, disk.tables, {"items", "itemsets"})
    BY <1>1, <1>3, <2>1, MadeComments
  <2>3. Made(disk.version, disk.tables, {"items", "itemsets"})'
    <3>1. disk' = disk /\ Kept' = Kept
      BY <2>2, ExecuteFrame DEF Reached, Kept
    <3>. QED  BY <1>1, <2>2, <3>1 DEF Reached, Made, Holds
  <2>4. MadeAt(b, m + 1)'
    BY <1>0, <1>5, <2>3, WiderMade DEF WiderAt
  <2>5. m \in 1..(Len(Steps(b)) - 1)
    BY <1>2, <1>5, Inner
  <2>. QED  BY <1>1, <1>2, <2>2, <2>4, <2>5, Proceed
<1>6. CASE m = 3
  <2>1. Made(disk.version, disk.tables, {"items", "itemsets"}) /\ Statement = Create("backup")
    <3>1. Made(disk.version, disk.tables, {"items", "itemsets"})
      BY <1>6 DEF WiderAt
    <3>. QED  BY <1>2, <1>6, <1>s, <3>1
  <2>2. Reached(disk.version, disk.tables \union {"backup"}, {"items", "itemsets"} \ {"backup"})
    BY <1>1, <1>3, <2>1, MadeCreate
  <2>3. Made(disk.version, (disk.tables \union {"backup"}), {"items", "itemsets"})'
    <3>1. disk' = disk /\ Kept' = Kept
      BY <2>2, ExecuteFrame DEF Reached, Kept
    <3>. QED  BY <1>1, <2>2, <3>1 DEF Reached, Made, Holds
  <2>4. MadeAt(b, m + 1)'
    BY <1>0, <1>6, <2>3, WiderMade DEF WiderAt
  <2>5. m \in 1..(Len(Steps(b)) - 1)
    BY <1>2, <1>6, Inner
  <2>. QED  BY <1>1, <1>2, <2>2, <2>4, <2>5, Proceed
<1>7. CASE m = 4
  <2>1. /\ Made(disk.version, (disk.tables \union {"backup"}), {"items", "itemsets"})
        /\ Statement = Copy("itemsets", "backup")
    <3>1. Made(disk.version, (disk.tables \union {"backup"}), {"items", "itemsets"})
      BY <1>7 DEF WiderAt
    <3>. QED  BY <1>2, <1>7, <1>s, <3>1
  <2>2. Reached(disk.version, (disk.tables \union {"backup"}),
                {"items", "itemsets"} \union {"backup"})
    BY <1>1, <1>3, <2>1, MadeCopy
  <2>3. Made(disk.version, (disk.tables \union {"backup"}), {"items", "itemsets", "backup"})'
    <3>1. disk' = disk /\ Kept' = Kept
      BY <2>2, ExecuteFrame DEF Reached, Kept
    <3>. QED  BY <1>1, <2>2, <3>1 DEF Reached, Made, Holds
  <2>4. MadeAt(b, m + 1)'
    BY <1>0, <1>7, <2>3, WiderMade DEF WiderAt
  <2>5. m \in 1..(Len(Steps(b)) - 1)
    BY <1>2, <1>7, Inner
  <2>. QED  BY <1>1, <1>2, <2>2, <2>4, <2>5, Proceed
<1>8. CASE m = 5
  <2>1. /\ Made(disk.version, (disk.tables \union {"backup"}), {"items", "itemsets", "backup"})
        /\ Statement = Drop("itemsets")
    <3>1. Made(disk.version, (disk.tables \union {"backup"}), {"items", "itemsets", "backup"})
      BY <1>8 DEF WiderAt
    <3>. QED  BY <1>2, <1>8, <1>s, <3>1
  <2>2. Reached(disk.version, (disk.tables \union {"backup"}) \ {"itemsets"},
                {"items", "itemsets", "backup"} \ {"itemsets"})
    BY <1>1, <1>3, <2>1, MadeDrop
  <2>3. Made(disk.version, (disk.tables \union {"backup"}) \ {"itemsets"}, {"items", "backup"})'
    <3>1. disk' = disk /\ Kept' = Kept
      BY <2>2, ExecuteFrame DEF Reached, Kept
    <3>. QED  BY <1>1, <2>2, <3>1 DEF Reached, Made, Holds
  <2>4. MadeAt(b, m + 1)'
    BY <1>0, <1>8, <2>3, WiderMade DEF WiderAt
  <2>5. m \in 1..(Len(Steps(b)) - 1)
    BY <1>2, <1>8, Inner
  <2>. QED  BY <1>1, <1>2, <2>2, <2>4, <2>5, Proceed
<1>9. CASE m = 6
  <2>1. /\ Made(disk.version, (disk.tables \union {"backup"}) \ {"itemsets"},
                {"items", "backup"})
        /\ Statement = Create("itemsets")
    <3>1. Made(disk.version, (disk.tables \union {"backup"}) \ {"itemsets"},
               {"items", "backup"})
      BY <1>9 DEF WiderAt
    <3>. QED  BY <1>2, <1>9, <1>s, <3>1
  <2>2. Reached(disk.version, ((disk.tables \union {"backup"}) \ {"itemsets"}) \union {"itemsets"},
                {"items", "backup"} \ {"itemsets"})
    BY <1>1, <1>3, <2>1, MadeCreate
  <2>3. Made(disk.version, (disk.tables \union {"backup"}), {"items", "backup"})'
    <3>1. disk' = disk /\ Kept' = Kept
      BY <2>2, ExecuteFrame DEF Reached, Kept
    <3>. QED  BY <1>1, <2>2, <3>1 DEF Reached, Made, Holds
  <2>4. MadeAt(b, m + 1)'
    BY <1>0, <1>9, <2>3, WiderMade DEF WiderAt
  <2>5. m \in 1..(Len(Steps(b)) - 1)
    BY <1>2, <1>9, Inner
  <2>. QED  BY <1>1, <1>2, <2>2, <2>4, <2>5, Proceed
<1>10. CASE m = 7
  <2>1. /\ Made(disk.version, (disk.tables \union {"backup"}), {"items", "backup"})
        /\ Statement = Copy("backup", "itemsets")
    <3>1. Made(disk.version, (disk.tables \union {"backup"}), {"items", "backup"})
      BY <1>10 DEF WiderAt
    <3>. QED  BY <1>2, <1>10, <1>s, <3>1
  <2>2. Reached(disk.version, (disk.tables \union {"backup"}),
                {"items", "backup"} \union {"itemsets"})
    BY <1>1, <1>3, <2>1, MadeCopy
  <2>3. Made(disk.version, (disk.tables \union {"backup"}), {"items", "itemsets", "backup"})'
    <3>1. disk' = disk /\ Kept' = Kept
      BY <2>2, ExecuteFrame DEF Reached, Kept
    <3>. QED  BY <1>1, <2>2, <3>1 DEF Reached, Made, Holds
  <2>4. MadeAt(b, m + 1)'
    BY <1>0, <1>10, <2>3, WiderMade DEF WiderAt
  <2>5. m \in 1..(Len(Steps(b)) - 1)
    BY <1>2, <1>10, Inner
  <2>. QED  BY <1>1, <1>2, <2>2, <2>4, <2>5, Proceed
<1>11. CASE m = 8
  <2>1. /\ Made(disk.version, (disk.tables \union {"backup"}), {"items", "itemsets", "backup"})
        /\ Statement = Drop("backup")
    <3>1. Made(disk.version, (disk.tables \union {"backup"}), {"items", "itemsets", "backup"})
      BY <1>11 DEF WiderAt
    <3>. QED  BY <1>2, <1>11, <1>s, <3>1
  <2>2. Reached(disk.version, (disk.tables \union {"backup"}) \ {"backup"},
                {"items", "itemsets", "backup"} \ {"backup"})
    BY <1>1, <1>3, <2>1, MadeDrop
  <2>3. Made(disk.version, disk.tables, {"items", "itemsets"})'
    <3>1. disk' = disk /\ Kept' = Kept
      BY <2>2, ExecuteFrame DEF Reached, Kept
    <3>. QED  BY <1>1, <2>2, <3>1 DEF Reached, Made, Holds
  <2>4. MadeAt(b, m + 1)'
    BY <1>0, <1>11, <2>3, WiderMade DEF WiderAt
  <2>5. m \in 1..(Len(Steps(b)) - 1)
    BY <1>2, <1>11, Inner
  <2>. QED  BY <1>1, <1>2, <2>2, <2>4, <2>5, Proceed
<1>12. CASE m = 9
  <2>1. /\ Made(disk.version, disk.tables, {"items", "itemsets"})
        /\ Statement = Version(disk.version + 1)
    <3>1. Made(disk.version, disk.tables, {"items", "itemsets"})
      BY <1>12 DEF WiderAt
    <3>. QED  BY <1>2, <1>12, <1>s, <3>1
  <2>2. Reached(disk.version + 1, disk.tables, {"items", "itemsets"})
    BY <1>0, <1>1, <1>3, <2>1, MadeVersion
  <2>3. Made(disk.version + 1, disk.tables, {"items", "itemsets"})'
    <3>1. disk' = disk /\ Kept' = Kept
      BY <2>2, ExecuteFrame DEF Reached, Kept
    <3>. QED  BY <1>1, <2>2, <3>1 DEF Reached, Made, Holds
  <2>4. MadeAt(b, m + 1)'
    BY <1>0, <1>12, <2>3, WiderMade DEF WiderAt
  <2>5. m \in 1..(Len(Steps(b)) - 1)
    BY <1>2, <1>12, Inner
  <2>. QED  BY <1>1, <1>2, <2>2, <2>4, <2>5, Proceed
<1>13. CASE m = 10
  <2>1. Made(disk.version + 1, disk.tables, {"items", "itemsets"}) /\ Statement = End
    <3>1. Made(disk.version + 1, disk.tables, {"items", "itemsets"})
      BY <1>13 DEF WiderAt
    <3>. QED  BY <1>2, <1>13, <1>s, <3>1
  <2>2. execs' = Rest /\ ~open' /\ work' = work /\ disk' = work
    BY <2>1, RunEnd
  <2>3. execs' \in Seq(Single(Small))
    BY <1>2, <1>13, <2>2, Advance
  <2>4. Sound(work)
    <3>1. work.version = disk.version + 1 /\ work.tables = disk.tables
      BY <2>1 DEF Made
    <3>2. Shaped(work)
      BY <1>0, <1>1, <3>1 DEF Shaped, Present, Missing
    <3>3. Holds(work, {"items"} \union IF work.version \in 5..7 THEN {"itemsets"} ELSE {})
      BY <1>0, <1>1, <2>1, <3>1 DEF Made, Holds
    <3>. QED  BY <1>1, <3>2, <3>3 DEF Sound
  <2>5. work.version \in Floor[b]..Target
    BY <1>0, <2>1 DEF Made
  <2>. QED  BY <1>1, <2>2, <2>3, <2>4, <2>5, Commit
<1>. QED  BY <1>2, <1>4, <1>5, <1>6, <1>7, <1>8, <1>9, <1>10, <1>11, <1>12, <1>13

\* Any other statement: where db_init() is then, and what is on disk.
LEMMA Onward ==
    ASSUME IInv, Execute, WellFormed(work'), work'.nodes = work.nodes,
           disk' = disk \/ (disk' = work' /\ Sound(work)'), Starting'
    PROVE  IInv'
<1>1. /\ phase' = "starting" /\ articles' = articles
  BY ExecuteFrame
<1>2. disk'.nodes = disk.nodes /\ work'.nodes = disk'.nodes
  BY DEF IInv
<1>3. Sound(disk)'
  <2>1. CASE disk' = disk
    <3>1. Kept' = Kept
      BY <1>1, <2>1 DEF Kept
    <3>. QED  BY <2>1, <3>1 DEF IInv, Sound, Holds
  <2>2. CASE disk' = work' /\ Sound(work)'
    BY <2>2 DEF Sound
  <2>. QED  BY <2>1, <2>2
<1>4. open' \in BOOLEAN
  BY DEF Execute, IInv
<1>. QED  BY <1>1, <1>2, <1>3, <1>4 DEF IInv, FatalVersions

\* The triggers of the old versions: a missing one ends the transaction without a commit.
LEMMA TriggersStep ==
    ASSUME IInv, Execute, Starting, Block = 2, disk.version \in DbInit[2].versions,
           NEW m, Position(Steps(2), m), TriggersAt(m)
    PROVE  IInv'
<1>0. DbInit[2].versions = {5, 6}
  BY Blocks, TriggersSteps
<1>1. /\ disk.version \in {5, 6} /\ disk.version \in 5..7
      /\ \A t \in {"items", "itemsets"} : Kept \subseteq disk.rows[t]
      /\ WellFormed(work) /\ work.nodes = disk.nodes
  BY <1>0 DEF IInv, Sound, Holds
<1>2. /\ Steps(2) \in Seq(Elements(Steps(2))) /\ Len(Steps(2)) = 4
      /\ Statement = Steps(2)[m] /\ Tail(execs) \in Seq(Single(Small))
      /\ 2 \in 2..8
  BY TriggersSteps, Advance, Inner
<1>3. m \in {1, 2, 3, 4}
  BY DEF TriggersAt
<1>4. CASE m = 1
  <2>1. Clean /\ Statement = Begin
    <3>1. Clean
      BY <1>4 DEF TriggersAt
    <3>. QED  BY <1>2, <1>4, <3>1, TriggersSteps
  <2>2. Holds(disk, {"items", "itemsets"})
    BY <1>1 DEF Holds
  <2>3. Reached(disk.version, disk.tables, {"items", "itemsets"})
    BY <2>1, <2>2, Opened
  <2>4. Made(disk.version, disk.tables, {"items", "itemsets"})'
    <3>1. disk' = disk /\ Kept' = Kept
      BY <2>3, ExecuteFrame DEF Reached, Kept
    <3>. QED  BY <2>3, <3>1 DEF Reached, Made, Holds
  <2>5. MadeAt(2, m + 1)'
    BY <1>4, <2>4 DEF MadeAt, TriggersAt
  <2>6. m \in 1..(Len(Steps(2)) - 1)
    BY <1>2, <1>4, Inner
  <2>. QED  BY <1>1, <1>2, <2>3, <2>5, <2>6, Proceed
<1>5. CASE m \in {2, 3}
  <2>1. Made(disk.version, disk.tables, {"items", "itemsets"})
    BY <1>5 DEF TriggersAt
  <2>2. PICK t \in {"item_removal", "item_insert"} : Statement = DropTrigger(t)
    BY <1>2, <1>5, TriggersSteps
  <2>3. CASE Failed
    <3>1. execs' = Tail(execs) /\ work' = work /\ open' = open /\ disk' = disk /\ open
      BY <2>1, <2>3 DEF Failed, Made
    <3>2. work.version = disk.version
      BY <2>1 DEF Made
    <3>3. Block' = Block /\ todo' = todo
      BY ExecuteFrame
    <3>4. StuckVersion'
      BY <1>1, <3>1, <3>2 DEF StuckVersion
    <3>5. execs' \in Seq(Single(Small))
      BY <1>2, <3>1
    <3>6. Stuck'
      BY <1>2, <3>3, <3>4, <3>5 DEF Stuck
    <3>7. Starting'
      BY <3>3, <3>6 DEF Starting
    <3>. QED  BY <1>1, <3>1, <3>7, Onward
  <2>4. CASE Passed /\ Untouched(work', work)
    <3>1. open
      BY <2>1 DEF Made
    <3>2. Reached(disk.version, disk.tables, {"items", "itemsets"})
      BY <2>1, <2>4, <3>1 DEF Passed, Untouched, Kin, Reached, Made, Holds
    <3>3. Made(disk.version, disk.tables, {"items", "itemsets"})'
      <4>1. disk' = disk /\ Kept' = Kept
        BY <3>2, ExecuteFrame DEF Reached, Kept
      <4>. QED  BY <3>2, <4>1 DEF Reached, Made, Holds
    <3>4. MadeAt(2, m + 1)'
      BY <1>5, <3>3 DEF MadeAt, TriggersAt
    <3>5. m \in 1..(Len(Steps(2)) - 1)
      BY <1>2, <1>5, Inner
    <3>. QED  BY <1>1, <1>2, <3>2, <3>4, <3>5, Proceed
  <2>. QED  BY <1>1, <2>2, <2>3, <2>4, RunDropTrigger
<1>6. CASE m = 4
  <2>1. Made(disk.version, disk.tables, {"items", "itemsets"}) /\ Statement = End
    <3>1. Made(disk.version, disk.tables, {"items", "itemsets"})
      BY <1>6 DEF TriggersAt
    <3>. QED  BY <1>2, <1>6, <3>1, TriggersSteps
  <2>2. execs' = Rest /\ ~open' /\ work' = work /\ disk' = work
    BY <2>1, RunEnd
  <2>3. execs' \in Seq(Single(Small))
    BY <1>2, <1>6, <2>2, Advance
  <2>4. Sound(work)
    <3>1. work.version = disk.version /\ work.tables = disk.tables
      BY <2>1 DEF Made
    <3>2. Shaped(work)
      BY <1>1, <3>1 DEF IInv, Sound, Shaped, Present, Missing
    <3>3. Holds(work, {"items"} \union IF work.version \in 5..7 THEN {"itemsets"} ELSE {})
      BY <1>1, <2>1, <3>1 DEF Made, Holds
    <3>. QED  BY <1>1, <3>2, <3>3 DEF Sound
  <2>5. work.version \in Floor[2]..Target
    BY <1>1, <2>1 DEF Made, Floor, Target
  <2>6. Block \in 2..8
    BY <1>2
  <2>. QED  BY <2>2, <2>3, <2>4, <2>5, <2>6, Commit
<1>. QED  BY <1>3, <1>4, <1>5, <1>6

-----------------------------------------------------------------------------
(***************************************************************************)
(* Outside of the transactions.                                            *)
(***************************************************************************)
Minor(u, w) ==
    /\ Kin(u, w)
    /\ u.tables \subseteq w.tables /\ w.tables \ {"attention_stats", "views"} \subseteq u.tables
    /\ Elsewhere(u, w, {"attention_stats", "views", "search_folder_items"})

LEMMA SmallStep ==
    ASSUME Execute, WellFormed(work), Statement \in Small
    PROVE  (Failed \/ Passed) /\ Minor(work', work)
<1>1. {"attention_stats", "views", "search_folder_items"} \subseteq TableNames
  BY DEF TableNames
<1>2. Failed => Minor(work', work)
  BY DEF Failed, Minor, Kin, Elsewhere
<1>3. CASE \E t \in {"attention_stats", "views"} : Statement = Drop(t)
  <2>1. PICK t \in {"attention_stats", "views"} : Statement = Drop(t)
    BY <1>3
  <2>2. Failed \/ (Passed /\ Dropped(work', work, t))
    BY <1>1, <2>1, RunDrop
  <2>3. Dropped(work', work, t) => Minor(work', work)
    BY <2>1 DEF Dropped, Minor, Elsewhere
  <2>. QED  BY <1>2, <2>2, <2>3
<1>4. CASE Statement = Copy("views", "search_folder_items")
  <2>1. Failed \/ (Passed /\ Copied(work', work, "views", "search_folder_items"))
    BY <1>1, <1>4, RunCopy
  <2>2. Copied(work', work, "views", "search_folder_items") => Minor(work', work)
    BY DEF Copied, Refilled, Minor, Elsewhere
  <2>. QED  BY <1>2, <2>1, <2>2
<1>5. CASE Statement = Sql("rebuild")
  <2>1. Untouched(work', work) => Minor(work', work)
    BY DEF Untouched, Minor, Elsewhere
  <2>. QED  BY <1>2, <1>5, <2>1, RunRebuild
<1>. QED  BY <1>3, <1>4, <1>5 DEF Small

LEMMA SoundMinor ==
    ASSUME Sound(work), Minor(work', work), Kept' = Kept
    PROVE  Sound(work)'
<1>1. WellFormed(work') /\ work'.version = work.version
  BY DEF Minor, Kin
<1>2. Present(work.version) \subseteq work.tables /\ Missing(work.version) \intersect work.tables = {}
  BY DEF Sound, Shaped
<1>3. {"attention_stats", "views"} \intersect Present(work.version) = {}
  BY DEF Present
<1>4. {"items", "itemsets"} \subseteq TableNames \ {"attention_stats", "views", "search_folder_items"}
  BY DEF TableNames
<1>5. work'.rows["items"] = work.rows["items"] /\ work'.rows["itemsets"] = work.rows["itemsets"]
  BY <1>4 DEF Minor, Elsewhere
<1>6. "items" \in work'.tables <=> "items" \in work.tables
  BY DEF Minor
<1>7. Shaped(work')
  <2>1. Present(work'.version) \subseteq work'.tables
    BY <1>1, <1>2, <1>3 DEF Minor
  <2>2. Missing(work'.version) \intersect work'.tables = {}
    BY <1>1, <1>2 DEF Minor
  <2>3. "items" \notin work'.tables => work'.rows["items"] = {}
    BY <1>5, <1>6 DEF Sound, Shaped
  <2>. QED  BY <2>1, <2>2, <2>3 DEF Shaped
<1>8. Holds(work, {"items"} \union IF work.version \in 5..7 THEN {"itemsets"} ELSE {})'
  BY <1>1, <1>5 DEF Sound, Holds
<1>. QED  BY <1>1, <1>7, <1>8 DEF Sound

LEMMA BetweenStep ==
    ASSUME IInv, Execute, Starting, Between
    PROVE  IInv'
<1>1. /\ Block \in 0..8 /\ Block # 1 /\ work = disk /\ ~open /\ execs \in Seq(Single(Small))
      /\ execs # <<>> /\ (Block > 0 => disk.version >= Floor[Block])
      /\ WellFormed(work) /\ Sound(work)
  BY ExecuteFrame DEF Between, Clean, IInv
<1>2. /\ Statement \in Small /\ Tail(execs) \in Seq(Single(Small)) /\ Rest = Tail(execs)
  BY <1>1, OneByOne
<1>3. (Failed \/ Passed) /\ Minor(work', work)
  BY <1>1, <1>2, SmallStep
<1>4. /\ execs' = Tail(execs) /\ open' = open /\ disk' = work'
  <2>1. CASE Failed
    BY <1>1, <2>1 DEF Failed
  <2>2. CASE Passed
    BY <1>1, <1>2, <2>2 DEF Passed
  <2>. QED  BY <1>3, <2>1, <2>2
<1>5. /\ WellFormed(work') /\ work'.nodes = work.nodes /\ work'.version = work.version
  BY <1>3 DEF Minor, Kin
<1>6. Block' = Block /\ todo' = todo /\ articles' = articles
  BY ExecuteFrame
<1>7. Kept' = Kept
  BY <1>1, <1>4, <1>5, <1>6 DEF Kept
<1>8. Sound(work)'
  BY <1>1, <1>3, <1>7, SoundMinor
<1>9. Between'
  BY <1>1, <1>2, <1>4, <1>5, <1>6 DEF Between, Clean
<1>10. Starting'
  BY <1>6, <1>9 DEF Starting
<1>. QED  BY <1>4, <1>5, <1>8, <1>10, Onward

LEMMA StuckStep ==
    ASSUME IInv, Execute, Starting, Stuck
    PROVE  IInv'
<1>1. StuckVersion /\ WellFormed(work) /\ Block \in 2..8 /\ execs # <<>> /\ open
  BY ExecuteFrame DEF Stuck, StuckVersion, IInv
<1>2. Block' = Block /\ todo' = todo
  BY ExecuteFrame
<1>3. ASSUME execs' \in Seq(Single(Small)), open', disk' = disk, Kin(work', work)
      PROVE  IInv'
  <2>1. StuckVersion'
    BY <1>1, <1>3 DEF StuckVersion, Kin
  <2>2. Stuck'
    BY <1>1, <1>2, <1>3, <2>1 DEF Stuck
  <2>3. Starting'
    BY <1>2, <2>2 DEF Starting
  <2>. QED  BY <1>3, <2>3, Onward DEF Kin
<1>4. CASE execs \in Seq(Single(Small))
  <2>1. /\ Statement \in Small /\ Tail(execs) \in Seq(Single(Small)) /\ Rest = Tail(execs)
    BY <1>1, <1>4, OneByOne
  <2>2. (Failed \/ Passed) /\ Minor(work', work)
    BY <1>1, <2>1, SmallStep
  <2>3. /\ execs' = Tail(execs) /\ open' = open /\ disk' = disk
    <3>1. CASE Failed
      BY <1>1, <3>1 DEF Failed
    <3>2. CASE Passed
      BY <1>1, <2>1, <3>2 DEF Passed
    <3>. QED  BY <2>2, <3>1, <3>2
  <2>. QED  BY <1>1, <1>3, <2>1, <2>2, <2>3 DEF Minor
<1>5. CASE Block \in {3, 4} /\ execs = <<Steps(Block)>>
  <2>1. PICK b \in {3, 4} : Block = b
    BY <1>5
  <2>2. /\ Steps(b) \in Seq(Elements(Steps(b))) /\ Len(Steps(b)) = 10 /\ Steps(b)[1] = Begin
    BY WiderSteps
  <2>3. Head(Steps(b)) = Begin
    <3>. DEFINE s == Steps(b)
    <3>1. s \in Seq(Elements(s)) /\ Len(s) = 10 /\ s[1] = Begin
      BY <2>2
    <3>. HIDE DEF s
    <3>2. Head(s) = Begin
      BY <3>1
    <3>. QED  BY <3>2 DEF s
  <2>4. Head(execs) = Steps(b) /\ Tail(execs) = <<>>
    BY <1>5, <2>1
  <2>5. Failed
    BY <1>1, <2>3, <2>4, RunBegin DEF Statement
  <2>6. execs' = <<>> /\ open' /\ disk' = disk /\ work' = work
    BY <1>1, <2>4, <2>5 DEF Failed
  <2>7. <<>> \in Seq(Single(Small))
    OBVIOUS
  <2>. QED  BY <1>1, <1>3, <2>6, <2>7 DEF Kin
<1>. QED  BY <1>4, <1>5 DEF Stuck

LEMMA OpFields ==
    /\ Begin.op = "begin" /\ End.op = "end"
    /\ \A t : Create(t).op = "create" /\ Drop(t).op = "drop" /\ Version(t).op = "version"
    /\ \A t : DropTrigger(t).op = "drop trigger" /\ CreateTrigger(t).op = "create trigger"
    /\ \A of, t : Copy(of, t).op = "copy"
    /\ \A op : Sql(op).op = op
BY DEF Begin, End, Create, Drop, Version, DropTrigger, CreateTrigger, Copy, Sql

\* Where the block that numbers a new file is, and what is left of it then.
LEMMA FilePlaces ==
    /\ execs = Opening => /\ Statement = Create("info") /\ Rest = Numbering
                          /\ Tail(execs) = Adopting
    /\ execs = Numbering => /\ Statement = Version(-1) /\ Rest = Adopting
                            /\ Tail(execs) = Adopting
    /\ execs = Adopting => /\ Statement = Sql("adopt") /\ Rest = Judging
                           /\ Tail(execs) = Judging
    /\ execs = Judging => Statement = Sql("check") /\ Rest = <<>>
<1>. DEFINE c == Create("info")
            v == Version(-1)
            a == Sql("adopt")
            k == Sql("check")
<1>1. /\ Opening = <<<<c, v>>, <<a>>, <<k>>>> /\ Numbering = <<<<v>>, <<a>>, <<k>>>>
      /\ Adopting = <<<<a>>, <<k>>>> /\ Judging = <<<<k>>>>
  BY DEF Opening, Numbering, Adopting, Judging
<1>. HIDE DEF c, v, a, k
<1>2. \A x : Head(<<x>>) = x /\ Tail(<<x>>) = <<>>
  OBVIOUS
<1>3. ASSUME execs = Opening
      PROVE  Statement = c /\ Rest = Numbering /\ Tail(execs) = Adopting
  <2>1. Head(execs) = <<c, v>> /\ Tail(execs) = <<<<a>>, <<k>>>>
    BY <1>1, <1>3
  <2>2. Head(<<c, v>>) = c /\ Tail(<<c, v>>) = <<v>> /\ <<v>> # <<>>
    OBVIOUS
  <2>3. <<<<v>>>> \o <<<<a>>, <<k>>>> = <<<<v>>, <<a>>, <<k>>>>
    <3>. DEFINE x == <<v>>
                y == <<a>>
                z == <<k>>
    <3>. HIDE DEF x, y, z
    <3>1. <<x>> \o <<y, z>> = <<x, y, z>>
      <4>. DEFINE T == {x, y, z}
                  u == <<x>> \o <<y, z>>
                  w == <<x, y, z>>
      <4>1. <<x>> \in Seq(T) /\ <<y, z>> \in Seq(T) /\ <<x, y, z>> \in Seq(T)
        OBVIOUS
      <4>2. u \in Seq(T) /\ Len(u) = 3 /\ u[1] = x /\ u[2] = y /\ u[3] = z
        BY <4>1
      <4>3. Len(w) = 3 /\ w \in Seq(T) /\ w[1] = x /\ w[2] = y /\ w[3] = z
        BY <4>1
      <4>. HIDE DEF u, w
      <4>4. u = w
        BY <4>2, <4>3
      <4>. QED  BY <4>4 DEF u, w
    <3>. QED  BY <3>1 DEF x, y, z
  <2>4. Statement = c /\ Rest = Numbering
    BY <1>1, <2>1, <2>2, <2>3 DEF Statement, Rest
  <2>. QED  BY <1>1, <1>3, <2>1, <2>4
<1>4. ASSUME execs = Numbering
      PROVE  Statement = v /\ Rest = Adopting /\ Tail(execs) = Adopting
  <2>1. Head(execs) = <<v>> /\ Tail(execs) = <<<<a>>, <<k>>>>
    BY <1>1, <1>4
  <2>2. Statement = v /\ Rest = Adopting
    BY <1>1, <1>2, <2>1 DEF Statement, Rest
  <2>. QED  BY <1>1, <1>4, <2>1, <2>2
<1>5. ASSUME execs = Adopting
      PROVE  Statement = a /\ Rest = Judging /\ Tail(execs) = Judging
  <2>1. Head(execs) = <<a>> /\ Tail(execs) = <<<<k>>>>
    BY <1>1, <1>5
  <2>2. Statement = a /\ Rest = Judging
    BY <1>1, <1>2, <2>1 DEF Statement, Rest
  <2>. QED  BY <1>1, <1>5, <2>1, <2>2
<1>6. ASSUME execs = Judging PROVE Statement = k /\ Rest = <<>>
  <2>1. Head(execs) = <<k>> /\ Tail(execs) = <<>>
    BY <1>1, <1>6
  <2>2. Statement = k /\ Rest = <<>>
    BY <1>2, <2>1 DEF Statement, Rest
  <2>. QED  BY <1>6, <2>2
<1>. QED  BY <1>3, <1>4, <1>5, <1>6 DEF c, v, a, k

LEMMA NewFilePlaces ==
    ASSUME NewFile
    PROVE  \/ execs = Opening /\ Statement = Create("info") /\ Rest = Numbering
              /\ Tail(execs) = Adopting
           \/ execs = Numbering /\ Statement = Version(-1) /\ Rest = Adopting
              /\ Tail(execs) = Adopting
           \/ execs = Adopting /\ Statement = Sql("adopt") /\ Rest = Judging
              /\ Tail(execs) = Judging
           \/ execs = Judging /\ Statement = Sql("check") /\ Rest = <<>>
BY FilePlaces DEF NewFile

\* No other statement is left when the version is judged.
LEMMA FileDistinct ==
    ASSUME execs = Judging
    PROVE  execs # <<>> /\ execs # Opening /\ execs # Numbering /\ execs # Adopting
<1>1. Statement = Sql("check")
  BY FilePlaces
<1>2. /\ Sql("check").op = "check" /\ Sql("adopt").op = "adopt"
      /\ Create("info").op = "create" /\ Version(-1).op = "version"
  BY OpFields
<1>3. execs # <<>>
  BY DEF Judging
<1>. QED  BY <1>1, <1>2, <1>3, FilePlaces

\* A file that is no database yet becomes one of another version that needs no tables.
LEMMA Renumbered ==
    ASSUME IInv, Execute, NewFile, Starting, Block' = Block, todo' = todo, articles' = articles,
           phase' = phase, open' = open, disk' = work', WellFormed(work'),
           work'.nodes = work.nodes, work'.rows["items"] = work.rows["items"],
           "items" \in work'.tables <=> "items" \in work.tables,
           work'.version \notin 5..Target - 1,
           \/ execs' \in {Numbering, Adopting} /\ work'.version \notin 5..Target
           \/ execs' = Judging
    PROVE  IInv'
<1>1. work = disk /\ ~open /\ Block = 1
  BY DEF NewFile, Clean
<1>2. Kept' = Kept
  BY <1>1 DEF Kept
<1>3. Sound(work)'
  <2>1. work'.version \notin 5..10 /\ work'.version \notin 5..7
        /\ work'.version # 8 /\ work'.version \notin 9..10
    BY DEF Target
  <2>2. Shaped(work')
    BY <1>1, <2>1 DEF IInv, Sound, Shaped, Present, Missing
  <2>3. Holds(work, {"items"})'
    BY <1>1, <1>2 DEF IInv, Sound, Holds
  <2>. QED  BY <2>1, <2>2, <2>3 DEF Sound
<1>4. NewFile'
  BY <1>1 DEF NewFile, Clean
<1>5. Starting'
  BY <1>4 DEF Starting
<1>. QED  BY <1>1, <1>3, <1>5, Onward

LEMMA NewFileStep ==
    ASSUME IInv, Execute, Starting, NewFile
    PROVE  IInv'
<1>1. /\ Block = 1 /\ work = disk /\ ~open /\ WellFormed(work) /\ Sound(work)
  BY DEF NewFile, Clean, IInv
<1>2. /\ Block' = Block /\ todo' = todo /\ articles' = articles /\ phase' = phase
      /\ Statement.op # "check"
  BY ExecuteFrame
<1>3. {"info", "items"} \subseteq TableNames
  BY DEF TableNames
<1>4. \A n \in {-1, Target} : n \in EveryVersion /\ n \notin 5..Target - 1
  BY DEF EveryVersion, Target
<1>5. CASE execs = Opening /\ Statement = Create("info") /\ Rest = Numbering
           /\ Tail(execs) = Adopting
  <2>1. disk.version \notin 5..Target
    BY <1>5 DEF NewFile, Opening, Judging
  <2>2. CASE Failed
    BY <1>1, <1>2, <1>5, <2>1, <2>2, Renumbered DEF Failed, Target
  <2>3. CASE Passed /\ Created(work', work, "info")
    <3>1. /\ WellFormed(work') /\ work'.version = work.version
          /\ work'.nodes = work.nodes /\ work'.rows["items"] = work.rows["items"]
          /\ work'.tables = work.tables \union {"info"}
      BY <1>3, <2>3 DEF Created, Refilled, Kin, Elsewhere
    <3>2. execs' = Numbering /\ open' = open /\ disk' = work'
      BY <1>1, <1>5, <2>3, OpFields DEF Passed
    <3>. QED  BY <1>1, <1>2, <2>1, <3>1, <3>2, Renumbered DEF Target
  <2>. QED  BY <1>1, <1>3, <1>5, <2>2, <2>3, RunCreate
<1>6. CASE execs = Numbering /\ Statement = Version(-1) /\ Rest = Adopting
  <2>1. Passed /\ Numbered(work', work, -1)
    BY <1>1, <1>4, <1>6, RunVersion
  <2>2. /\ WellFormed(work') /\ work'.version = -1
        /\ work'.nodes = work.nodes /\ work'.rows = work.rows
        /\ work'.tables = work.tables
    BY <2>1 DEF Numbered
  <2>3. execs' = Adopting /\ open' = open /\ disk' = work'
    BY <1>1, <1>6, <2>1, OpFields DEF Passed
  <2>4. work'.version \notin 5..Target
    BY <2>2 DEF Target
  <2>. QED  BY <1>1, <1>2, <1>4, <2>2, <2>3, <2>4, Renumbered
<1>7. CASE execs = Adopting /\ Statement = Sql("adopt") /\ Rest = Judging
  <2>1. disk.version \notin 5..Target
    BY <1>7 DEF NewFile, Adopting, Judging
  <2>2. Passed /\ Numbered(work', work, Adopted(work))
    BY <1>1, <1>7, RunAdopt
  <2>3. execs' = Judging /\ open' = open /\ disk' = work'
    BY <1>1, <1>7, <2>2, OpFields DEF Passed
  <2>4. work'.version \notin 5..Target - 1
    BY <1>1, <2>1, <2>2 DEF Numbered, Adopted, Target
  <2>5. /\ WellFormed(work') /\ work'.nodes = work.nodes /\ work'.rows = work.rows
        /\ work'.tables = work.tables
    BY <2>2 DEF Numbered
  <2>. QED  BY <1>1, <1>2, <2>3, <2>4, <2>5, Renumbered
<1>8. Statement # Sql("check")
  BY <1>2, OpFields
<1>. QED  BY <1>5, <1>6, <1>7, <1>8, NewFilePlaces

\* Nothing that follows the check of the version takes an article.
Settled(u, w) ==
    Sound(u) /\ u.version = w.version /\ u.nodes = w.nodes /\ w.tables \subseteq u.tables

LEMMA Settling ==
    ASSUME Sound(work), work.version = Target, NEW u, Kin(u, work),
           work.tables \subseteq u.tables,
           "items" \notin u.tables => u.rows["items"] = {},
           Kept \subseteq u.rows["items"]
    PROVE  Settled(u, work)
<1>1. WellFormed(u) /\ u.version = Target /\ u.nodes = work.nodes
  BY DEF Kin
<1>2. Shaped(u)
  BY <1>1 DEF Shaped, Present, Missing, Target
<1>3. Holds(u, {"items"} \union IF u.version \in 5..7 THEN {"itemsets"} ELSE {})
  BY <1>1 DEF Holds, Target
<1>. QED  BY <1>1, <1>2, <1>3 DEF Settled, Sound

LEMMA NotCreating ==
    /\ \A t : DropTrigger(t) # Create("items") /\ CreateTrigger(t) # Create("items")
    /\ \A op \in {"metadata without item", "items without node", "folder rows without node",
                 "legacy comments"} : Sql(op) # Create("items")
BY OpFields

LEMMA LateStep ==
    ASSUME Execute, Sound(work), work.version = Target, work.nodes = disk.nodes,
           articles \intersect Comments = {}, Statement \in Late \ {Begin, End}
    PROVE  /\ Failed \/ Passed
           /\ Settled(work', work)
           /\ Statement = Create("items") => "items" \in work'.tables
<1>1. WellFormed(work) /\ ("items" \notin work.tables => work.rows["items"] = {})
  BY DEF Sound, Shaped
<1>2. Kept \subseteq work.rows["items"]
  BY DEF Sound, Holds
<1>3. Failed => Settled(work', work)
  BY <1>1, <1>2, Settling DEF Failed, Kin
<1>4. Untouched(work', work) => Settled(work', work)
  BY <1>1, <1>2, Settling DEF Untouched
<1>5. Cleaned(work', work) => Settled(work', work)
  <2>1. SUFFICES ASSUME Cleaned(work', work) PROVE Settled(work', work)
    OBVIOUS
  <2>2. Kept \subseteq work'.rows["items"]
    BY <1>2, <2>1 DEF Cleaned, Kept
  <2>3. /\ Kin(work', work) /\ work'.tables = work.tables
        /\ work'.rows["items"] \subseteq work.rows["items"]
    BY <2>1 DEF Cleaned
  <2>4. "items" \notin work'.tables => work'.rows["items"] = {}
    BY <1>1, <2>3
  <2>. QED  BY <1>1, <2>2, <2>3, <2>4, Settling
<1>6. ASSUME NEW t \in {"items", "search_folder_items", "update_state"}, Statement = Create(t)
      PROVE  (Failed \/ Passed) /\ Settled(work', work) /\ t \in work'.tables
  <2>1. t \in TableNames
    BY DEF TableNames
  <2>2. IF t \in work.tables THEN Failed ELSE Passed /\ Created(work', work, t)
    BY <1>1, <1>6, <2>1, RunCreate
  <2>3. CASE t \in work.tables
    BY <1>3, <2>2, <2>3 DEF Failed
  <2>4. CASE t \notin work.tables
    <3>1. Passed /\ Created(work', work, t)
      BY <2>2, <2>4
    <3>2. /\ Kin(work', work) /\ work'.tables = work.tables \union {t}
          /\ work'.rows[t] = {} /\ Elsewhere(work', work, {t})
      BY <3>1 DEF Created
    <3>3. "items" \in TableNames
      BY DEF TableNames
    <3>4. work'.rows["items"] = work.rows["items"]
      BY <1>1, <2>4, <3>2, <3>3 DEF Elsewhere
    <3>5. Settled(work', work)
      BY <1>1, <1>2, <3>2, <3>4, Settling
    <3>. QED  BY <3>1, <3>2, <3>5
  <2>. QED  BY <2>3, <2>4
<1>7. CASE \E t \in {"items", "search_folder_items", "update_state"} : Statement = Create(t)
  <2>1. PICK t \in {"items", "search_folder_items", "update_state"} : Statement = Create(t)
    BY <1>7
  <2>2. Statement = Create("items") => t = "items"
    BY <2>1 DEF Create
  <2>. QED  BY <1>6, <2>1, <2>2
<1>8. CASE Statement \in {DropTrigger("item_insert"), DropTrigger("item_removal"),
                          DropTrigger("subscription_removal"),
                          CreateTrigger("item_removal"), CreateTrigger("subscription_removal"),
                          Sql("metadata without item")}
  <2>1. Statement # Create("items")
    BY <1>8, NotCreating
  <2>2. Failed \/ (Passed /\ Untouched(work', work))
    BY <1>1, <1>8, RunDropTrigger, RunCreateTrigger, RunMetadata
  <2>. QED  BY <1>3, <1>4, <2>1, <2>2
<1>9. CASE Statement \in {Sql("items without node"), Sql("folder rows without node"),
                          Sql("legacy comments")}
  <2>1. Statement # Create("items")
    BY <1>9, NotCreating
  <2>2. Failed \/ (Passed /\ Cleaned(work', work))
    BY <1>1, <1>9, RunOrphans, RunFolderRows, RunLegacy
  <2>. QED  BY <1>3, <1>5, <2>1, <2>2
<1>. QED  BY <1>7, <1>8, <1>9 DEF Late

LEMMA FinishingStep ==
    ASSUME IInv, Execute, Starting, Finishing
    PROVE  IInv'
<1>1. /\ Block \in 9..13 /\ disk.version = Target /\ work.version = Target
      /\ Sound(work) /\ (~open => work = disk) /\ WellFormed(work) /\ work.nodes = disk.nodes
      /\ articles \intersect Comments = {} /\ open \in BOOLEAN
  BY DEF Finishing, IInv
<1>2. /\ Statement \in Late /\ execs[1] = <<Statement>>
      /\ Tail(execs) \in Seq(Single(Late)) /\ Rest = Tail(execs)
      /\ Len(execs) \in Nat \ {0} /\ Len(Tail(execs)) = Len(execs) - 1
      /\ \A k \in 1..(Len(execs) - 1) : Tail(execs)[k] = execs[k + 1]
  <2>1. execs \in Seq(Single(Late)) /\ execs # <<>>
    BY ExecuteFrame DEF Finishing
  <2>. QED  BY <2>1, OneByOne
<1>3. Block' = Block /\ todo' = todo /\ articles' = articles
  BY ExecuteFrame
<1>4. /\ execs' = Tail(execs) /\ Settled(work', work)
      /\ disk' = disk \/ disk' = work'
      /\ ~open' => work' = disk'
      /\ Statement = Create("items") => "items" \in work'.tables
  <2>1. Settled(work, work)
    BY <1>1 DEF Settled
  <2>2. CASE Statement = Begin
    <3>1. Statement # Create("items")
      BY <2>2 DEF Begin, Sql, Create
    <3>2. CASE open
      BY <1>1, <2>1, <2>2, <3>1, <3>2, RunBegin DEF Failed
    <3>3. CASE ~open
      BY <1>1, <1>2, <2>1, <2>2, <3>1, <3>3, RunBegin
    <3>. QED  BY <3>2, <3>3
  <2>3. CASE Statement = End
    <3>1. Statement # Create("items")
      BY <2>3 DEF End, Sql, Create
    <3>. QED  BY <1>2, <2>1, <2>3, <3>1, RunEnd
  <2>4. CASE Statement \notin {Begin, End}
    <3>1. /\ Failed \/ Passed
          /\ Settled(work', work)
          /\ Statement = Create("items") => "items" \in work'.tables
      BY <1>1, <1>2, <2>4, LateStep
    <3>2. CASE Failed
      BY <1>1, <3>1, <3>2 DEF Failed
    <3>3. CASE Passed
      BY <1>1, <1>2, <3>1, <3>3 DEF Passed
    <3>. QED  BY <3>1, <3>2, <3>3
  <2>. QED  BY <2>2, <2>3, <2>4
<1>5. /\ work'.nodes = work.nodes /\ work'.version = Target /\ disk'.version = Target
      /\ work.tables \subseteq work'.tables /\ Sound(work') /\ WellFormed(work')
      /\ disk'.nodes = disk.nodes
  BY <1>1, <1>4 DEF Settled, Sound
<1>6. Sound(work)'
  <2>1. Kept' = Kept
    BY <1>3, <1>5 DEF Kept
  <2>. QED  BY <1>5, <2>1 DEF Sound, Holds
<1>7. Creating' \/ "items" \in work'.tables
  <2>1. CASE "items" \in work.tables
    BY <1>5, <2>1
  <2>2. CASE Block = 9
    BY <1>3, <2>2 DEF Creating
  <2>3. CASE Block = 10 /\ \E k \in 1..Len(execs) : execs[k] = <<Create("items")>>
    <3>1. PICK k \in 1..Len(execs) : execs[k] = <<Create("items")>>
      BY <2>3
    <3>2. CASE k = 1
      BY <1>2, <1>4, <3>1, <3>2
    <3>3. CASE k # 1
      <4>1. k - 1 \in 1..(Len(execs) - 1) /\ (k - 1) + 1 = k
        BY <1>2, <3>3
      <4>2. k - 1 \in 1..Len(execs') /\ execs'[k - 1] = <<Create("items")>>
        BY <1>2, <1>4, <3>1, <4>1
      <4>. QED  BY <1>3, <2>3, <4>2 DEF Creating
    <3>. QED  BY <3>2, <3>3
  <2>. QED  BY <2>1, <2>2, <2>3 DEF Finishing, Creating
<1>8. Finishing'
  BY <1>1, <1>2, <1>3, <1>4, <1>5, <1>6, <1>7 DEF Finishing
<1>9. Starting'
  BY <1>3, <1>8 DEF Starting
<1>. QED  BY <1>4, <1>5, <1>6, <1>9, Onward

LEMMA ExecuteStep ==
    ASSUME IInv, Execute
    PROVE  IInv'
<1>1. Starting
  BY ExecuteFrame DEF IInv
<1>2. CASE Migrating
  <2>0. PICK b \in 2..8 : Block = b
    BY <1>2 DEF Migrating
  <2>1. PICK m \in 1..Len(Steps(b)) :
          /\ Block = b /\ disk.version \in DbInit[b].versions
          /\ Position(Steps(b), m) /\ MadeAt(b, m)
    BY <1>2, <2>0 DEF Migrating
  <2>2. CASE b = 2
    <3>1. TriggersAt(m)
      BY <2>1, <2>2 DEF MadeAt
    <3>. QED  BY <1>1, <2>1, <2>2, <3>1, TriggersStep
  <2>3. CASE b \in {3, 4}
    <3>1. WiderAt(m)
      BY <2>1, <2>3, WiderMade
    <3>. QED  BY <2>1, <2>3, <3>1, WiderStep
  <2>4. CASE b = 5
    <3>1. To8At(m)
      BY <2>1, <2>4 DEF MadeAt
    <3>. QED  BY <2>1, <2>4, <3>1, To8Step
  <2>5. CASE b = 6
    <3>1. To9At(m)
      BY <2>1, <2>5 DEF MadeAt
    <3>. QED  BY <2>1, <2>5, <3>1, To9Step
  <2>6. CASE b = 7
    <3>1. To10At(m)
      BY <2>1, <2>6 DEF MadeAt
    <3>. QED  BY <2>1, <2>6, <3>1, To10Step
  <2>7. CASE b = 8
    <3>1. To11At(m)
      BY <2>1, <2>7 DEF MadeAt
    <3>. QED  BY <2>1, <2>7, <3>1, To11Step
  <2>. QED  BY <2>0, <2>2, <2>3, <2>4, <2>5, <2>6, <2>7
<1>3. ~Checking
  <2>1. SUFFICES ASSUME Checking PROVE FALSE
    OBVIOUS
  <2>. DEFINE c == Sql("check")
  <2>2. execs = <<<<c>>>> /\ c.op = "check"
    BY <2>1 DEF Checking, Sql
  <2>. HIDE DEF c
  <2>3. Statement = c
    BY <2>2 DEF Statement
  <2>. QED  BY <2>2, <2>3, ExecuteFrame
<1>. QED  BY <1>1, <1>2, <1>3, BetweenStep, StuckStep, NewFileStep, FinishingStep DEF Starting

-----------------------------------------------------------------------------
(***************************************************************************)
(* The next block of db_init().                                            *)
(***************************************************************************)
LEMMA Migrations ==
    ASSUME NEW b \in 2..8
    PROVE  /\ DbInit[b].calls # <<>> /\ Head(DbInit[b].calls) = Steps(b)
           /\ Tail(DbInit[b].calls) \in Seq(Single(Small))
           /\ b \in {3, 4} => DbInit[b].calls = <<Steps(b)>>
           /\ Steps(b) \in Seq(Elements(Steps(b))) /\ Len(Steps(b)) \in Nat \ {0}
<1>. DEFINE c == DbInit[b].calls
            S == Single(Small)
            First(s) == c # <<>> /\ Head(c) = s /\ Tail(c) \in Seq(S)
            Begun == /\ First(Steps(b)) /\ (b \in {3, 4} => c = <<Steps(b)>>)
                     /\ Steps(b) \in Seq(Elements(Steps(b))) /\ Len(Steps(b)) \in Nat \ {0}
<1>1. ASSUME NEW s, c = <<s>> PROVE First(s)
  <2>. HIDE DEF c, S
  <2>. QED  BY <1>1
<1>2. ASSUME NEW s, NEW x \in Small, c = <<s, <<x>>>> PROVE First(s)
  <2>. DEFINE d == <<x>>
  <2>1. d \in S /\ c = <<s, d>>
    BY <1>2 DEF Single
  <2>. HIDE DEF c, d, S
  <2>. QED  BY <2>1
<1>3. ASSUME NEW s, NEW x \in Small, NEW y \in Small, c = <<s, <<x>>, <<y>>>> PROVE First(s)
  <2>. DEFINE d == <<x>>
              e == <<y>>
  <2>1. d \in S /\ e \in S /\ c = <<s, d, e>>
    BY <1>3 DEF Single
  <2>. HIDE DEF c, d, e, S
  <2>. QED  BY <2>1
<1>4. /\ Drop("attention_stats") \in Small /\ Copy("views", "search_folder_items") \in Small
      /\ Drop("views") \in Small /\ Sql("rebuild") \in Small
  BY DEF Small
<1>5. ASSUME b = 2 PROVE Begun
  <2>1. c = <<Steps(2)>> /\ Steps(2) \in Seq(Elements(Steps(2))) /\ Len(Steps(2)) = 4
    BY <1>5, Blocks, TriggersSteps
  <2>2. First(Steps(2))
    <3>. HIDE DEF First, c
    <3>. QED  BY <1>1, <2>1
  <2>. HIDE DEF First, c
  <2>3. Len(Steps(b)) \in Nat \ {0}
    <3>1. Len(Steps(2)) = 4 /\ 4 \in Nat \ {0}
      BY <2>1
    <3>2. Steps(b) = Steps(2)
      BY <1>5
    <3>. QED  BY <3>1, <3>2
  <2>. QED  BY <1>5, <2>1, <2>2, <2>3
<1>6. ASSUME b \in {3, 4} PROVE Begun
  <2>1. c = <<Steps(b)>> /\ Steps(b) \in Seq(Elements(Steps(b))) /\ Len(Steps(b)) = 10
    BY <1>6, WiderSteps
  <2>2. First(Steps(b))
    <3>. HIDE DEF First, c
    <3>. QED  BY <1>1, <2>1
  <2>. HIDE DEF First, c
  <2>3. Len(Steps(b)) \in Nat \ {0}
    BY <2>1
  <2>. QED  BY <1>6, <2>1, <2>2, <2>3
<1>7. ASSUME b = 5 PROVE Begun
  <2>1. /\ c = <<Steps(5), <<Drop("attention_stats")>>>>
        /\ Steps(5) \in Seq(Elements(Steps(5))) /\ Len(Steps(5)) = 10
    BY <1>7, To8Steps
  <2>2. First(Steps(5))
    <3>. HIDE DEF First, c
    <3>. QED  BY <1>2, <1>4, <2>1
  <2>. HIDE DEF First, c
  <2>3. Len(Steps(b)) \in Nat \ {0}
    <3>1. Len(Steps(5)) = 10 /\ 10 \in Nat \ {0}
      BY <2>1
    <3>2. Steps(b) = Steps(5)
      BY <1>7
    <3>. QED  BY <3>1, <3>2
  <2>. QED  BY <1>7, <2>1, <2>2, <2>3
<1>8. ASSUME b = 6 PROVE Begun
  <2>1. /\ c = <<Steps(6), <<Copy("views", "search_folder_items")>>, <<Drop("views")>>>>
        /\ Steps(6) \in Seq(Elements(Steps(6))) /\ Len(Steps(6)) = 6
    BY <1>8, To9Steps
  <2>2. First(Steps(6))
    <3>. HIDE DEF First, c
    <3>. QED  BY <1>3, <1>4, <2>1
  <2>. HIDE DEF First, c
  <2>3. Len(Steps(b)) \in Nat \ {0}
    <3>1. Len(Steps(6)) = 6 /\ 6 \in Nat \ {0}
      BY <2>1
    <3>2. Steps(b) = Steps(6)
      BY <1>8
    <3>. QED  BY <3>1, <3>2
  <2>. QED  BY <1>8, <2>1, <2>2, <2>3
<1>9. ASSUME b = 7 PROVE Begun
  <2>1. /\ c = <<Steps(7), <<Sql("rebuild")>>>>
        /\ Steps(7) \in Seq(Elements(Steps(7))) /\ Len(Steps(7)) = 5
    BY <1>9, To10Steps
  <2>2. First(Steps(7))
    <3>. HIDE DEF First, c
    <3>. QED  BY <1>2, <1>4, <2>1
  <2>. HIDE DEF First, c
  <2>3. Len(Steps(b)) \in Nat \ {0}
    <3>1. Len(Steps(7)) = 5 /\ 5 \in Nat \ {0}
      BY <2>1
    <3>2. Steps(b) = Steps(7)
      BY <1>9
    <3>. QED  BY <3>1, <3>2
  <2>. QED  BY <1>9, <2>1, <2>2, <2>3
<1>10. ASSUME b = 8 PROVE Begun
  <2>1. c = <<Steps(8)>> /\ Steps(8) \in Seq(Elements(Steps(8))) /\ Len(Steps(8)) = 7
    BY <1>10, To11Steps
  <2>2. First(Steps(8))
    <3>. HIDE DEF First, c
    <3>. QED  BY <1>1, <2>1
  <2>. HIDE DEF First, c
  <2>3. Len(Steps(b)) \in Nat \ {0}
    <3>1. Len(Steps(8)) = 7 /\ 7 \in Nat \ {0}
      BY <2>1
    <3>2. Steps(b) = Steps(8)
      BY <1>10
    <3>. QED  BY <3>1, <3>2
  <2>. QED  BY <1>10, <2>1, <2>2, <2>3
<1>11. Begun
  <2>. HIDE DEF Begun
  <2>. QED  BY <1>5, <1>6, <1>7, <1>8, <1>9, <1>10
<1>. QED  BY <1>11

LEMMA LateBlocks ==
    /\ \A b \in 9..13 : DbInit[b].versions = EveryVersion
    /\ DbInit[9].calls = <<<<Sql("check")>>>>
    /\ \A b \in 10..13 : DbInit[b].calls \in Seq(Single(Late))
    /\ Len(DbInit[10].calls) = 5 /\ DbInit[10].calls[2] = <<Create("items")>>
<1>1. \A b \in 9..13 : DbInit[b].versions = EveryVersion
  <2>1. \A versions, calls : For(versions, calls).versions = versions
    BY DEF For
  <2>2. DbInit[9].versions = EveryVersion
    BY <2>1, Blocks DEF CheckVersion
  <2>3. DbInit[10].versions = EveryVersion
    BY <2>1, Blocks DEF CreateTables
  <2>4. DbInit[11].versions = EveryVersion
    BY <2>1, Blocks DEF RemoveTriggers
  <2>5. DbInit[12].versions = EveryVersion
    BY <2>1, Blocks DEF Cleanup
  <2>6. DbInit[13].versions = EveryVersion
    BY <2>1, Blocks DEF CreateTriggers
  <2>. QED  BY <2>2, <2>3, <2>4, <2>5, <2>6
<1>2. DbInit[9].calls = <<<<Sql("check")>>>>
  BY Blocks DEF CheckVersion, For
<1>3. \A x \in Late : <<x>> \in Single(Late)
  BY DEF Single
<1>4. /\ DbInit[10].calls \in Seq(Single(Late))
      /\ Len(DbInit[10].calls) = 5 /\ DbInit[10].calls[2] = <<Create("items")>>
  <2>. DEFINE b == <<Begin>>
              i == <<Create("items")>>
              f == <<Create("search_folder_items")>>
              u == <<Create("update_state")>>
              e == <<End>>
              L == Single(Late)
  <2>1. b \in L /\ i \in L /\ f \in L /\ u \in L /\ e \in L
    BY <1>3 DEF Late
  <2>2. DbInit[10].calls = <<b, i, f, u, e>>
    BY Blocks DEF CreateTables, For
  <2>. HIDE DEF b, i, f, u, e, L
  <2>3. DbInit[10].calls \in Seq(L) /\ Len(DbInit[10].calls) = 5 /\ DbInit[10].calls[2] = i
    BY <2>1, <2>2
  <2>. QED  BY <2>3 DEF i, L
<1>5. DbInit[11].calls \in Seq(Single(Late))
  <2>. DEFINE b == <<DropTrigger("item_insert")>>
              i == <<DropTrigger("item_removal")>>
              f == <<DropTrigger("subscription_removal")>>
              L == Single(Late)
  <2>1. b \in L /\ i \in L /\ f \in L
    BY <1>3 DEF Late
  <2>2. DbInit[11].calls = <<b, i, f>>
    BY Blocks DEF RemoveTriggers, For
  <2>. HIDE DEF b, i, f, L
  <2>3. DbInit[11].calls \in Seq(L)
    BY <2>1, <2>2
  <2>. QED  BY <2>3 DEF L
<1>6. DbInit[12].calls \in Seq(Single(Late))
  <2>. DEFINE b == <<Sql("items without node")>>
              i == <<Sql("folder rows without node")>>
              f == <<Sql("metadata without item")>>
              e == <<Sql("legacy comments")>>
              L == Single(Late)
  <2>1. b \in L /\ i \in L /\ f \in L /\ e \in L
    BY <1>3 DEF Late
  <2>2. DbInit[12].calls = <<b, i, f, e>>
    <3>1. Cleanup = For(EveryVersion, <<b, i, f, e>>)
      BY DEF Cleanup
    <3>. HIDE DEF b, i, f, e
    <3>. QED  BY <3>1, Blocks DEF For
  <2>. HIDE DEF b, i, f, e, L
  <2>3. DbInit[12].calls \in Seq(L)
    BY <2>1, <2>2
  <2>. QED  BY <2>3 DEF L
<1>7. DbInit[13].calls \in Seq(Single(Late))
  <2>. DEFINE c(k) == <<CreateTrigger(NewTriggers[k])>>
              L == Single(Late)
  <2>1. DOMAIN NewTriggers = 1..2 /\ NewTriggers[1] = "item_removal"
        /\ NewTriggers[2] = "subscription_removal"
    BY DEF NewTriggers, Triggers
  <2>2. \A k \in 1..2 : c(k) \in L
    <3>1. CreateTrigger("item_removal") \in Late /\ CreateTrigger("subscription_removal") \in Late
      BY DEF Late
    <3>. QED  BY <1>3, <2>1, <3>1
  <2>3. DbInit[13].calls = [k \in 1..2 |-> c(k)]
    BY <2>1, Blocks DEF CreateTriggers, For
  <2>. HIDE DEF c, L
  <2>4. DbInit[13].calls \in Seq(L)
    BY <2>2, <2>3
  <2>. QED  BY <2>4 DEF L
<1>. QED  BY <1>1, <1>2, <1>4, <1>5, <1>6, <1>7

LEMMA NextBlock ==
    ASSUME IInv, EnterBlock
    PROVE  /\ Starting /\ phase = "starting" /\ execs = <<>> /\ Block \in 0..12
           /\ Block' = Block + 1
           /\ Len(todo') \in 0..13 /\ todo' = SubSeq(DbInit, Block' + 1, Len(DbInit))
           /\ execs' = IF work.version \in DbInit[Block + 1].versions
                       THEN DbInit[Block + 1].calls ELSE <<>>
           /\ UNCHANGED <<disk, work, open, phase, articles>>
<1>. DEFINE T == Elements(DbInit)
            n == Block + 1
<1>1. /\ Starting /\ phase = "starting" /\ execs = <<>> /\ todo # <<>> /\ todo' = Tail(todo)
      /\ execs' = IF work.version \in Head(todo).versions THEN Head(todo).calls ELSE <<>>
      /\ UNCHANGED <<disk, work, open, phase, articles>>
  BY DEF EnterBlock, IInv, history
<1>2. DbInit \in Seq(T) /\ Len(DbInit) = 13
  BY Blocks
<1>3. Len(todo) \in 0..13 /\ todo = SubSeq(DbInit, n, 13)
  BY <1>1, <1>2 DEF Starting
<1>4. Block = 13 - Len(todo) /\ Block' = 13 - Len(todo')
  BY <1>2 DEF Block
<1>5. n \in 1..13
  <2>1. n \in 1..14
    BY <1>3, <1>4
  <2>2. n # 14
    <3>1. SubSeq(DbInit, 14, 13) = <<>>
      <4>. HIDE DEF T
      <4>. QED  BY <1>2
    <3>. QED  BY <1>1, <1>3, <3>1
  <2>. QED  BY <2>1, <2>2
<1>6. /\ todo \in Seq(T) /\ Head(todo) = DbInit[n]
      /\ n < 13 => Tail(todo) = SubSeq(DbInit, n + 1, 13)
      /\ n = 13 => Tail(todo) = <<>>
  <2>. HIDE DEF T, n
  <2>1. n \in 1..Len(DbInit) /\ todo = SubSeq(DbInit, n, Len(DbInit))
    BY <1>2, <1>3, <1>5
  <2>2. /\ todo \in Seq(T) /\ Head(todo) = DbInit[n]
        /\ n < Len(DbInit) => Tail(todo) = SubSeq(DbInit, n + 1, Len(DbInit))
        /\ n = Len(DbInit) => Tail(todo) = <<>>
    BY <1>2, <2>1, SuffixAt, ZenonT(60)
  <2>. QED  BY <1>2, <2>2
<1>7. Len(todo') = Len(todo) - 1 /\ Len(todo) >= 1
  <2>. HIDE DEF T
  <2>. QED  BY <1>1, <1>6
<1>8. Block \in 0..12 /\ Block' = n /\ Len(todo') \in 0..13
  BY <1>3, <1>4, <1>5, <1>7
<1>9. todo' = SubSeq(DbInit, n + 1, 13)
  <2>1. CASE n < 13
    BY <1>1, <1>6, <2>1
  <2>2. CASE n = 13
    <3>1. SubSeq(DbInit, 14, 13) = <<>>
      <4>. HIDE DEF T
      <4>. QED  BY <1>2
    <3>2. n + 1 = 14
      BY <2>2
    <3>. HIDE DEF n
    <3>. QED  BY <1>1, <1>6, <2>2, <3>1, <3>2
  <2>. QED  BY <1>5, <2>1, <2>2
<1>. QED  BY <1>1, <1>2, <1>6, <1>8, <1>9

LEMMA BeginAt ==
    ASSUME NEW b \in 2..8
    PROVE  Clean' => MadeAt(b, 1)'
<1>1. CASE b = 2
  BY <1>1 DEF MadeAt, TriggersAt
<1>2. CASE b \in {3, 4}
  <2>1. Clean' => WiderAt(1)'
    BY DEF WiderAt
  <2>. QED  BY <1>2, <2>1, WiderMade
<1>3. CASE b = 5
  BY <1>3 DEF MadeAt, To8At
<1>4. CASE b = 6
  BY <1>4 DEF MadeAt, To9At
<1>5. CASE b = 7
  BY <1>5 DEF MadeAt, To10At
<1>6. CASE b = 8
  BY <1>6 DEF MadeAt, To11At
<1>. QED  BY <1>1, <1>2, <1>3, <1>4, <1>5, <1>6

\* A database that a migration does not concern has the version it leads to, or a later one.
LEMMA FloorStep ==
    ASSUME NEW b \in 2..8, NEW v \in Floor[b - 1]..Target, v \notin DbInit[b].versions
    PROVE  v \in Floor[b]..Target
<1>. USE DEF Target
<1>1. v \in Int
  BY DEF Floor
<1>2. CASE b = 2
  <2>1. DbInit[2].versions = {5, 6}
    BY Blocks, TriggersSteps
  <2>2. Floor[b - 1] = 5 /\ Floor[b] = 5
    BY <1>2 DEF Floor
  <2>. QED  BY <1>1, <1>2, <2>1, <2>2
<1>3. CASE b = 3
  <2>1. DbInit[3].versions = {5}
    <3>1. DbInit[3].versions = {3 + 2}
      BY WiderSteps
    <3>. QED  BY <3>1
  <2>2. Floor[b - 1] = 5 /\ Floor[b] = 6
    BY <1>3 DEF Floor
  <2>. QED  BY <1>1, <1>3, <2>1, <2>2
<1>4. CASE b = 4
  <2>1. DbInit[4].versions = {6}
    <3>1. DbInit[4].versions = {4 + 2}
      BY WiderSteps
    <3>. QED  BY <3>1
  <2>2. Floor[b - 1] = 6 /\ Floor[b] = 7
    BY <1>4 DEF Floor
  <2>. QED  BY <1>1, <1>4, <2>1, <2>2
<1>5. CASE b = 5
  <2>1. DbInit[5].versions = {7}
    BY To8Steps
  <2>2. Floor[b - 1] = 7 /\ Floor[b] = 8
    BY <1>5 DEF Floor
  <2>. QED  BY <1>1, <1>5, <2>1, <2>2
<1>6. CASE b = 6
  <2>1. DbInit[6].versions = {8}
    BY To9Steps
  <2>2. Floor[b - 1] = 8 /\ Floor[b] = 9
    BY <1>6 DEF Floor
  <2>. QED  BY <1>1, <1>6, <2>1, <2>2
<1>7. CASE b = 7
  <2>1. DbInit[7].versions = {9}
    BY To10Steps
  <2>2. Floor[b - 1] = 9 /\ Floor[b] = 10
    BY <1>7 DEF Floor
  <2>. QED  BY <1>1, <1>7, <2>1, <2>2
<1>8. CASE b = 8
  <2>1. DbInit[8].versions = {10}
    BY To11Steps
  <2>2. Floor[b - 1] = 10 /\ Floor[b] = 11
    BY <1>8 DEF Floor
  <2>. QED  BY <1>1, <1>8, <2>1, <2>2
<1>. QED  BY <1>2, <1>3, <1>4, <1>5, <1>6, <1>7, <1>8

LEMMA EnterStep ==
    ASSUME IInv, EnterBlock
    PROVE  IInv'
<1>1. /\ Starting /\ phase = "starting" /\ execs = <<>> /\ Block \in 0..12
      /\ Block' = Block + 1
      /\ Len(todo') \in 0..13 /\ todo' = SubSeq(DbInit, Block' + 1, Len(DbInit))
      /\ execs' = IF work.version \in DbInit[Block + 1].versions
                  THEN DbInit[Block + 1].calls ELSE <<>>
      /\ UNCHANGED <<disk, work, open, phase, articles>>
  BY NextBlock
<1>2. ASSUME Between' \/ Stuck' \/ NewFile' \/ Migrating' \/ Checking' \/ Finishing'
      PROVE  IInv'
  <2>1. Starting'
    BY <1>1, <1>2 DEF Starting
  <2>2. Kept' = Kept
    BY <1>1 DEF Kept
  <2>3. Sound(disk)'
    BY <1>1, <2>2 DEF IInv, Sound, Holds
  <2>. QED  BY <1>1, <2>1, <2>3 DEF IInv, FatalVersions
<1>3. PICK b \in 1..13 : b = Block + 1 /\ Block' = b
  BY <1>1
<1>4. execs' = IF work.version \in DbInit[b].versions THEN DbInit[b].calls ELSE <<>>
  BY <1>1, <1>3
<1>5. CASE Between
  <2>1. /\ b \in 1..9 /\ work = disk /\ ~open /\ disk.version \in EveryVersion
        /\ (b > 1 => disk.version \in Floor[b - 1]..Target)
    BY <1>1, <1>3, <1>5 DEF Between, Clean, IInv, Sound, WellFormed
  <2>2. Clean'
    BY <1>1, <2>1 DEF Clean
  <2>3. CASE b = 1
    <3>1. DbInit[1].versions = EveryVersion \ 5..Target /\ DbInit[1].calls = Opening
      BY Blocks DEF NewDatabase, For, Opening
    <3>2. CASE disk.version \notin 5..Target
      BY <1>1, <1>2, <1>3, <1>4, <2>1, <2>2, <2>3, <3>1, <3>2 DEF NewFile
    <3>3. CASE disk.version \in 5..Target
      <4>1. execs' = <<>>
        BY <1>4, <2>1, <2>3, <3>1, <3>3
      <4>2. disk'.version \in Floor[1]..Target
        BY <1>1, <3>3 DEF Floor
      <4>3. Between'
        BY <1>3, <2>2, <2>3, <4>1, <4>2 DEF Between
      <4>. QED  BY <1>2, <4>3
    <3>. QED  BY <3>2, <3>3
  <2>4. CASE b \in 2..8
    <3>1. CASE disk.version \in DbInit[b].versions
      <4>1. /\ execs' = DbInit[b].calls /\ DbInit[b].calls # <<>>
            /\ Head(DbInit[b].calls) = Steps(b)
            /\ Tail(DbInit[b].calls) \in Seq(Single(Small))
            /\ Steps(b) \in Seq(Elements(Steps(b))) /\ Len(Steps(b)) \in Nat \ {0}
        BY <1>4, <2>1, <2>4, <3>1, Migrations
      <4>2. SubSeq(Steps(b), 1, Len(Steps(b))) = Steps(b) /\ 1 \in 1..Len(Steps(b))
        BY <4>1
      <4>3. Position(Steps(b), 1)'
        BY <4>1, <4>2 DEF Position
      <4>4. MadeAt(b, 1)'
        BY <2>2, <2>4, BeginAt
      <4>5. disk'.version \in DbInit[b].versions
        BY <1>1, <3>1
      <4>6. Migrating'
        BY <1>3, <2>4, <4>2, <4>3, <4>4, <4>5 DEF Migrating
      <4>. QED  BY <1>2, <4>6
    <3>2. CASE disk.version \notin DbInit[b].versions
      <4>1. execs' = <<>>
        BY <1>4, <2>1, <3>2
      <4>2. disk'.version \in Floor[b]..Target
        BY <1>1, <2>1, <2>4, <3>2, FloorStep
      <4>3. Between'
        BY <1>3, <2>2, <2>4, <4>1, <4>2 DEF Between
      <4>. QED  BY <1>2, <4>3
    <3>. QED  BY <3>1, <3>2
  <2>5. CASE b = 9
    <3>1. disk.version = Target
      <4>1. Floor[b - 1] = 11
        BY <2>5 DEF Floor
      <4>. QED  BY <2>1, <2>5, <4>1 DEF EveryVersion, Target
    <3>2. execs' = <<<<Sql("check")>>>>
      BY <1>4, <2>1, <2>5, LateBlocks
    <3>3. Checking'
      BY <1>1, <1>3, <2>2, <2>5, <3>1, <3>2 DEF Checking
    <3>. QED  BY <1>2, <3>3
  <2>. QED  BY <2>1, <2>3, <2>4, <2>5
<1>6. CASE Stuck
  <2>1. StuckVersion /\ b \in 3..9
    BY <1>1, <1>3, <1>6, SMTT(30) DEF Stuck
  <2>2. StuckVersion'
    BY <1>1, <2>1 DEF StuckVersion
  <2>3. CASE b = 9
    <3>1. work.version \in EveryVersion
      BY DEF IInv, WellFormed
    <3>2. execs' = <<<<Sql("check")>>>>
      BY <1>4, <2>3, <3>1, LateBlocks
    <3>3. Checking'
      BY <1>3, <2>2, <2>3, <3>2 DEF Checking
    <3>. QED  BY <1>2, <3>3
  <2>4. CASE b \in 3..8
    <3>1. execs' = <<>> \/ (b \in {3, 4} /\ execs' = <<Steps(b)>>)
      <4>1. CASE b \in {3, 4}
        BY <1>4, <4>1, WiderSteps
      <4>2. CASE b \in {5, 6, 7, 8}
        <5>1. work.version \in {5, 6}
          BY <2>1 DEF StuckVersion
        <5>2. DbInit[b].versions \subseteq {7, 8, 9, 10}
          BY <4>2, To8Steps, To9Steps, To10Steps, To11Steps
        <5>3. work.version \notin DbInit[b].versions
          BY <5>1, <5>2
        <5>. QED  BY <1>4, <5>3
      <4>. QED  BY <2>4, <4>1, <4>2
    <3>2. <<>> \in Seq(Single(Small))
      OBVIOUS
    <3>3. \/ execs' \in Seq(Single(Small))
          \/ Block' \in {3, 4} /\ execs' = <<Steps(Block')>>
      <4>1. CASE execs' = <<>>
        BY <3>2, <4>1
      <4>2. CASE b \in {3, 4} /\ execs' = <<Steps(b)>>
        BY <1>3, <4>2
      <4>. QED  BY <3>1, <4>1, <4>2
    <3>4. Block' \in 2..8
      BY <1>3, <2>4
    <3>5. Stuck'
      BY <2>2, <3>3, <3>4 DEF Stuck
    <3>. QED  BY <1>2, <3>5
  <2>. QED  BY <2>1, <2>3, <2>4
<1>7. CASE Finishing
  <2>1. /\ b \in 10..13 /\ disk.version = Target /\ work.version = Target
        /\ (~open => work = disk) /\ Sound(work)
        /\ Block = 9 \/ "items" \in work.tables
    <3>1. Creating => Block = 9
      BY <1>1 DEF Creating
    <3>. QED  BY <1>1, <1>3, <1>7, <3>1 DEF Finishing
  <2>2. execs' = DbInit[b].calls
    <3>1. Target \in EveryVersion
      BY DEF EveryVersion, Target
    <3>. QED  BY <1>4, <2>1, <3>1, LateBlocks
  <2>3. execs' \in Seq(Single(Late))
    BY <2>1, <2>2, LateBlocks
  <2>4. Sound(work)'
    <3>1. Kept' = Kept
      BY <1>1 DEF Kept
    <3>. QED  BY <1>1, <2>1, <3>1 DEF Sound, Holds
  <2>5. Creating' \/ "items" \in work'.tables
    <3>1. CASE "items" \in work.tables
      BY <1>1, <3>1
    <3>2. CASE Block = 9
      <4>1. b = 10
        BY <1>3, <3>2
      <4>2. Len(execs') = 5 /\ execs'[2] = <<Create("items")>>
        BY <2>2, <4>1, LateBlocks
      <4>3. 2 \in 1..Len(execs')
        BY <4>2
      <4>. QED  BY <1>3, <4>1, <4>2, <4>3 DEF Creating
    <3>. QED  BY <2>1, <3>1, <3>2
  <2>6. Finishing'
    BY <1>1, <1>3, <2>1, <2>3, <2>4, <2>5 DEF Finishing
  <2>. QED  BY <1>2, <2>6
<1>8. ~NewFile /\ ~Migrating /\ ~Checking
  <2>1. execs \notin {Opening, Numbering, Adopting, Judging}
    BY <1>1 DEF Opening, Numbering, Adopting, Judging
  <2>. QED  BY <1>1, <2>1 DEF NewFile, Migrating, Checking, Position
<1>. QED  BY <1>1, <1>5, <1>6, <1>7, <1>8 DEF Starting

LEMMA Started0 ==
    ASSUME IInv, phase = "starting", todo = <<>>, execs = <<>>, ~open
    PROVE  Finishing /\ work = disk /\ disk.version = Target /\ "items" \in disk.tables
<1>1. Block = 13
  BY Blocks DEF Block
<1>2. Starting
  BY DEF IInv
<1>3. Finishing
  BY <1>1, <1>2 DEF Starting, Between, Stuck, NewFile, Migrating, Checking
<1>4. ~Creating
  BY <1>1 DEF Creating
<1>. QED  BY <1>3, <1>4 DEF Finishing

LEMMA StartStep ==
    ASSUME IInv, Start
    PROVE  IInv'
<1>1. /\ Clean /\ phase' = "starting" /\ todo' = DbInit /\ execs' = <<>>
      /\ UNCHANGED <<disk, work, open, articles>>
  BY DEF Start, IInv, history
<1>2. Kept' = Kept
  BY <1>1 DEF Kept
<1>3. Sound(disk)' /\ Clean'
  BY <1>1, <1>2 DEF IInv, Sound, Holds, Clean
<1>4. Block' = 0 /\ Len(todo') \in 0..13
  BY <1>1, Blocks DEF Block
<1>5. todo' = SubSeq(DbInit, Block' + 1, Len(DbInit))
  <2>. DEFINE d == DbInit
              T == Elements(d)
  <2>1. d \in Seq(T)
    BY Blocks
  <2>. HIDE DEF d, T
  <2>2. SubSeq(d, 0 + 1, Len(d)) = d
    BY <2>1
  <2>. QED  BY <1>1, <1>4, <2>2 DEF d
<1>6. Starting'
  BY <1>1, <1>3, <1>4, <1>5 DEF Starting, Between
<1>. QED  BY <1>1, <1>3, <1>6 DEF IInv, FatalVersions

LEMMA CrashStep ==
    ASSUME IInv, Crash
    PROVE  IInv'
<1>1. /\ phase' = "off" /\ work' = disk /\ open' = FALSE /\ UNCHANGED <<disk, articles>>
  BY DEF Crash, history
<1>2. Kept' = Kept
  BY <1>1 DEF Kept
<1>3. Sound(disk)' /\ Clean' /\ WellFormed(work')
  BY <1>1, <1>2 DEF IInv, Sound, Holds, Clean
<1>. QED  BY <1>1, <1>3 DEF IInv, FatalVersions

-----------------------------------------------------------------------------
(***************************************************************************)
(* The check of the version.                                               *)
(***************************************************************************)
LEMMA NoCheck ==
    ASSUME NEW b \in 2..8, NEW m \in 1..Len(Steps(b))
    PROVE  Steps(b)[m].op \notin {"check", "create trigger"}
<1>1. CASE b = 2
  <2>1. m \in {1, 2, 3, 4}
    <3>1. Len(Steps(b)) = 4
      BY <1>1, TriggersSteps
    <3>. QED  BY <3>1
  <2>2. /\ Steps(b)[1].op = "begin" /\ Steps(b)[2].op = "drop trigger"
        /\ Steps(b)[3].op = "drop trigger" /\ Steps(b)[4].op = "end"
    BY <1>1, OpFields, TriggersSteps, ZenonT(60)
  <2>. QED  BY <2>1, <2>2
<1>2. CASE b \in {3, 4}
  <2>1. m \in {1, 2, 3, 4, 5, 6, 7, 8, 9, 10}
    <3>1. Len(Steps(b)) = 10
      BY <1>2, WiderSteps
    <3>. QED  BY <3>1
  <2>2. /\ Steps(b)[1].op = "begin" /\ Steps(b)[2].op = "comments of itemsets"
        /\ Steps(b)[3].op = "create" /\ Steps(b)[4].op = "copy"
        /\ Steps(b)[5].op = "drop" /\ Steps(b)[6].op = "create"
        /\ Steps(b)[7].op = "copy" /\ Steps(b)[8].op = "drop"
        /\ Steps(b)[9].op = "version" /\ Steps(b)[10].op = "end"
    <3>. DEFINE s == Steps(b)
    <3>1. /\ s[1] = Begin /\ s[2] = Sql("comments of itemsets")
          /\ s[3] = Create("backup") /\ s[4] = Copy("itemsets", "backup")
          /\ s[5] = Drop("itemsets") /\ s[6] = Create("itemsets")
          /\ s[7] = Copy("backup", "itemsets") /\ s[8] = Drop("backup")
          /\ s[9] = Version((b + 2) + 1) /\ s[10] = End
      BY <1>2, WiderSteps
    <3>2. /\ Begin.op = "begin" /\ Sql("comments of itemsets").op = "comments of itemsets"
          /\ Create("backup").op = "create" /\ Copy("itemsets", "backup").op = "copy"
          /\ Drop("itemsets").op = "drop" /\ Create("itemsets").op = "create"
          /\ Copy("backup", "itemsets").op = "copy" /\ Drop("backup").op = "drop"
          /\ Version((b + 2) + 1).op = "version" /\ End.op = "end"
      BY DEF Begin, Sql, Create, Copy, Drop, Version, End
    <3>. HIDE DEF s
    <3>. QED  BY <3>1, <3>2 DEF s
  <2>. QED  BY <2>1, <2>2
<1>3. CASE b = 5
  <2>1. m \in {1, 2, 3, 4, 5, 6, 7, 8, 9, 10}
    <3>1. Len(Steps(b)) = 10
      BY <1>3, To8Steps
    <3>. QED  BY <3>1
  <2>2. /\ Steps(b)[1].op = "begin" /\ Steps(b)[2].op = "create"
        /\ Steps(b)[3].op = "copy" /\ Steps(b)[4].op = "drop"
        /\ Steps(b)[5].op = "create" /\ Steps(b)[6].op = "join"
        /\ Steps(b)[7].op = "drop" /\ Steps(b)[8].op = "drop"
        /\ Steps(b)[9].op = "version" /\ Steps(b)[10].op = "end"
    <3>. DEFINE s == Steps(b)
    <3>1. /\ s[1] = Begin /\ s[2] = Create("backup")
          /\ s[3] = Copy("items", "backup") /\ s[4] = Drop("items")
          /\ s[5] = Create("items") /\ s[6] = Sql("join")
          /\ s[7] = Drop("backup") /\ s[8] = Drop("itemsets")
          /\ s[9] = Version(8) /\ s[10] = End
      BY <1>3, To8Steps
    <3>2. /\ Begin.op = "begin" /\ Create("backup").op = "create"
          /\ Copy("items", "backup").op = "copy" /\ Drop("items").op = "drop"
          /\ Create("items").op = "create" /\ Sql("join").op = "join"
          /\ Drop("backup").op = "drop" /\ Drop("itemsets").op = "drop"
          /\ Version(8).op = "version" /\ End.op = "end"
      BY DEF Begin, Create, Copy, Drop, Sql, Version, End
    <3>. HIDE DEF s
    <3>. QED  BY <3>1, <3>2 DEF s
  <2>. QED  BY <2>1, <2>2
<1>4. CASE b = 6
  <2>1. m \in {1, 2, 3, 4, 5, 6}
    <3>1. Len(Steps(b)) = 6
      BY <1>4, To9Steps
    <3>. QED  BY <3>1
  <2>2. /\ Steps(b)[1].op = "begin" /\ Steps(b)[2].op = "drop"
        /\ Steps(b)[3].op = "drop" /\ Steps(b)[4].op = "create"
        /\ Steps(b)[5].op = "version" /\ Steps(b)[6].op = "end"
    <3>. DEFINE s == Steps(b)
    <3>1. /\ s[1] = Begin /\ s[2] = Drop("view_state")
          /\ s[3] = Drop("update_state") /\ s[4] = Create("search_folder_items")
          /\ s[5] = Version(9) /\ s[6] = End
      BY <1>4, To9Steps
    <3>2. /\ Begin.op = "begin" /\ Drop("view_state").op = "drop"
          /\ Drop("update_state").op = "drop" /\ Create("search_folder_items").op = "create"
          /\ Version(9).op = "version" /\ End.op = "end"
      BY DEF Begin, Drop, Create, Version, End, Sql
    <3>. HIDE DEF s
    <3>. QED  BY <3>1, <3>2 DEF s
  <2>. QED  BY <2>1, <2>2
<1>5. CASE b = 7
  <2>1. m \in {1, 2, 3, 4, 5}
    <3>1. Len(Steps(b)) = 5
      BY <1>5, To10Steps
    <3>. QED  BY <3>1
  <2>2. /\ Steps(b)[1].op = "begin" /\ Steps(b)[2].op = "drop"
        /\ Steps(b)[3].op = "create" /\ Steps(b)[4].op = "version"
        /\ Steps(b)[5].op = "end"
    <3>. DEFINE s == Steps(b)
    <3>1. /\ s[1] = Begin /\ s[2] = Drop("search_folder_items")
          /\ s[3] = Create("search_folder_items") /\ s[4] = Version(10)
          /\ s[5] = End
      BY <1>5, To10Steps
    <3>2. /\ Begin.op = "begin" /\ Drop("search_folder_items").op = "drop"
          /\ Create("search_folder_items").op = "create" /\ Version(10).op = "version"
          /\ End.op = "end"
      BY DEF Begin, Drop, Create, Version, End, Sql
    <3>. HIDE DEF s
    <3>. QED  BY <3>1, <3>2 DEF s
  <2>. QED  BY <2>1, <2>2
<1>6. CASE b = 8
  <2>1. m \in {1, 2, 3, 4, 5, 6, 7}
    <3>1. Len(Steps(b)) = 7
      BY <1>6, To11Steps
    <3>. QED  BY <3>1
  <2>2. /\ Steps(b)[1].op = "begin" /\ Steps(b)[2].op = "create"
        /\ Steps(b)[3].op = "copy" /\ Steps(b)[4].op = "drop"
        /\ Steps(b)[5].op = "rename" /\ Steps(b)[6].op = "version"
        /\ Steps(b)[7].op = "end"
    <3>. DEFINE s == Steps(b)
    <3>1. /\ s[1] = Begin /\ s[2] = Create("items_new")
          /\ s[3] = Copy("items", "items_new") /\ s[4] = Drop("items")
          /\ s[5] = Sql("rename") /\ s[6] = Version(11)
          /\ s[7] = End
      BY <1>6, To11Steps
    <3>2. /\ Begin.op = "begin" /\ Create("items_new").op = "create"
          /\ Copy("items", "items_new").op = "copy" /\ Drop("items").op = "drop"
          /\ Sql("rename").op = "rename" /\ Version(11).op = "version"
          /\ End.op = "end"
      BY DEF Begin, Create, Copy, Drop, Sql, Version, End
    <3>. HIDE DEF s
    <3>. QED  BY <3>1, <3>2 DEF s
  <2>. QED  BY <2>1, <2>2
<1>7. b = 2 \/ b \in {3, 4} \/ b = 5 \/ b = 6 \/ b = 7 \/ b = 8
  OBVIOUS
<1>. QED  BY <1>1, <1>2, <1>3, <1>4, <1>5, <1>6, <1>7

LEMMA CheckedAt ==
    ASSUME IInv, Check
    PROVE  /\ Starting
           /\ Checking \/ (NewFile /\ execs = Judging)
<1>1. Starting /\ execs # <<>> /\ Statement.op = "check"
  BY DEF Check, IInv
<1>2. ASSUME NEW S, execs \in Seq(Single(S)), \A x \in S : x.op # "check" PROVE FALSE
  BY <1>1, <1>2, OneByOne
<1>3. \A x \in Small : x.op # "check"
  BY OpFields DEF Small
<1>4. \A x \in Late : x.op # "check"
  BY OpFields, ZenonT(60) DEF Late
<1>5. ~Between
  BY <1>1, <1>2, <1>3 DEF Between
<1>6. ~Stuck
  <2>1. SUFFICES ASSUME Stuck PROVE FALSE
    OBVIOUS
  <2>2. execs \notin Seq(Single(Small))
    BY <1>2, <1>3
  <2>3. PICK b \in {3, 4} : execs = <<Steps(b)>>
    BY <2>1, <2>2 DEF Stuck
  <2>4. Steps(b) \in Seq(Elements(Steps(b))) /\ Len(Steps(b)) = 10 /\ Steps(b)[1] = Begin
    BY WiderSteps
  <2>5. Statement = Begin
    <3>. DEFINE s == Steps(b)
    <3>1. s \in Seq(Elements(s)) /\ Len(s) = 10 /\ s[1] = Begin /\ execs = <<s>>
      BY <2>3, <2>4
    <3>. HIDE DEF s
    <3>2. Head(s) = Begin /\ Head(execs) = s
      BY <3>1
    <3>. QED  BY <3>2 DEF Statement
  <2>. QED  BY <1>1, <2>5, OpFields
<1>7. NewFile => execs = Judging
  <2>1. SUFFICES ASSUME NewFile PROVE execs = Judging
    OBVIOUS
  <2>2. Statement \notin {Create("info"), Version(-1), Sql("adopt")}
    BY <1>1, OpFields
  <2>. QED  BY <2>1, <2>2, NewFilePlaces
<1>8. ~Migrating
  <2>1. SUFFICES ASSUME Migrating PROVE FALSE
    OBVIOUS
  <2>2. PICK b \in 2..8 : Block = b
    BY <2>1 DEF Migrating
  <2>3. PICK m \in 1..Len(Steps(b)) : Position(Steps(b), m)
    BY <2>1, <2>2 DEF Migrating
  <2>4. Statement = Steps(b)[m]
    BY <2>3, Migrations, Advance
  <2>. QED  BY <1>1, <2>4, NoCheck
<1>9. ~Finishing
  BY <1>2, <1>4 DEF Finishing
<1>. QED  BY <1>1, <1>5, <1>6, <1>7, <1>8, <1>9 DEF Starting

LEMMA CheckStep ==
    ASSUME IInv, Check
    PROVE  IInv'
<1>1. Starting /\ (Checking \/ (NewFile /\ execs = Judging))
  BY CheckedAt
<1>2. UNCHANGED <<disk, articles>> /\ phase = "starting"
  BY DEF Check, history
<1>3. Kept' = Kept
  BY <1>2 DEF Kept
<1>4. Sound(disk)'
  BY <1>2, <1>3 DEF IInv, Sound, Holds
<1>5. CASE work.version = Target
  <2>1. execs' = Rest /\ UNCHANGED <<work, open, phase, todo>>
    BY <1>5 DEF Check
  <2>2. Clean /\ (Checking => Block = 9) /\ (~Checking => Block = 1)
    BY <1>1, <1>5 DEF Checking, StuckVersion, NewFile, Target
  <2>3. execs' = <<>>
    <3>. DEFINE c == Sql("check")
    <3>1. execs = <<<<c>>>>
      BY <1>1 DEF Checking, Judging
    <3>. HIDE DEF c
    <3>2. Head(execs) = <<c>> /\ Tail(execs) = <<>>
      BY <3>1
    <3>3. Tail(<<c>>) = <<>>
      OBVIOUS
    <3>. QED  BY <2>1, <3>2, <3>3 DEF Rest
  <2>4. Block' = Block
    BY <2>1 DEF Block
  <2>5. Sound(work)' /\ work' = disk'
    BY <1>2, <1>4, <2>1, <2>2 DEF Clean, Sound
  <2>6. ASSUME Checking PROVE Finishing'
    <3>1. Creating'
      BY <2>2, <2>4, <2>6 DEF Creating
    <3>2. <<>> \in Seq(Single(Late))
      OBVIOUS
    <3>3. Block' \in 9..13
      BY <2>2, <2>4, <2>6
    <3>4. disk'.version = Target /\ work'.version = Target
      BY <1>2, <1>5, <2>1, <2>2 DEF Clean
    <3>. QED  BY <2>3, <2>5, <3>1, <3>2, <3>3, <3>4 DEF Finishing
  <2>7. ASSUME ~Checking PROVE Between'
    <3>1. disk'.version \in Floor[1]..Target /\ Clean'
      BY <1>2, <1>5, <2>1, <2>2 DEF Clean, Floor, Target
    <3>2. Block' = 1
      BY <2>2, <2>4, <2>7
    <3>3. Floor[Block'] = Floor[1]
      BY <3>2
    <3>. HIDE DEF Block
    <3>. QED  BY <2>3, <3>1, <3>2, <3>3 DEF Between
  <2>8. Finishing' \/ Between'
    BY <2>6, <2>7
  <2>9. Starting'
    BY <1>1, <2>1, <2>4, <2>8 DEF Starting
  <2>. QED  BY <1>2, <1>4, <2>1, <2>9 DEF IInv, FatalVersions
<1>6. CASE work.version # Target
  <2>1. phase' = "fatal" /\ work' = disk /\ open' = FALSE
    BY <1>6 DEF Check
  <2>2. disk.version \notin 7..Target
    BY <1>1, <1>6 DEF Checking, NewFile, StuckVersion, Clean, Judging, Target
  <2>3. disk'.version \notin 7..Target
    BY <1>2, <2>2
  <2>4. Clean' /\ WellFormed(work')
    BY <1>2, <2>1 DEF Clean, IInv, Sound
  <2>. QED  BY <1>2, <1>4, <2>1, <2>3, <2>4 DEF IInv, FatalVersions
<1>. QED  BY <1>5, <1>6

-----------------------------------------------------------------------------
(***************************************************************************)
(* The running program: every operation leaves a database that holds the   *)
(* articles.                                                               *)
(***************************************************************************)
LEMMA Assembled ==
    ASSUME NEW version \in EveryVersion, NEW tables, NEW rows,
           rows = [t \in TableNames |-> rows[t]], NEW triggers,
           NEW nodes, NEW metadata, NEW last, NEW u,
           u = [version |-> version, tables |-> tables, rows |-> rows,
                triggers |-> triggers, nodes |-> nodes, metadata |-> metadata, last |-> last]
    PROVE  /\ WellFormed(u) /\ u.version = version /\ u.tables = tables
           /\ u.rows = rows /\ u.nodes = nodes
BY DEF WellFormed

\* What an operation may make of the database and of the articles.
Fit(w) ==
    /\ WellFormed(w) /\ w.version = Target /\ "items" \in w.tables
    /\ articles' \subseteq Ids \ Comments
    /\ \A i \in articles' : /\ NodeOf[i] \in InitialNodes => NodeOf[i] \in w.nodes
                            /\ NodeOf[i] \in w.nodes => i \in w.rows["items"]

LEMMA Storing ==
    ASSUME IInv, NEW w, Fit(w), disk' = w, work' = w, open' = open, ~open, phase' = "running"
    PROVE  IInv'
<1>1. /\ disk'.version = Target /\ "items" \in disk'.tables
      /\ work' = disk' /\ WellFormed(disk') /\ ~open'
  BY DEF Fit
<1>2. Kept' \subseteq disk'.rows["items"]
  BY DEF Fit, Kept
<1>3. Shaped(disk')
  BY <1>1 DEF Shaped, Present, Missing, Target
<1>4. Sound(disk)'
  BY <1>1, <1>2, <1>3 DEF Sound, Holds, Target
<1>. QED  BY <1>1, <1>4 DEF IInv, Fit, Clean, FatalVersions

LEMMA Running ==
    ASSUME IInv, phase = "running"
    PROVE  /\ work = disk /\ ~open /\ WellFormed(work) /\ work.version = Target
           /\ Target \in EveryVersion
           /\ "items" \in work.tables
           /\ work = [version |-> work.version, tables |-> work.tables, rows |-> work.rows,
                      triggers |-> work.triggers, nodes |-> work.nodes,
                      metadata |-> work.metadata, last |-> work.last]
           /\ work.rows = [t \in TableNames |-> work.rows[t]]
           /\ articles \subseteq Ids \ Comments
           /\ \A i \in articles : /\ NodeOf[i] \in InitialNodes => NodeOf[i] \in work.nodes
                                  /\ NodeOf[i] \in work.nodes => i \in work.rows["items"]
<1>1. /\ work = disk /\ ~open /\ WellFormed(work) /\ work.version = Target
      /\ "items" \in work.tables /\ articles \subseteq Ids \ Comments
  BY DEF IInv, Clean
<1>2. Target \in EveryVersion
  BY DEF EveryVersion, Target
<1>3. Kept \subseteq work.rows["items"]
  BY <1>1 DEF IInv, Sound, Holds
<1>4. \A i \in articles : /\ NodeOf[i] \in InitialNodes => NodeOf[i] \in work.nodes
                          /\ NodeOf[i] \in work.nodes => i \in work.rows["items"]
  BY <1>1, <1>3 DEF IInv, Kept
<1>5. /\ work = [version |-> work.version, tables |-> work.tables, rows |-> work.rows,
                 triggers |-> work.triggers, nodes |-> work.nodes,
                 metadata |-> work.metadata, last |-> work.last]
      /\ work.rows = [t \in TableNames |-> work.rows[t]]
  BY <1>1 DEF WellFormed
<1>. QED  BY <1>1, <1>2, <1>4, <1>5

\* A change of the metadata alone.
LEMMA MetadataFit ==
    ASSUME IInv, phase = "running", articles' = articles, NEW i, NEW list, NEW w,
           w = [work EXCEPT !.metadata[i] = list]
    PROVE  Fit(w)
<1>. DEFINE m == [work.metadata EXCEPT ![i] = list]
<1>1. w = [version |-> work.version, tables |-> work.tables, rows |-> work.rows,
           triggers |-> work.triggers, nodes |-> work.nodes, metadata |-> m,
           last |-> work.last]
  BY Running
<1>2. work.version \in EveryVersion /\ WellFormed(work)
  BY Running
<1>. HIDE DEF m
<1>3. /\ WellFormed(w) /\ w.version = work.version /\ w.tables = work.tables
      /\ w.rows = work.rows /\ w.nodes = work.nodes
  BY <1>1, <1>2, Changed, ZenonT(60)
<1>. QED  BY <1>3, Running DEF Fit

\* A change of the rows of search_folder_items alone.
LEMMA FolderFit ==
    ASSUME IInv, phase = "running", articles' = articles, NEW ids, NEW w,
           w = Filled(work, "search_folder_items", ids)
    PROVE  Fit(w)
<1>1. /\ "search_folder_items" \in TableNames
      /\ "items" \in TableNames \ {"search_folder_items"}
  BY DEF TableNames
<1>2. WellFormed(work)
  BY Running
<1>3. Refilled(w, work, "search_folder_items", ids)
  BY <1>1, <1>2, Fill
<1>4. /\ WellFormed(w) /\ w.version = work.version /\ w.tables = work.tables
      /\ w.nodes = work.nodes /\ w.rows["items"] = work.rows["items"]
  BY <1>1, <1>3 DEF Refilled, Kin, Elsewhere
<1>. QED  BY <1>4, Running DEF Fit

LEMMA FitWith ==
    ASSUME NEW w, NEW items, NEW nodes, WellFormed(w), w.version = Target, "items" \in w.tables,
           w.rows["items"] = items, w.nodes = nodes, articles' \subseteq Ids \ Comments,
           \A i \in articles' : /\ NodeOf[i] \in InitialNodes => NodeOf[i] \in nodes
                                /\ NodeOf[i] \in nodes => i \in items
    PROVE  Fit(w)
BY DEF Fit

\* Other rows of items and search_folder_items, and anything in the rest.
LEMMA RowsFit ==
    ASSUME IInv, phase = "running", NEW items, NEW folder, NEW metadata, NEW last, NEW w,
           w = [version |-> work.version, tables |-> work.tables,
                rows |-> [[work.rows EXCEPT !["items"] = items]
                            EXCEPT !["search_folder_items"] = folder],
                triggers |-> work.triggers, nodes |-> work.nodes, metadata |-> metadata,
                last |-> last],
           articles' \subseteq Ids \ Comments,
           \A i \in articles' : /\ NodeOf[i] \in InitialNodes => NodeOf[i] \in work.nodes
                                /\ NodeOf[i] \in work.nodes => i \in items
    PROVE  Fit(w)
<1>. DEFINE rows == [[work.rows EXCEPT !["items"] = items]
                        EXCEPT !["search_folder_items"] = folder]
<1>1. work.rows = [t \in TableNames |-> work.rows[t]]
  BY Running
<1>2. rows = [t \in TableNames |-> IF t = "search_folder_items" THEN folder
                                   ELSE IF t = "items" THEN items ELSE work.rows[t]]
  <2>. DEFINE r == work.rows
  <2>1. r = [t \in TableNames |-> r[t]]
    BY <1>1
  <2>. HIDE DEF r
  <2>2. [[r EXCEPT !["items"] = items] EXCEPT !["search_folder_items"] = folder]
          = [t \in TableNames |-> IF t = "search_folder_items" THEN folder
                                  ELSE IF t = "items" THEN items ELSE r[t]]
    BY <2>1
  <2>. QED  BY <2>2 DEF r
<1>3. rows["items"] = items
  <2>1. "items" \in TableNames
    BY DEF TableNames
  <2>. QED  BY <1>2, <2>1
<1>4. rows = [t \in TableNames |-> rows[t]]
  <2>. DEFINE f(t) == IF t = "search_folder_items" THEN folder
                      ELSE IF t = "items" THEN items ELSE work.rows[t]
  <2>1. rows = [t \in TableNames |-> f(t)]
    BY <1>2
  <2>. HIDE DEF rows, f
  <2>. QED  BY <2>1
<1>5. w = [version |-> work.version, tables |-> work.tables, rows |-> rows,
           triggers |-> work.triggers, nodes |-> work.nodes, metadata |-> metadata,
           last |-> last]
  OBVIOUS
<1>6. work.version \in EveryVersion /\ work.version = Target /\ "items" \in work.tables
  BY Running
<1>. HIDE DEF rows
<1>7. /\ WellFormed(w) /\ w.version = work.version /\ w.tables = work.tables
      /\ w.rows = rows /\ w.nodes = work.nodes
  BY <1>4, <1>5, <1>6, Assembled
<1>8. w.rows["items"] = items
  BY <1>3, <1>7
<1>9. w.version = Target /\ "items" \in w.tables
  BY <1>6, <1>7
<1>10. WellFormed(w) /\ w.nodes = work.nodes
  BY <1>7
<1>. QED  BY <1>8, <1>9, <1>10, FitWith

LEMMA SameFit ==
    ASSUME IInv, phase = "running", articles' \subseteq articles
    PROVE  Fit(work)
<1>1. articles' \subseteq Ids \ Comments
  BY Running
<1>. QED  BY <1>1, Running DEF Fit

LEMMA LoadFolderStep ==
    ASSUME IInv, LoadFolder
    PROVE  IInv'
<1>1. phase = "running" /\ phase' = "running" /\ open' = open /\ articles' = articles
  BY DEF LoadFolder, Unchanged, history
<1>2. ~open /\ work = disk
  BY <1>1, Running
<1>3. CASE UNCHANGED <<disk, work>>
  BY <1>1, <1>2, <1>3, SameFit, Storing
<1>4. CASE \E ids : Stored(Filled(work, "search_folder_items", ids))
  <2>1. PICK ids : Stored(Filled(work, "search_folder_items", ids))
    BY <1>4
  <2>. DEFINE w == Filled(work, "search_folder_items", ids)
  <2>2. Fit(w) /\ disk' = w /\ work' = w
    BY <1>1, <2>1, FolderFit DEF Stored
  <2>. HIDE DEF w
  <2>. QED  BY <1>1, <1>2, <2>2, Storing
<1>. QED  BY <1>3, <1>4 DEF LoadFolder

LEMMA Fields ==
    ASSUME IInv, phase = "running"
    PROVE  work = [version |-> work.version, tables |-> work.tables, rows |-> work.rows,
                   triggers |-> work.triggers, nodes |-> work.nodes,
                   metadata |-> work.metadata, last |-> work.last]
BY Running

(* Several fields of a record at once. *)

NodesAndFolder(d, nodes, folder) ==
    [d EXCEPT !.nodes = nodes, !.rows["search_folder_items"] = folder]

ItemAndFolder(d, items, folder, i, x) ==
    [d EXCEPT !.rows["items"] = items, !.rows["search_folder_items"] = folder, !.metadata[i] = x]

NewItem(d, last, items, folder, i, x) ==
    [d EXCEPT !.last = last, !.rows["items"] = items, !.rows["search_folder_items"] = folder,
              !.metadata[i] = x]

LEMMA NodesChanged ==
    ASSUME NEW d, NEW nodes, NEW folder,
           d = [version |-> d.version, tables |-> d.tables,
                rows |-> d.rows,
                triggers |-> d.triggers, nodes |-> d.nodes,
                metadata |-> d.metadata, last |-> d.last]
    PROVE  NodesAndFolder(d, nodes, folder)
           = [version |-> d.version, tables |-> d.tables,
              rows |-> [d.rows EXCEPT !["search_folder_items"] = folder],
              triggers |-> d.triggers, nodes |-> nodes,
              metadata |-> d.metadata, last |-> d.last]
<1>. DEFINE e == [version |-> d.version, tables |-> d.tables,
                   rows |-> d.rows,
                   triggers |-> d.triggers, nodes |-> nodes,
                   metadata |-> d.metadata, last |-> d.last]
<1>1. [d EXCEPT !.nodes = nodes] = e
  OBVIOUS
<1>2. e.rows = d.rows
  OBVIOUS
<1>3. [e EXCEPT !.rows = [e.rows EXCEPT !["search_folder_items"] = folder]]
      = [version |-> d.version, tables |-> d.tables,
         rows |-> [d.rows EXCEPT !["search_folder_items"] = folder],
         triggers |-> d.triggers, nodes |-> nodes, metadata |-> d.metadata, last |-> d.last]
  OBVIOUS
<1>. HIDE DEF e
<1>. QED  BY <1>1, <1>3 DEF NodesAndFolder

LEMMA RowsChanged ==
    ASSUME NEW d, NEW items, NEW folder, NEW i, NEW x,
           d = [version |-> d.version, tables |-> d.tables,
                rows |-> d.rows,
                triggers |-> d.triggers, nodes |-> d.nodes,
                metadata |-> d.metadata, last |-> d.last]
    PROVE  ItemAndFolder(d, items, folder, i, x)
           = [version |-> d.version, tables |-> d.tables,
              rows |-> [[d.rows EXCEPT !["items"] = items] EXCEPT !["search_folder_items"] = folder],
              triggers |-> d.triggers, nodes |-> d.nodes,
              metadata |-> [d.metadata EXCEPT ![i] = x], last |-> d.last]
<1>. DEFINE e == [version |-> d.version, tables |-> d.tables,
                   rows |-> [d.rows EXCEPT !["items"] = items],
                   triggers |-> d.triggers, nodes |-> d.nodes,
                   metadata |-> d.metadata, last |-> d.last]
            f == [version |-> d.version, tables |-> d.tables,
                   rows |-> [[d.rows EXCEPT !["items"] = items] EXCEPT !["search_folder_items"] = folder],
                   triggers |-> d.triggers, nodes |-> d.nodes,
                   metadata |-> d.metadata, last |-> d.last]
<1>2. [d EXCEPT !.rows = [d.rows EXCEPT !["items"] = items]] = e
  OBVIOUS
<1>3. e.rows = [d.rows EXCEPT !["items"] = items]
  OBVIOUS
<1>4. [e EXCEPT !.rows = [e.rows EXCEPT !["search_folder_items"] = folder]] = f
  OBVIOUS
<1>5. f.metadata = d.metadata
  OBVIOUS
<1>6. [f EXCEPT !.metadata = [f.metadata EXCEPT ![i] = x]]
      = [version |-> d.version, tables |-> d.tables,
         rows |-> [[d.rows EXCEPT !["items"] = items] EXCEPT !["search_folder_items"] = folder],
         triggers |-> d.triggers, nodes |-> d.nodes,
         metadata |-> [d.metadata EXCEPT ![i] = x], last |-> d.last]
  OBVIOUS
<1>. HIDE DEF e, f
<1>. QED  BY <1>2, <1>4, <1>6 DEF ItemAndFolder

LEMMA ItemAdded ==
    ASSUME NEW d, NEW last, NEW items, NEW folder, NEW i, NEW x,
           d = [version |-> d.version, tables |-> d.tables,
                rows |-> d.rows,
                triggers |-> d.triggers, nodes |-> d.nodes,
                metadata |-> d.metadata, last |-> d.last]
    PROVE  NewItem(d, last, items, folder, i, x)
           = [version |-> d.version, tables |-> d.tables,
              rows |-> [[d.rows EXCEPT !["items"] = items] EXCEPT !["search_folder_items"] = folder],
              triggers |-> d.triggers, nodes |-> d.nodes,
              metadata |-> [d.metadata EXCEPT ![i] = x], last |-> last]
<1>. DEFINE z == [version |-> d.version, tables |-> d.tables,
                   rows |-> d.rows,
                   triggers |-> d.triggers, nodes |-> d.nodes,
                   metadata |-> d.metadata, last |-> last]
            e == [version |-> d.version, tables |-> d.tables,
                   rows |-> [d.rows EXCEPT !["items"] = items],
                   triggers |-> d.triggers, nodes |-> d.nodes,
                   metadata |-> d.metadata, last |-> last]
            f == [version |-> d.version, tables |-> d.tables,
                   rows |-> [[d.rows EXCEPT !["items"] = items] EXCEPT !["search_folder_items"] = folder],
                   triggers |-> d.triggers, nodes |-> d.nodes,
                   metadata |-> d.metadata, last |-> last]
<1>0. [d EXCEPT !.last = last] = z
  OBVIOUS
<1>1. z.rows = d.rows
  OBVIOUS
<1>2. [z EXCEPT !.rows = [z.rows EXCEPT !["items"] = items]] = e
  OBVIOUS
<1>3. e.rows = [d.rows EXCEPT !["items"] = items]
  OBVIOUS
<1>4. [e EXCEPT !.rows = [e.rows EXCEPT !["search_folder_items"] = folder]] = f
  OBVIOUS
<1>5. f.metadata = d.metadata
  OBVIOUS
<1>6. [f EXCEPT !.metadata = [f.metadata EXCEPT ![i] = x]]
      = [version |-> d.version, tables |-> d.tables,
         rows |-> [[d.rows EXCEPT !["items"] = items] EXCEPT !["search_folder_items"] = folder],
         triggers |-> d.triggers, nodes |-> d.nodes,
         metadata |-> [d.metadata EXCEPT ![i] = x], last |-> last]
  OBVIOUS
<1>. HIDE DEF z, e, f
<1>. QED  BY <1>0, <1>2, <1>4, <1>6 DEF NewItem

LEMMA AddItemStep ==
    ASSUME IInv, NEW list, AddItem(list)
    PROVE  IInv'
<1>. DEFINE i == work.last + 1
            items == work.rows["items"] \union {i}
            rows == [work.rows EXCEPT !["items"] = items]
            folder == rows["search_folder_items"] \union ({i} \intersect Matching)
            m == [work.metadata EXCEPT ![i] = Saved(work.metadata[i], list)]
            w == [work EXCEPT !.last = i, !.rows["items"] = @ \union {i},
                              !.rows["search_folder_items"] = @ \union ({i} \intersect Matching),
                              !.metadata[i] = Saved(@, list)]
<1>1. /\ phase = "running" /\ phase' = "running" /\ open' = open
      /\ i \in Ids \ Comments /\ NodeOf[i] \in work.nodes /\ Stored(w)
      /\ articles' = articles \union {i}
  BY DEF AddItem, Step, Unchanged
<1>2. w = [version |-> work.version, tables |-> work.tables,
           rows |-> [rows EXCEPT !["search_folder_items"] = folder],
           triggers |-> work.triggers, nodes |-> work.nodes, metadata |-> m, last |-> i]
  <2>. DEFINE x == Saved(work.metadata[i], list)
  <2>1. w = [work EXCEPT !.last = i, !.rows["items"] = items,
                         !.rows["search_folder_items"] = folder, !.metadata[i] = x]
    BY <1>1, Fields
  <2>. HIDE DEF x, i, items, folder, w
  <2>2. NewItem(work, i, items, folder, i, x)
        = [version |-> work.version, tables |-> work.tables,
           rows |-> [rows EXCEPT !["search_folder_items"] = folder],
           triggers |-> work.triggers, nodes |-> work.nodes,
           metadata |-> [work.metadata EXCEPT ![i] = x], last |-> i]
    BY <1>1, Fields, ItemAdded
  <2>3. m = [work.metadata EXCEPT ![i] = x]
    BY DEF x
  <2>. HIDE DEF m, rows
  <2>. QED  BY <2>1, <2>2, <2>3 DEF NewItem
<1>3. articles' \subseteq Ids \ Comments
  BY <1>1, Running
<1>4. \A j \in articles' : /\ NodeOf[j] \in InitialNodes => NodeOf[j] \in work.nodes
                           /\ NodeOf[j] \in work.nodes => j \in items
  BY <1>1, Running
<1>5. Fit(w)
  <2>. HIDE DEF i, items, folder, m, w
  <2>. QED  BY <1>1, <1>2, <1>3, <1>4, RowsFit
<1>6. disk' = w /\ work' = w /\ ~open
  BY <1>1, Running DEF Stored
<1>. HIDE DEF w
<1>. QED  BY <1>1, <1>5, <1>6, Storing

LEMMA MergeItemStep ==
    ASSUME IInv, NEW i, NEW list, MergeItem(i, list)
    PROVE  IInv'
<1>. DEFINE w == [work EXCEPT !.metadata[i] = Saved(@, list)]
<1>1. /\ phase = "running" /\ phase' = "running" /\ open' = open /\ articles' = articles
      /\ Stored(w)
  BY DEF MergeItem, Step, Unchanged
<1>2. w = [work EXCEPT !.metadata[i] = Saved(work.metadata[i], list)]
  BY Running, <1>1
<1>3. Fit(w)
  <2>. HIDE DEF w
  <2>. QED  BY <1>1, <1>2, MetadataFit
<1>4. disk' = w /\ work' = w /\ ~open
  BY <1>1, Running DEF Stored
<1>. HIDE DEF w
<1>. QED  BY <1>1, <1>3, <1>4, Storing

LEMMA RemoveItemStep ==
    ASSUME IInv, NEW i, RemoveItem(i)
    PROVE  IInv'
<1>. DEFINE items == work.rows["items"] \ {i}
<1>1. /\ phase = "running" /\ phase' = "running" /\ open' = open
      /\ articles' = articles \ {i} /\ ~open
  BY Running DEF RemoveItem, Step, Unchanged
<1>2. articles' \subseteq Ids \ Comments
  BY <1>1, Running
<1>3. \A j \in articles' : /\ NodeOf[j] \in InitialNodes => NodeOf[j] \in work.nodes
                           /\ NodeOf[j] \in work.nodes => j \in items
  BY <1>1, Running
<1>4. CASE "item_removal" \in work.triggers
  <2>. DEFINE rows == [work.rows EXCEPT !["items"] = items]
              folder == rows["search_folder_items"] \ {i}
              m == [work.metadata EXCEPT ![i] = <<>>]
              w == [work EXCEPT !.rows["items"] = @ \ {i}, !.rows["search_folder_items"] = @ \ {i},
                                !.metadata[i] = <<>>]
  <2>1. Stored(w)
    BY <1>4 DEF RemoveItem
  <2>2. w = [version |-> work.version, tables |-> work.tables,
             rows |-> [rows EXCEPT !["search_folder_items"] = folder],
             triggers |-> work.triggers, nodes |-> work.nodes, metadata |-> m, last |-> work.last]
    <3>. DEFINE x == <<>>
    <3>1. w = [work EXCEPT !.rows["items"] = items, !.rows["search_folder_items"] = folder,
                           !.metadata[i] = x]
      BY <1>1, Fields
    <3>. HIDE DEF x, items, folder, w
    <3>2. ItemAndFolder(work, items, folder, i, x)
          = [version |-> work.version, tables |-> work.tables,
             rows |-> [rows EXCEPT !["search_folder_items"] = folder],
             triggers |-> work.triggers, nodes |-> work.nodes,
             metadata |-> [work.metadata EXCEPT ![i] = x], last |-> work.last]
      BY <1>1, Fields, RowsChanged
    <3>3. m = [work.metadata EXCEPT ![i] = x]
      BY DEF x
    <3>. HIDE DEF m, rows
    <3>. QED  BY <3>1, <3>2, <3>3 DEF ItemAndFolder
  <2>3. Fit(w)
    <3>. DEFINE last == work.last
    <3>1. w = [version |-> work.version, tables |-> work.tables,
               rows |-> [rows EXCEPT !["search_folder_items"] = folder],
               triggers |-> work.triggers, nodes |-> work.nodes, metadata |-> m, last |-> last]
      BY <2>2
    <3>. HIDE DEF items, folder, m, w, last
    <3>. QED  BY <1>1, <1>2, <1>3, <3>1, RowsFit
  <2>4. disk' = w /\ work' = w
    BY <2>1 DEF Stored
  <2>. HIDE DEF w
  <2>. QED  BY <1>1, <2>3, <2>4, Storing
<1>5. CASE "item_removal" \notin work.triggers
  <2>. DEFINE w == Filled(work, "items", items)
  <2>1. disk' = w /\ work' = w
    BY <1>5 DEF RemoveItem, Stored, Filled
  <2>2. "items" \in TableNames
    BY DEF TableNames
  <2>3. Refilled(w, work, "items", items)
    BY <1>1, <2>2, Running, Fill
  <2>4. Fit(w)
    <3>. HIDE DEF w, items
    <3>1. /\ WellFormed(w) /\ w.version = work.version /\ w.nodes = work.nodes
          /\ w.tables = work.tables /\ w.rows["items"] = items
      BY <2>3 DEF Refilled, Kin
    <3>. QED  BY <1>1, <1>2, <1>3, <3>1, Running DEF Fit
  <2>. HIDE DEF w
  <2>. QED  BY <1>1, <2>1, <2>4, Storing
<1>. QED  BY <1>4, <1>5

LEMMA RemoveFeedStep ==
    ASSUME IInv, NEW n, RemoveFeed(n)
    PROVE  IInv'
<1>1. /\ phase = "running" /\ phase' = "running" /\ open' = open
      /\ articles' = {i \in articles : NodeOf[i] # n} /\ ~open
  BY Running DEF RemoveFeed, Step, Unchanged
<1>2. CASE "subscription_removal" \in work.triggers
  <2>. DEFINE w == [work EXCEPT !.nodes = @ \ {n},
                                !.rows["search_folder_items"] = {i \in @ : NodeOf[i] # n}]
              rows == [work.rows EXCEPT !["search_folder_items"] =
                         {i \in work.rows["search_folder_items"] : NodeOf[i] # n}]
              nodes == work.nodes \ {n}
  <2>1. disk' = w /\ work' = w
    BY <1>2 DEF RemoveFeed, Stored
  <2>2. w = [version |-> work.version, tables |-> work.tables, rows |-> rows,
             triggers |-> work.triggers, nodes |-> nodes, metadata |-> work.metadata,
             last |-> work.last]
    <3>. DEFINE x == {i \in work.rows["search_folder_items"] : NodeOf[i] # n}
    <3>1. w = [work EXCEPT !.nodes = nodes, !.rows["search_folder_items"] = x]
      BY <1>1, Fields
    <3>2. rows = [work.rows EXCEPT !["search_folder_items"] = x]
      OBVIOUS
    <3>. HIDE DEF x, nodes, w, rows
    <3>3. NodesAndFolder(work, nodes, x)
          = [version |-> work.version, tables |-> work.tables,
             rows |-> [work.rows EXCEPT !["search_folder_items"] = x],
             triggers |-> work.triggers, nodes |-> nodes, metadata |-> work.metadata,
             last |-> work.last]
      BY <1>1, Fields, NodesChanged
    <3>. QED  BY <3>1, <3>2, <3>3 DEF NodesAndFolder
  <2>3. rows = [t \in TableNames |-> rows[t]] /\ rows["items"] = work.rows["items"]
    <3>. DEFINE r == work.rows
                x == {i \in work.rows["search_folder_items"] : NodeOf[i] # n}
    <3>1. r = [t \in TableNames |-> r[t]] /\ "items" \in TableNames
      BY <1>1, Running DEF TableNames
    <3>. HIDE DEF r, x
    <3>2. /\ [r EXCEPT !["search_folder_items"] = x]
              = [t \in TableNames |-> [r EXCEPT !["search_folder_items"] = x][t]]
          /\ [r EXCEPT !["search_folder_items"] = x]["items"] = r["items"]
      BY <3>1
    <3>. QED  BY <3>2 DEF r, x
  <2>4. work.version \in EveryVersion
    BY <1>1, Running
  <2>. HIDE DEF w, rows, nodes
  <2>5. /\ WellFormed(w) /\ w.version = work.version /\ w.tables = work.tables
        /\ w.rows = rows /\ w.nodes = nodes
    BY <2>2, <2>3, <2>4, Assembled
  <2>6. articles' \subseteq Ids \ Comments
    BY <1>1, Running
  <2>7. \A i \in articles' : /\ NodeOf[i] \in InitialNodes => NodeOf[i] \in nodes
                             /\ NodeOf[i] \in nodes => i \in rows["items"]
    BY <1>1, <2>3, Running DEF nodes
  <2>8. Fit(w)
    <3>1. w.version = Target /\ "items" \in w.tables
      BY <1>1, <2>5, Running
    <3>. QED  BY <2>5, <2>6, <2>7, <3>1 DEF Fit
  <2>. QED  BY <1>1, <2>1, <2>8, Storing
<1>3. CASE "subscription_removal" \notin work.triggers
  <2>1. disk' = work /\ work' = work
    BY <1>3 DEF RemoveFeed, Stored
  <2>. QED  BY <1>1, <2>1, SameFit, Storing
<1>. QED  BY <1>2, <1>3

LEMMA ViewItemStep ==
    ASSUME IInv, NEW i, ViewItem(i)
    PROVE  IInv'
<1>. DEFINE x == Saved(work.metadata[i],
                       SetValue(Loaded(work.metadata[i]), "commentFeedJson", "fetching"))
            w == [work EXCEPT !.metadata[i] = x]
<1>1. /\ phase = "running" /\ phase' = "running" /\ open' = open /\ articles' = articles
      /\ Stored(MarkedItem(i))
  BY DEF ViewItem, Step, Unchanged
<1>2. MarkedItem(i) = w
  BY <1>1, Running DEF MarkedItem
<1>3. Fit(w)
  <2>. HIDE DEF x
  <2>. QED  BY <1>1, MetadataFit
<1>4. disk' = w /\ work' = w /\ ~open
  BY <1>1, <1>2, Running DEF Stored
<1>. HIDE DEF w
<1>. QED  BY <1>1, <1>3, <1>4, Storing

LEMMA CommentsAnsweredStep ==
    ASSUME IInv, NEW i, NEW answer, CommentsAnswered(i, answer)
    PROVE  IInv'
<1>. DEFINE x == Saved(work.metadata[i],
                       SetValue(Loaded(work.metadata[i]), "commentFeedJson", answer))
            w == [work EXCEPT !.metadata[i] = x]
<1>1. /\ phase = "running" /\ phase' = "running" /\ open' = open /\ articles' = articles
  BY DEF CommentsAnswered, Unchanged
<1>2. ~open /\ work = disk
  BY <1>1, Running
<1>3. CASE UNCHANGED <<disk, work>>
  BY <1>1, <1>2, <1>3, SameFit, Storing
<1>4. CASE disk' = w /\ work' = w
  <2>1. Fit(w)
    <3>. HIDE DEF x
    <3>. QED  BY <1>1, MetadataFit
  <2>. HIDE DEF w
  <2>. QED  BY <1>1, <1>2, <1>4, <2>1, Storing
<1>. QED  BY <1>1, <1>3, <1>4, Running DEF CommentsAnswered, Stored

-----------------------------------------------------------------------------
(* The end of a start, the first state, and the invariant. *)

LEMMA StartedStep ==
    ASSUME IInv, Started
    PROVE  IInv'
<1>. DEFINE listed == [work EXCEPT !.nodes = @ \union InitialNodes]
            emptied == Filled(listed, "search_folder_items", {})
            nodes == work.nodes \union InitialNodes
<1>1. /\ phase = "starting" /\ execs = <<>> /\ todo = <<>> /\ ~open
      /\ phase' = "running" /\ open' = open /\ articles' = articles
  BY DEF Started, history
<1>2. (disk' = listed /\ work' = listed) \/ (disk' = emptied /\ work' = emptied)
  BY DEF Started, Stored
<1>3. /\ work = disk /\ disk.version = Target /\ "items" \in disk.tables
      /\ WellFormed(work) /\ work.version \in EveryVersion
  BY <1>1, Started0 DEF IInv, WellFormed
<1>4. listed = [version |-> work.version, tables |-> work.tables, rows |-> work.rows,
                triggers |-> work.triggers, nodes |-> nodes, metadata |-> work.metadata,
                last |-> work.last]
  <2>1. work = [version |-> work.version, tables |-> work.tables, rows |-> work.rows,
                triggers |-> work.triggers, nodes |-> work.nodes, metadata |-> work.metadata,
                last |-> work.last]
    BY <1>3 DEF WellFormed
  <2>. QED  BY <2>1
<1>5. Kept \subseteq disk.rows["items"]
  BY DEF IInv, Sound, Holds
<1>6. articles' \subseteq Ids \ Comments
  BY <1>1 DEF IInv
<1>7. \A i \in articles' : /\ NodeOf[i] \in InitialNodes => NodeOf[i] \in nodes
                           /\ NodeOf[i] \in nodes => i \in work.rows["items"]
  BY <1>1, <1>3, <1>5 DEF IInv, Kept
<1>8. /\ WellFormed(listed) /\ listed.version = Target /\ listed.tables = work.tables
      /\ listed.rows["items"] = work.rows["items"] /\ listed.nodes = nodes
  <2>. HIDE DEF listed, nodes
  <2>. QED  BY <1>3, <1>4, Changed
<1>9. Fit(listed)
  <2>. HIDE DEF listed, nodes
  <2>. QED  BY <1>3, <1>6, <1>7, <1>8, FitWith
<1>10. Fit(emptied)
  <2>. HIDE DEF listed, nodes
  <2>1. /\ "search_folder_items" \in TableNames
        /\ "items" \in TableNames \ {"search_folder_items"}
    BY DEF TableNames
  <2>2. Refilled(emptied, listed, "search_folder_items", {})
    BY <1>8, <2>1, Fill
  <2>. HIDE DEF emptied
  <2>3. /\ WellFormed(emptied) /\ emptied.version = Target /\ emptied.tables = work.tables
        /\ emptied.nodes = nodes /\ emptied.rows["items"] = work.rows["items"]
    BY <1>8, <2>1, <2>2 DEF Refilled, Kin, Elsewhere
  <2>. QED  BY <1>3, <1>6, <1>7, <2>3, FitWith
<1>. HIDE DEF listed, emptied
<1>. QED  BY <1>1, <1>2, <1>9, <1>10, Storing

LEMMA OldSound ==
    ASSUME NEW v \in InitialVersions, NEW n
    PROVE  /\ WellFormed(OldDatabase(v, n)) /\ Shaped(OldDatabase(v, n))
           /\ OldDatabase(v, n).rows["items"] \subseteq InitialItems
           /\ OldDatabase(v, n).rows["items"] # {} => OldDatabase(v, n).nodes = InitialNodes
           /\ OldDatabase(v, n).version \in 5..7 =>
                OldDatabase(v, n).rows["items"] = OldDatabase(v, n).rows["itemsets"]
<1>. DEFINE d == OldDatabase(v, n)
            tables == CASE v = 0 -> {}
                        [] v \in 1..7 -> {"info", "items", "itemsets", "attention_stats",
                                          "view_state", "update_state", "views"}
                        [] v = 8 -> {"info", "items", "view_state", "update_state", "views"}
                        [] v \in 9..12 -> {"info", "items", "search_folder_items",
                                           "update_state"}
            holds(t) == IF t \notin tables THEN {}
                        ELSE CASE t \in {"items", "itemsets"} -> InitialItems
                               [] t \in {"views", "search_folder_items"} ->
                                    InitialItems \intersect Matching
                               [] OTHER -> {}
            triggers == IF v = 0 THEN {} ELSE {"item_removal"} \union
                           (IF v < 7 THEN {"item_insert"} ELSE {"subscription_removal"})
            nodes == IF v = 0 THEN {} ELSE InitialNodes
            metadata == [i \in Ids |-> <<>>]
            last == IF v = 0 THEN 0 ELSE n
<1>1. v \in EveryVersion
  BY DatabaseAssumption DEF EveryVersion, Target
<1>2. v = 0 \/ v \in {1, 2, 3, 4} \/ v \in {5, 6, 7} \/ v = 8 \/ v \in {9, 10}
      \/ v \in {11, 12}
  BY DatabaseAssumption DEF Target
<1>3. d = [version |-> v, tables |-> tables, rows |-> [t \in TableNames |-> holds(t)],
           triggers |-> triggers, nodes |-> nodes, metadata |-> metadata, last |-> last]
  BY DEF OldDatabase
<1>. HIDE DEF d
<1>4. {"items", "itemsets"} \subseteq TableNames
  BY DEF TableNames
<1>5. /\ holds("items") = IF "items" \in tables THEN InitialItems ELSE {}
      /\ holds("itemsets") = IF "itemsets" \in tables THEN InitialItems ELSE {}
  OBVIOUS
<1>6. /\ d.rows = [t \in TableNames |-> d.rows[t]] /\ WellFormed(d)
      /\ d.version = v /\ d.tables = tables /\ d.nodes = nodes
      /\ d.rows["items"] = holds("items") /\ d.rows["itemsets"] = holds("itemsets")
  <2>. HIDE DEF tables, holds, triggers, nodes, metadata, last
  <2>. DEFINE rows == [t \in TableNames |-> holds(t)]
  <2>1. /\ rows = [t \in TableNames |-> rows[t]]
        /\ rows["items"] = holds("items") /\ rows["itemsets"] = holds("itemsets")
    BY <1>4
  <2>2. d = [version |-> v, tables |-> tables, rows |-> rows, triggers |-> triggers,
             nodes |-> nodes, metadata |-> metadata, last |-> last]
    BY <1>3
  <2>. HIDE DEF rows
  <2>. QED  BY <1>1, <2>1, <2>2, Assembled
<1>. HIDE DEF holds, triggers, metadata, last
<1>7. Present(v) \subseteq tables /\ Missing(v) \intersect tables = {}
  <2>1. CASE v = 0 \/ v \in {1, 2, 3, 4}
    BY <2>1 DEF Present, Missing
  <2>2. CASE v \in {5, 6, 7}
    BY <2>2 DEF Present, Missing
  <2>3. CASE v = 8
    BY <2>3 DEF Present, Missing
  <2>4. CASE v \in {9, 10}
    BY <2>4 DEF Present, Missing
  <2>5. CASE v \in {11, 12}
    BY <2>5 DEF Present, Missing
  <2>. QED  BY <1>2, <2>1, <2>2, <2>3, <2>4, <2>5
<1>8. v \in 5..7 => "items" \in tables /\ "itemsets" \in tables
  <2>1. v \in 5..7 => v \in {5, 6, 7}
    OBVIOUS
  <2>. QED  BY <2>1
<1>9. v = 0 => "items" \notin tables
  OBVIOUS
<1>. HIDE DEF tables
<1>10. Shaped(d)
  BY <1>5, <1>6, <1>7 DEF Shaped
<1>11. holds("items") \subseteq InitialItems
  BY <1>5
<1>12. holds("items") # {} => nodes = InitialNodes
  BY <1>5, <1>9
<1>13. v \in 5..7 => holds("items") = holds("itemsets")
  BY <1>5, <1>8
<1>. HIDE DEF nodes
<1>. QED  BY <1>6, <1>10, <1>11, <1>12, <1>13 DEF d

LEMMA InitStep ==
    ASSUME Init
    PROVE  IInv
<1>1. PICK v \in InitialVersions, n \in 0..Cardinality(Ids) : disk = OldDatabase(v, n)
  BY DEF Init
<1>2. /\ work = disk /\ open = FALSE /\ phase = "off"
      /\ articles = disk.rows["items"] \ Comments
  BY DEF Init
<1>3. /\ WellFormed(disk) /\ Shaped(disk) /\ disk.rows["items"] \subseteq InitialItems
      /\ disk.rows["items"] # {} => disk.nodes = InitialNodes
      /\ disk.version \in 5..7 => disk.rows["items"] = disk.rows["itemsets"]
  BY <1>1, OldSound
<1>4. articles \subseteq Ids \ Comments
  BY <1>2, <1>3, DatabaseAssumption
<1>5. \A i \in articles : NodeOf[i] \in InitialNodes => NodeOf[i] \in disk.nodes
  BY <1>2, <1>3
<1>6. Sound(disk)
  BY <1>2, <1>3 DEF Sound, Holds, Kept
<1>. QED  BY <1>2, <1>3, <1>4, <1>5, <1>6 DEF IInv, Clean, FatalVersions

LEMMA IdleStep ==
    ASSUME IInv, UNCHANGED vars
    PROVE  IInv'
<1>1. UNCHANGED <<disk, work, open, phase, todo, execs, articles>>
  BY DEF vars, history
<1>2. Kept' = Kept /\ Block' = Block
  BY <1>1 DEF Kept, Block
<1>3. Clean' = Clean /\ Sound(disk)' /\ Sound(work)' = Sound(work)
  BY <1>1, <1>2 DEF IInv, Clean, Sound, Holds
<1>4. Between' = Between /\ StuckVersion' = StuckVersion
  BY <1>1, <1>2, <1>3 DEF Between, StuckVersion
<1>5. Stuck' = Stuck /\ NewFile' = NewFile /\ Checking' = Checking
  BY <1>1, <1>2, <1>3, <1>4 DEF Stuck, NewFile, Checking
<1>6. Finishing' = Finishing
  BY <1>1, <1>2, <1>3 DEF Finishing, Creating
<1>7. ASSUME NEW s, NEW m
      PROVE  Position(s, m)' = Position(s, m)
  BY <1>1 DEF Position
<1>8. ASSUME NEW b, NEW m
      PROVE  MadeAt(b, m)' = MadeAt(b, m)
  <2>1. ASSUME NEW v, NEW tables, NEW holders
        PROVE  Made(v, tables, holders)' = Made(v, tables, holders)
    BY <1>1, <1>2 DEF Made, Holds
  <2>. QED
    BY <1>1, <1>3, <2>1, ZenonT(60) DEF MadeAt, TriggersAt, WiderAt, To8At, To9At, To10At, To11At
<1>9. Migrating' = Migrating
  BY <1>1, <1>2, <1>7, <1>8 DEF Migrating
<1>10. Starting' = Starting
  BY <1>1, <1>2, <1>4, <1>5, <1>6, <1>9 DEF Starting
<1>. QED  BY <1>1, <1>3, <1>10 DEF IInv, FatalVersions

LEMMA NextStep ==
    ASSUME IInv, [Next]_vars
    PROVE  IInv'
<1>1. CASE Start
  BY <1>1, StartStep
<1>2. CASE EnterBlock
  BY <1>2, EnterStep
<1>3. CASE Execute
  BY <1>3, ExecuteStep
<1>4. CASE Check
  BY <1>4, CheckStep
<1>5. CASE Started
  BY <1>5, StartedStep
<1>6. CASE Crash
  BY <1>6, CrashStep
<1>7. CASE LoadFolder
  BY <1>7, LoadFolderStep
<1>8. CASE \E list \in FeedMetadata : AddItem(list)
  BY <1>8, AddItemStep
<1>9. CASE \E list \in FeedMetadata : \E i \in Ids : MergeItem(i, list)
  BY <1>9, MergeItemStep
<1>10. CASE \E i \in Ids : RemoveItem(i)
  BY <1>10, RemoveItemStep
<1>11. CASE \E i \in Ids : ViewItem(i)
  BY <1>11, ViewItemStep
<1>12. CASE \E i \in Ids : \E a \in Answers : CommentsAnswered(i, a)
  BY <1>12, CommentsAnsweredStep
<1>13. CASE \E n \in InitialNodes : RemoveFeed(n)
  BY <1>13, RemoveFeedStep
<1>14. CASE UNCHANGED vars
  BY <1>14, IdleStep
<1>. QED
  BY <1>1, <1>2, <1>3, <1>4, <1>5, <1>6, <1>7, <1>8, <1>9, <1>10, <1>11, <1>12, <1>13,
     <1>14 DEF Next

\* What is on disk is always an old database whose migration can be carried out again, or
\* a current one; what a migration has made by then of the copy it works on follows from
\* the statements that are left.
THEOREM Invariant == Spec => []IInv
<1>1. Init => IInv
  BY InitStep
<1>2. IInv /\ [Next]_vars => IInv'
  BY NextStep
<1>. QED  BY <1>1, <1>2, PTL DEF Spec

\* No crash, between any two statements of a migration, of the cleanup or of the running
\* program, takes an article from the database whose feed is still there.
THEOREM ArticlesKept == Spec => []ArticlesSurvive
<1>1. IInv => ArticlesSurvive
  <2>. SUFFICES ASSUME IInv, NEW i \in articles, NodeOf[i] \in disk.nodes
       PROVE  i \in disk.rows["items"]
              /\ (disk.version \in 5..7 => i \in disk.rows["itemsets"])
    BY DEF ArticlesSurvive
  <2>1. i \in Kept
    BY DEF Kept
  <2>2. Holds(disk, {"items"} \union IF disk.version \in 5..7 THEN {"itemsets"} ELSE {})
    BY DEF IInv, Sound
  <2>. QED  BY <2>1, <2>2 DEF Holds
<1>. QED  BY <1>1, Invariant, PTL

-----------------------------------------------------------------------------
(***************************************************************************)
(* Which starts fail.  What the triggers of an old database, and the table *)
(* info of a new one, say about the starts before this one: as long as no  *)
(* other died, a start finds them whole and commits what it does.          *)
(***************************************************************************)
OldTriggers == {"item_removal", "item_insert"}

\* What a start finds if no other died before it.
Whole ==
    /\ disk.version \in {5, 6} => disk.triggers = OldTriggers
    /\ disk.version = 0 => disk.tables = {}

NoTriggers == disk.version \in {5, 6} => disk.triggers = {} /\ work.triggers = {}

\* A file with table info and without a version is of a start that died in between.
Unnumbered == disk.version = 0 => crashes > 0 /\ disk.tables = {"info"}

FileCut ==
    \/ execs = <<>> /\ disk.version \notin {-1, 0} /\ (crashes = 0 => Whole)
    \/ execs = Opening /\ (crashes = 0 => Whole)
    \/ execs = Numbering
    \/ execs = Adopting /\ Unnumbered
    \/ execs = Judging /\ disk.version # -1 /\ Unnumbered

\* What is left of the transaction that drops the old triggers.
Dropping(m) == <<SubSeq(Steps(2), m, 4)>>

TriggersCut ==
    \/ execs = <<>> /\ NoTriggers /\ (crashes = 0 => ~open)
    \/ /\ disk.version \in {5, 6}
       /\ \/ execs = Dropping(1) /\ Clean /\ (crashes = 0 => Whole)
          \/ /\ execs = Dropping(2) /\ open /\ work.triggers = disk.triggers
             /\ crashes = 0 => Whole
          \/ /\ execs = Dropping(3) /\ open /\ disk.triggers = OldTriggers
             /\ work.triggers = {"item_insert"}
          \/ execs = Dropping(4) /\ open /\ work.triggers = {}

\* If no start died before, the transactions of this one are carried through.
LaterCut ==
    /\ NoTriggers
    /\ crashes = 0 /\ disk.version \in {5, 6} /\ open => Migrating

CutOnDisk ==
    /\ crashes \in Nat
    /\ disk.version \in {5, 6} => disk.triggers \in {OldTriggers, {}}
    /\ disk.version = 0 => disk.tables \in {{}, {"info"}}

CutInv ==
    /\ CutOnDisk
    /\ phase = "off" /\ crashes = 0 => Whole
    /\ phase = "fatal" => crashes > 0
    /\ phase = "starting" =>
          /\ Block = 0 => execs = <<>> /\ (crashes = 0 => Whole)
          /\ Block = 1 => FileCut
          /\ Block = 2 => TriggersCut
          /\ Block > 2 => LaterCut
    /\ StartSucceeds

LEMMA FilledFields ==
    ASSUME NEW x, x = [version |-> x.version, tables |-> x.tables, rows |-> x.rows,
                       triggers |-> x.triggers, nodes |-> x.nodes, metadata |-> x.metadata,
                       last |-> x.last], NEW t, NEW ids
    PROVE  Filled(x, t, ids).triggers = x.triggers /\ Filled(x, t, ids).version = x.version
<1>. DEFINE rows == [x.rows EXCEPT ![t] = ids]
<1>1. Filled(x, t, ids) = [x EXCEPT !.rows = rows]
  BY DEF Filled
<1>. HIDE DEF rows
<1>. QED  BY <1>1

\* Only CREATE TRIGGER adds a trigger, and only two statements change the version.
LEMMA TriggersLeft ==
    ASSUME NEW w, WellFormed(w), NEW s, s.op # "create trigger", NEW u, u = Effect(s, w)
    PROVE  /\ u.triggers \subseteq w.triggers
           /\ s.op \notin {"version", "adopt"} => u.version = w.version
<1>1. w = [version |-> w.version, tables |-> w.tables, rows |-> w.rows,
           triggers |-> w.triggers, nodes |-> w.nodes, metadata |-> w.metadata,
           last |-> w.last]
  BY DEF WellFormed
<1>2. ASSUME NEW t, NEW ids
      PROVE  Filled(w, t, ids).triggers = w.triggers /\ Filled(w, t, ids).version = w.version
  BY <1>1, FilledFields
<1>3. CASE s.op = "create"
  <2>. DEFINE tables == w.tables \union {s.t}
              triggers == w.triggers
              x == [w EXCEPT !.tables = tables, !.triggers = triggers]
  <2>1. u = Filled([w EXCEPT !.tables = tables], s.t, {})
    BY <1>3 DEF Effect
  <2>2. [w EXCEPT !.tables = tables] = x
    <3>. HIDE DEF tables
    <3>. QED  BY <1>1
  <2>3. u = Filled(x, s.t, {})
    BY <2>1, <2>2
  <2>4. u.triggers = triggers /\ u.version = w.version
    <3>. HIDE DEF tables, triggers
    <3>1. x = [w EXCEPT !.tables = tables, !.triggers = triggers]
      OBVIOUS
    <3>. HIDE DEF x
    <3>2. /\ x = [version |-> x.version, tables |-> x.tables, rows |-> x.rows,
                   triggers |-> x.triggers, nodes |-> x.nodes, metadata |-> x.metadata,
                   last |-> x.last]
          /\ x.triggers = triggers /\ x.version = w.version
      <4>1. x = [version |-> w.version, tables |-> tables, rows |-> w.rows,
                 triggers |-> triggers, nodes |-> w.nodes, metadata |-> w.metadata,
                 last |-> w.last]
        BY <1>1, <3>1
      <4>. QED  BY <4>1
    <3>3. /\ Filled(x, s.t, {}).triggers = x.triggers
          /\ Filled(x, s.t, {}).version = x.version
      BY <3>2, FilledFields
    <3>. QED  BY <2>3, <3>2, <3>3
  <2>. QED  BY <2>4
<1>4. CASE s.op = "drop"
  <2>. DEFINE tables == w.tables \ {s.t}
              triggers == IF s.t = "items" THEN w.triggers \ {"item_removal", "item_insert"}
                          ELSE w.triggers
              x == [w EXCEPT !.tables = tables, !.triggers = triggers]
  <2>1. u = Filled(x, s.t, {})
    BY <1>4 DEF Effect
  <2>2. u.triggers = triggers /\ u.version = w.version
    <3>. HIDE DEF tables, triggers
    <3>1. x = [w EXCEPT !.tables = tables, !.triggers = triggers]
      OBVIOUS
    <3>. HIDE DEF x
    <3>2. /\ x = [version |-> x.version, tables |-> x.tables, rows |-> x.rows,
                   triggers |-> x.triggers, nodes |-> x.nodes, metadata |-> x.metadata,
                   last |-> x.last]
          /\ x.triggers = triggers /\ x.version = w.version
      <4>1. x = [version |-> w.version, tables |-> tables, rows |-> w.rows,
                 triggers |-> triggers, nodes |-> w.nodes, metadata |-> w.metadata,
                 last |-> w.last]
        BY <1>1, <3>1
      <4>. QED  BY <4>1
    <3>3. /\ Filled(x, s.t, {}).triggers = x.triggers
          /\ Filled(x, s.t, {}).version = x.version
      BY <3>2, FilledFields
    <3>. QED  BY <2>1, <3>2, <3>3
  <2>3. triggers \subseteq w.triggers
    OBVIOUS
  <2>. QED  BY <2>2, <2>3
<1>5. CASE s.op \in {"copy", "join", "items without node", "folder rows without node",
                     "legacy comments"}
  <2>1. \E t, ids : u = Filled(w, t, ids)
    BY <1>5 DEF Effect
  <2>. QED  BY <1>2, <2>1
<1>6. CASE s.op = "rename"
  <2>1. u = [w EXCEPT !.tables = (@ \ {"items_new"}) \union {"items"},
                      !.rows["items"] = w.rows["items_new"], !.rows["items_new"] = {}]
    BY <1>6 DEF Effect
  <2>. QED  BY <1>1, <2>1
<1>7. CASE s.op = "version"
  <2>1. u = [w EXCEPT !.version = s.t]
    BY <1>7 DEF Effect
  <2>. QED  BY <1>1, <1>7, <2>1
<1>8. CASE s.op = "adopt"
  <2>1. u = [w EXCEPT !.version = IF @ = -1 THEN Target ELSE @]
    BY <1>8 DEF Effect
  <2>. QED  BY <1>1, <1>8, <2>1
<1>9. CASE s.op = "drop trigger"
  <2>1. u = [w EXCEPT !.triggers = @ \ {s.t}]
    BY <1>9 DEF Effect
  <2>. QED  BY <1>1, <2>1
<1>10. CASE s.op = "comments of itemsets"
  <2>1. u = [w EXCEPT !.rows["itemsets"] = @ \ Comments, !.rows["items"] = @ \ Comments]
    BY <1>10 DEF Effect
  <2>. QED  BY <1>1, <2>1
<1>11. CASE s.op = "metadata without item"
  <2>. DEFINE m == [i \in Ids |-> IF i \in w.rows["items"] THEN w.metadata[i] ELSE <<>>]
  <2>1. u = [w EXCEPT !.metadata = m]
    BY <1>1, <1>11 DEF Effect
  <2>. HIDE DEF m
  <2>. QED  BY <1>1, <2>1
<1>12. CASE s.op \notin {"create", "drop", "copy", "join", "items without node",
                         "folder rows without node", "legacy comments", "rename", "version",
                         "adopt", "drop trigger", "comments of itemsets",
                         "metadata without item"}
  <2>1. u = w
    BY <1>12 DEF Effect
  <2>. QED  BY <2>1
<1>. QED  BY <1>3, <1>4, <1>5, <1>6, <1>7, <1>8, <1>9, <1>10, <1>11, <1>12

LEMMA Executed ==
    ASSUME Execute
    PROVE  /\ work' \in {work, Effect(Statement, work)}
           /\ IF open' THEN disk' = disk ELSE disk' = work'
           /\ ~open /\ open' => Statement.op = "begin"
           /\ crashes' = crashes /\ phase = "starting" /\ phase' = "starting" /\ execs # <<>>
           /\ Block' = Block /\ Statement.op # "check"
<1>1. crashes' = crashes
  BY DEF Execute
<1>2. work' \in {work, Effect(Statement, work)}
  BY DEF Execute
<1>3. IF open' THEN disk' = disk ELSE disk' = work'
  BY DEF Execute
<1>4. ~open /\ open' => Statement.op = "begin"
  BY DEF Execute
<1>. QED  BY <1>1, <1>2, <1>3, <1>4, ExecuteFrame

\* A statement on a trigger looks at the triggers there are.
LEMMA DropsTrigger ==
    ASSUME Execute, WellFormed(work), NEW t, Statement = DropTrigger(t)
    PROVE  IF t \in work.triggers THEN Passed /\ work'.triggers = work.triggers \ {t}
           ELSE Failed
<1>. DEFINE s == DropTrigger(t)
<1>1. s.op \notin {"begin", "end"} /\ s.t = t
  BY DEF DropTrigger
<1>2. Effect(s, work) = [work EXCEPT !.triggers = work.triggers \ {t}]
      /\ (Fails(s, work) <=> t \notin work.triggers)
  <2>1. s.op = "drop trigger"
    BY DEF DropTrigger
  <2>. HIDE DEF s
  <2>. QED  BY <1>1, <2>1 DEF Effect, Fails, WellFormed
<1>3. Statement = s
  OBVIOUS
<1>. HIDE DEF s
<1>4. IF Fails(s, work) THEN Failed ELSE Passed /\ work' = Effect(s, work)
  BY <1>1, <1>3, Ran
<1>5. work = [version |-> work.version, tables |-> work.tables, rows |-> work.rows,
              triggers |-> work.triggers, nodes |-> work.nodes, metadata |-> work.metadata,
              last |-> work.last]
  BY DEF WellFormed
<1>6. Effect(s, work).triggers = work.triggers \ {t}
  BY <1>2, <1>5
<1>. QED  BY <1>2, <1>4, <1>6

LEMMA MigrationVersions ==
    /\ \A b \in 2..8 : DbInit[b].versions \subseteq 5..10
    /\ DbInit[2].versions = {5, 6} /\ DbInit[3].versions = {5} /\ DbInit[4].versions = {6}
    /\ \A b \in 5..8 : DbInit[b].versions \subseteq 7..10
<1>1. DbInit[2].versions = {5, 6}
  BY Blocks, TriggersSteps
<1>2. DbInit[3].versions = {5} /\ DbInit[4].versions = {6}
  <2>1. DbInit[3].versions = {3 + 2} /\ DbInit[4].versions = {4 + 2}
    BY WiderSteps
  <2>. QED  BY <2>1
<1>3. /\ DbInit[5].versions = {7} /\ DbInit[6].versions = {8} /\ DbInit[7].versions = {9}
      /\ DbInit[8].versions = {10}
  BY To8Steps, To9Steps, To10Steps, To11Steps
<1>4. /\ \A b \in 2..8 : b \in {2, 3, 4, 5, 6, 7, 8}
      /\ \A b \in 5..8 : b \in {5, 6, 7, 8}
  OBVIOUS
<1>5. \A b \in {5, 6, 7, 8} : DbInit[b].versions \subseteq 7..10
  BY <1>3
<1>6. \A b \in {2, 3, 4, 5, 6, 7, 8} : DbInit[b].versions \subseteq 5..10
  BY <1>1, <1>2, <1>3
<1>. QED  BY <1>1, <1>2, <1>4, <1>5, <1>6

LEMMA BlockNumber ==
    ASSUME IInv, phase = "starting"
    PROVE  Block \in 0..13
<1>1. Len(todo) \in 0..13
  BY DEF IInv, Starting
<1>. DEFINE n == Len(todo)
<1>2. n \in 0..13 /\ Block = 13 - n
  BY <1>1, Blocks DEF Block
<1>. HIDE DEF n
<1>3. 13 - n \in 0..13
  BY <1>2
<1>. QED  BY <1>2, <1>3

\* Behind the first block, what is on disk has a version that the migrations know.
LEMMA KnownVersion ==
    ASSUME IInv', phase' = "starting", Block' >= 2
    PROVE  disk'.version \in 5..Target
<1>1. Starting'
  BY DEF IInv
<1>2. CASE Between'
  <2>1. Block' \in {2, 3, 4, 5, 6, 7, 8} /\ disk'.version \in Floor[Block']..Target
    BY <1>2, SMTT(30) DEF Between
  <2>2. ASSUME NEW b \in {2, 3, 4, 5, 6, 7, 8} PROVE Floor[b] \in 5..Target
    BY DEF Floor, Target
  <2>3. Floor[Block'] \in 5..Target
    <3>. HIDE DEF Block
    <3>. QED  BY <2>1, <2>2
  <2>. QED  BY <2>1, <2>3 DEF Target
<1>3. CASE Stuck'
  BY <1>3 DEF Stuck, StuckVersion, Target
<1>4. CASE Migrating'
  <2>1. PICK b \in 2..8 : disk'.version \in DbInit[b].versions
    BY <1>4 DEF Migrating
  <2>. QED  BY <2>1, MigrationVersions DEF Target
<1>5. CASE Checking'
  BY <1>5 DEF Checking, StuckVersion, Target
<1>6. CASE Finishing'
  BY <1>6 DEF Finishing, Target
<1>7. ~NewFile'
  BY DEF NewFile
<1>. QED  BY <1>1, <1>2, <1>3, <1>4, <1>5, <1>6, <1>7 DEF Starting

\* The first block: a new file is numbered, or another start left it without a number.
LEMMA FileCutStep ==
    ASSUME IInv, CutInv, Execute, Block = 1
    PROVE  FileCut' /\ CutOnDisk'
<1>1. /\ phase = "starting" /\ execs # <<>> /\ Statement.op # "check" /\ crashes' = crashes
  BY Executed
<1>2. NewFile /\ work = disk /\ ~open /\ WellFormed(work)
  <2>1. Starting
    BY <1>1 DEF IInv
  <2>2. ~Between /\ ~Stuck /\ ~Migrating /\ ~Checking /\ ~Finishing
    BY <1>1 DEF Between, Stuck, Migrating, Checking, Finishing
  <2>. QED  BY <2>1, <2>2 DEF Starting, NewFile, Clean, IInv
<1>3. disk.version \notin {5, 6} /\ CutOnDisk /\ FileCut
  BY <1>1, <1>2 DEF NewFile, CutInv, Target
<1>4. "info" \in TableNames /\ -1 \in EveryVersion
  BY DEF TableNames, EveryVersion, Target
<1>5. CASE execs = Opening /\ (crashes = 0 => Whole)
  <2>1. Statement = Create("info") /\ Rest = Numbering /\ Tail(execs) = Adopting
    BY <1>5, FilePlaces
  <2>2. CASE "info" \in work.tables
    <3>1. Failed
      BY <1>2, <1>4, <2>1, <2>2, RunCreate
    <3>2. execs' = Adopting /\ disk' = disk
      BY <1>2, <2>1, <3>1 DEF Failed
    <3>3. disk.version = 0 => disk.tables = {"info"} /\ crashes > 0
      BY <1>2, <1>3, <1>5, <2>2 DEF CutOnDisk, Whole
    <3>. QED  BY <1>1, <1>3, <3>2, <3>3 DEF FileCut, Unnumbered, CutOnDisk
  <2>3. CASE "info" \notin work.tables
    <3>1. Passed /\ Created(work', work, "info")
      BY <1>2, <1>4, <2>1, <2>3, RunCreate
    <3>2. execs' = Numbering /\ disk' = work'
      BY <1>2, <2>1, <3>1 DEF Passed
    <3>3. disk'.version = disk.version /\ disk'.tables = disk.tables \union {"info"}
      BY <1>2, <3>1, <3>2 DEF Created, Kin
    <3>4. disk.version = 0 => disk'.tables = {"info"}
      BY <1>3, <3>3 DEF CutOnDisk
    <3>. QED  BY <1>1, <1>3, <3>2, <3>3, <3>4 DEF FileCut, CutOnDisk
  <2>. QED  BY <2>2, <2>3
<1>6. CASE execs = Numbering
  <2>1. Statement = Version(-1) /\ Rest = Adopting
    BY <1>6, FilePlaces
  <2>2. Passed /\ Numbered(work', work, -1)
    BY <1>2, <1>4, <2>1, RunVersion
  <2>3. execs' = Adopting /\ disk'.version = -1
    BY <1>2, <2>1, <2>2 DEF Passed, Numbered
  <2>. QED  BY <1>1, <1>3, <2>3 DEF FileCut, Unnumbered, CutOnDisk
<1>7. CASE execs = Adopting /\ Unnumbered
  <2>1. Statement = Sql("adopt") /\ Rest = Judging
    BY <1>7, FilePlaces
  <2>2. Passed /\ Numbered(work', work, Adopted(work))
    BY <1>2, <2>1, RunAdopt
  <2>3. /\ execs' = Judging /\ disk'.tables = disk.tables
        /\ disk'.version = IF disk.version = -1 THEN Target ELSE disk.version
    BY <1>2, <2>1, <2>2 DEF Passed, Numbered, Adopted
  <2>4. /\ disk'.version # -1 /\ disk'.version \notin {5, 6}
        /\ disk'.version = 0 => disk.version = 0
    BY <1>3, <2>3 DEF Target
  <2>. QED  BY <1>1, <1>3, <1>7, <2>3, <2>4 DEF FileCut, Unnumbered, CutOnDisk
<1>8. execs # Judging
  <2>1. SUFFICES ASSUME execs = Judging PROVE FALSE
    OBVIOUS
  <2>2. Statement = Sql("check")
    BY <2>1, FilePlaces
  <2>. QED  BY <1>1, <2>2, OpFields
<1>. QED  BY <1>1, <1>3, <1>5, <1>6, <1>7, <1>8 DEF FileCut

LEMMA DroppingPlaces ==
    ASSUME NEW m \in 1..4, execs = Dropping(m)
    PROVE  /\ Statement = Steps(2)[m] /\ Tail(execs) = <<>> /\ execs # <<>>
           /\ Rest = IF m < 4 THEN Dropping(m + 1) ELSE <<>>
<1>. DEFINE s == Steps(2)
            T == Elements(s)
<1>1. s \in Seq(T) /\ Len(s) = 4 /\ m \in 1..Len(s)
  BY TriggersSteps
<1>. HIDE DEF s, T
<1>. DEFINE h == SubSeq(s, m, 4)
<1>2. execs = <<h>>
  BY DEF Dropping, s
<1>3. /\ Head(h) = s[m]
      /\ m < 4 => Tail(h) = SubSeq(s, m + 1, 4) /\ SubSeq(s, m + 1, 4) # <<>>
      /\ m = 4 => Tail(h) = <<>>
  <2>. DEFINE n == Len(s)
  <2>1. n = 4 /\ m \in 1..n /\ s \in Seq(T)
    BY <1>1
  <2>2. /\ Head(SubSeq(s, m, n)) = s[m]
        /\ m < n => Tail(SubSeq(s, m, n)) = SubSeq(s, m + 1, n) /\ SubSeq(s, m + 1, n) # <<>>
        /\ m = n => Tail(SubSeq(s, m, n)) = <<>>
    BY <2>1, SuffixAt
  <2>. HIDE DEF n
  <2>. QED  BY <2>1, <2>2
<1>. HIDE DEF h
<1>4. Head(execs) = h /\ Tail(execs) = <<>> /\ execs # <<>>
  BY <1>2
<1>5. Statement = s[m]
  BY <1>3, <1>4 DEF Statement
<1>6. CASE m < 4
  <2>. DEFINE t == SubSeq(s, m + 1, 4)
  <2>1. Tail(h) = t /\ t # <<>>
    BY <1>3, <1>6
  <2>. HIDE DEF t
  <2>2. <<t>> \o <<>> = <<t>>
    OBVIOUS
  <2>3. Rest = <<t>>
    BY <1>4, <2>1, <2>2 DEF Rest
  <2>. QED  BY <1>4, <1>5, <1>6, <2>3 DEF Dropping, s, t
<1>7. CASE m = 4
  <2>1. Rest = <<>>
    BY <1>3, <1>4, <1>7 DEF Rest
  <2>. QED  BY <1>4, <1>5, <1>7, <2>1 DEF s
<1>. QED  BY <1>6, <1>7

\* The second block: the triggers of an old database are dropped in one transaction, which
\* stays open if the first of them is not there.
LEMMA TriggersCutStep ==
    ASSUME IInv, CutInv, Execute, Block = 2
    PROVE  TriggersCut' /\ CutOnDisk'
<1>1. /\ phase = "starting" /\ execs # <<>> /\ crashes' = crashes
  BY Executed
<1>2. WellFormed(work) /\ CutOnDisk /\ TriggersCut
  BY <1>1 DEF IInv, CutInv
<1>3. /\ Steps(2)[1] = Begin /\ Steps(2)[2] = DropTrigger("item_removal")
      /\ Steps(2)[3] = DropTrigger("item_insert") /\ Steps(2)[4] = End
  BY TriggersSteps
<1>4. disk.version \in {5, 6} /\ disk.triggers \in {OldTriggers, {}}
  BY <1>1, <1>2 DEF TriggersCut, CutOnDisk
<1>5. CASE execs = Dropping(1) /\ Clean /\ (crashes = 0 => Whole)
  <2>1. Statement = Begin /\ Rest = Dropping(2)
    BY <1>3, <1>5, DroppingPlaces
  <2>2. execs' = Dropping(2) /\ open' /\ work' = work /\ disk' = disk /\ work = disk
    BY <1>5, <2>1, RunBegin DEF Clean
  <2>3. Whole => Whole'
    BY <2>2 DEF Whole
  <2>4. Dropping(2)' = Dropping(2)
    BY DEF Dropping, Steps
  <2>. QED  BY <1>1, <1>2, <1>4, <1>5, <2>2, <2>3, <2>4 DEF TriggersCut, CutOnDisk
<1>6. CASE execs = Dropping(2) /\ open /\ work.triggers = disk.triggers /\ (crashes = 0 => Whole)
  <2>1. Statement = DropTrigger("item_removal") /\ Rest = Dropping(3) /\ Tail(execs) = <<>>
    BY <1>3, <1>6, DroppingPlaces
  <2>2. CASE "item_removal" \in work.triggers
    <3>1. Passed /\ work'.triggers = work.triggers \ {"item_removal"}
      BY <1>2, <2>1, <2>2, DropsTrigger
    <3>2. execs' = Dropping(3) /\ open' /\ disk' = disk
      BY <1>6, <2>1, <3>1 DEF Passed
    <3>3. disk.triggers = OldTriggers /\ work'.triggers = {"item_insert"}
      BY <1>4, <1>6, <2>2, <3>1 DEF OldTriggers
    <3>4. Dropping(3)' = Dropping(3)
      BY DEF Dropping, Steps
    <3>. QED  BY <1>1, <1>2, <1>4, <3>2, <3>3, <3>4 DEF TriggersCut, CutOnDisk
  <2>3. CASE "item_removal" \notin work.triggers
    <3>1. Failed
      BY <1>2, <2>1, <2>3, DropsTrigger
    <3>2. execs' = <<>> /\ work' = work /\ disk' = disk
      BY <1>6, <2>1, <3>1 DEF Failed
    <3>3. disk.triggers = {} /\ work.triggers = {}
      BY <1>4, <1>6, <2>3 DEF OldTriggers
    <3>4. crashes # 0
      BY <1>4, <1>6, <3>3 DEF Whole, OldTriggers
    <3>. QED  BY <1>1, <1>2, <1>4, <3>2, <3>3, <3>4 DEF TriggersCut, NoTriggers, CutOnDisk
  <2>. QED  BY <2>2, <2>3
<1>7. CASE execs = Dropping(3) /\ open /\ disk.triggers = OldTriggers
           /\ work.triggers = {"item_insert"}
  <2>1. Statement = DropTrigger("item_insert") /\ Rest = Dropping(4)
    BY <1>3, <1>7, DroppingPlaces
  <2>2. Passed /\ work'.triggers = {}
    BY <1>2, <1>7, <2>1, DropsTrigger
  <2>3. execs' = Dropping(4) /\ open' /\ disk' = disk
    BY <1>7, <2>1, <2>2 DEF Passed
  <2>4. Dropping(4)' = Dropping(4)
    BY DEF Dropping, Steps
  <2>. QED  BY <1>1, <1>2, <1>4, <2>2, <2>3, <2>4 DEF TriggersCut, CutOnDisk
<1>8. CASE execs = Dropping(4) /\ open /\ work.triggers = {}
  <2>1. Statement = End /\ Rest = <<>>
    BY <1>3, <1>8, DroppingPlaces
  <2>2. execs' = <<>> /\ ~open' /\ work' = work /\ disk' = work
    BY <2>1, RunEnd
  <2>3. disk'.version # 0
    <3>1. Starting' /\ Block' = 2 /\ phase' = "starting"
      BY Executed, ExecuteStep DEF IInv
    <3>2. Between'
      BY <2>2, <3>1 DEF Starting, Stuck, StuckVersion, NewFile, Migrating, Position, Checking,
                       Finishing, Opening, Numbering, Adopting, Judging
    <3>. QED  BY <3>1, <3>2, SMTT(30) DEF Between, Floor, Target
  <2>. QED  BY <1>1, <1>2, <1>8, <2>2, <2>3 DEF TriggersCut, NoTriggers, CutOnDisk
<1>. QED  BY <1>1, <1>2, <1>5, <1>6, <1>7, <1>8 DEF TriggersCut

\* Behind the second block nothing makes a database older.
LEMMA OldBefore ==
    ASSUME IInv, Execute, Block > 2, disk'.version \in {5, 6}
    PROVE  disk.version \in {5, 6}
<1>1. /\ work' \in {work, Effect(Statement, work)} /\ (open' => disk' = disk)
      /\ (~open' => disk' = work') /\ phase = "starting" /\ phase' = "starting"
      /\ execs # <<>> /\ Block' = Block /\ Statement.op # "check"
  BY Executed
<1>2. SUFFICES ASSUME disk.version \notin {5, 6} PROVE FALSE
  OBVIOUS
<1>3. ~open' /\ disk' = work'
  BY <1>1, <1>2
<1>4. IInv' /\ Starting' /\ Starting
  BY <1>1, ExecuteStep DEF IInv
<1>5. CASE Between
  <2>1. execs \in Seq(Single(Small)) /\ work = disk /\ WellFormed(work)
    BY <1>1, <1>5 DEF Between, Clean, IInv
  <2>2. Statement \in Small
    BY <1>1, <2>1, OneByOne
  <2>3. Statement.op \notin {"create trigger", "version", "adopt"}
    <3>1. \/ Statement \in {Drop("attention_stats"), Drop("views"), Sql("rebuild")}
          \/ Statement = Copy("views", "search_folder_items")
      BY <2>2 DEF Small
    <3>2. /\ Drop("attention_stats").op = "drop" /\ Drop("views").op = "drop"
          /\ Copy("views", "search_folder_items").op = "copy" /\ Sql("rebuild").op = "rebuild"
      BY OpFields
    <3>. QED  BY <3>1, <3>2
  <2>4. work'.version = work.version
    BY <1>1, <2>1, <2>3, TriggersLeft
  <2>. QED  BY <1>2, <1>3, <2>1, <2>4
<1>6. CASE Migrating
  <2>1. PICK b \in 2..8 : Block = b /\ disk.version \in DbInit[b].versions
    BY <1>6 DEF Migrating
  <2>2. b \in {5, 6, 7, 8}
    <3>1. b \notin {2, 3, 4}
      BY <1>2, <2>1, MigrationVersions
    <3>. QED  BY <2>1, <3>1
  <2>3. CASE Between'
    <3>1. disk'.version \in Floor[b]..Target
      <4>1. disk'.version \in Floor[Block']..Target /\ Block' = b
        BY <1>1, <2>1, <2>3, SMTT(30) DEF Between
      <4>. QED  BY <4>1
    <3>2. Floor[b] \in {8, 9, 10, 11}
      BY <2>2 DEF Floor
    <3>. QED  BY <3>1, <3>2 DEF Target
  <2>4. CASE Migrating'
    <3>1. disk'.version \in DbInit[b].versions
      BY <1>1, <2>1, <2>4 DEF Migrating
    <3>. QED  BY <2>2, <3>1, MigrationVersions
  <2>5. ~Stuck' /\ ~NewFile' /\ ~Checking' /\ ~Finishing'
    <3>1. b # 1 /\ b \notin 9..13
      BY <2>2
    <3>. QED  BY <1>1, <1>3, <2>1, <3>1
              DEF Stuck, StuckVersion, NewFile, Checking, Finishing
  <2>. QED  BY <1>4, <2>3, <2>4, <2>5 DEF Starting
<1>7. CASE Finishing
  <2>1. Block \in 9..13 /\ Block' = Block
    BY <1>1, <1>7 DEF Finishing
  <2>2. CASE Finishing'
    BY <2>2 DEF Finishing, Target
  <2>3. CASE Checking'
    BY <1>3, <2>3 DEF Checking, StuckVersion, Target
  <2>4. ~Between' /\ ~Stuck' /\ ~NewFile' /\ ~Migrating'
    BY <2>1 DEF Between, Stuck, NewFile, Migrating
  <2>. QED  BY <1>4, <2>2, <2>3, <2>4 DEF Starting
<1>8. ~Stuck /\ ~NewFile
  BY <1>2 DEF Stuck, StuckVersion, NewFile
<1>9. ~Checking
  <2>1. Checking => Statement = Sql("check")
    BY FirstOf DEF Checking
  <2>. QED  BY <1>1, <2>1, OpFields
<1>. QED  BY <1>4, <1>5, <1>6, <1>7, <1>8, <1>9 DEF Starting

\* What an old database meets behind the second block.
LEMMA OldStatement ==
    ASSUME IInv, Execute, Block > 2, disk.version \in {5, 6}
    PROVE  /\ Statement.op # "create trigger"
           /\ Statement.op = "begin" /\ ~open => Migrating
<1>1. phase = "starting" /\ execs # <<>> /\ Statement.op # "check" /\ Starting
  BY Executed DEF IInv
<1>2. \A s \in Small : s.op \notin {"create trigger", "begin"}
  BY OpFields DEF Small
<1>3. CASE Between
  <2>1. Statement \in Small
    BY <1>1, <1>3, OneByOne DEF Between
  <2>. QED  BY <1>2, <2>1
<1>4. CASE Stuck
  <2>1. CASE execs \in Seq(Single(Small))
    <3>1. Statement \in Small
      BY <1>1, <2>1, OneByOne
    <3>. QED  BY <1>2, <3>1
  <2>2. CASE Block \in {3, 4} /\ execs = <<Steps(Block)>>
    <3>1. PICK b \in {3, 4} : execs = <<Steps(b)>>
      BY <2>2
    <3>2. Statement = Begin
      <4>. DEFINE s == Steps(b)
      <4>1. s \in Seq(Elements(s)) /\ Len(s) = 10 /\ s[1] = Begin /\ execs = <<s>>
        BY <3>1, WiderSteps
      <4>. HIDE DEF s
      <4>2. Head(s) = Begin /\ Head(execs) = s
        BY <4>1
      <4>. QED  BY <4>2 DEF Statement
    <3>3. open
      BY <1>4 DEF Stuck, StuckVersion
    <3>. QED  BY <3>2, <3>3, OpFields
  <2>. QED  BY <1>4, <2>1, <2>2 DEF Stuck
<1>5. CASE Migrating
  <2>1. PICK b \in 2..8 : Block = b
    BY <1>5 DEF Migrating
  <2>2. PICK m \in 1..Len(Steps(b)) : Position(Steps(b), m)
    BY <1>5, <2>1 DEF Migrating
  <2>3. Statement = Steps(b)[m]
    BY <2>2, Migrations, Advance
  <2>. QED  BY <1>5, <2>3, NoCheck
<1>6. ~NewFile /\ ~Finishing
  BY DEF NewFile, Finishing, Target
<1>7. ~Checking
  <2>1. Checking => Statement = Sql("check")
    BY FirstOf DEF Checking
  <2>. QED  BY <1>1, <2>1, OpFields
<1>. QED  BY <1>1, <1>3, <1>4, <1>5, <1>6, <1>7 DEF Starting

\* The later blocks: the triggers stay away, and a migration that was not cut short
\* before goes on or is committed.
LEMMA LaterCutStep ==
    ASSUME IInv, CutInv, Execute, Block > 2
    PROVE  LaterCut' /\ CutOnDisk'
<1>1. /\ work' \in {work, Effect(Statement, work)} /\ (open' => disk' = disk)
      /\ (~open' => disk' = work') /\ (~open /\ open' => Statement.op = "begin")
      /\ phase = "starting" /\ phase' = "starting" /\ crashes' = crashes /\ Block' = Block
  BY Executed
<1>2. LaterCut /\ CutOnDisk /\ WellFormed(work)
  BY <1>1 DEF CutInv, IInv
<1>3. IInv'
  BY ExecuteStep
<1>4. ASSUME disk'.version \in {5, 6} PROVE disk'.triggers = {} /\ work'.triggers = {}
  <2>1. disk.version \in {5, 6}
    BY <1>4, OldBefore
  <2>2. disk.triggers = {} /\ work.triggers = {}
    BY <1>2, <2>1 DEF LaterCut, NoTriggers
  <2>3. work'.triggers \subseteq work.triggers
    BY <1>1, <1>2, <2>1, OldStatement, TriggersLeft
  <2>. QED  BY <1>1, <2>2, <2>3
<1>5. ASSUME crashes = 0, disk'.version \in {5, 6}, open' PROVE Migrating'
  <2>1. disk.version \in {5, 6}
    BY <1>5, OldBefore
  <2>2. Migrating
    <3>1. CASE open
      BY <1>2, <1>5, <2>1, <3>1 DEF LaterCut
    <3>2. CASE ~open
      BY <1>1, <1>5, <2>1, <3>2, OldStatement
    <3>. QED  BY <3>1, <3>2
  <2>3. PICK b \in 2..8 : Block = b
    BY <2>2 DEF Migrating
  <2>4. PICK m \in 1..Len(Steps(b)) :
          /\ disk.version \in DbInit[b].versions
          /\ Position(Steps(b), m) /\ MadeAt(b, m)
    BY <2>2, <2>3 DEF Migrating
  <2>5. b \in {3, 4}
    <3>1. b \notin 5..8
      BY <2>1, <2>4, MigrationVersions
    <3>2. b > 2
      BY <2>3
    <3>. QED  BY <3>1, <3>2
  <2>6. WiderAt(m)
    BY <2>4, <2>5, WiderMade
  <2>. QED  BY <1>5, <2>3, <2>4, <2>5, <2>6, WiderStep
<1>6. disk'.version \in 5..Target
  <2>1. Block' >= 2
    <3>1. Block \in 0..13
      BY <1>1, BlockNumber
    <3>. QED  BY <1>1, <3>1
  <2>. QED  BY <1>1, <1>3, <2>1, KnownVersion
<1>. QED  BY <1>1, <1>2, <1>4, <1>5, <1>6 DEF LaterCut, NoTriggers, CutOnDisk

LEMMA ExecuteCut ==
    ASSUME IInv, CutInv, Execute
    PROVE  CutInv'
<1>1. phase' = "starting" /\ phase = "starting" /\ Block' = Block /\ execs # <<>>
  BY Executed
<1>2. Block # 0 /\ Block \in 0..13
  BY <1>1, BlockNumber DEF CutInv
<1>3. CutOnDisk' /\ (Block = 1 => FileCut') /\ (Block = 2 => TriggersCut')
      /\ (Block > 2 => LaterCut')
  <2>1. Block = 1 \/ Block = 2 \/ Block > 2
    BY <1>2
  <2>. HIDE DEF Block
  <2>. QED  BY <2>1, FileCutStep, TriggersCutStep, LaterCutStep
<1>. HIDE DEF Block
<1>. QED  BY <1>1, <1>2, <1>3 DEF CutInv, StartSucceeds

LEMMA EnterCut ==
    ASSUME IInv, CutInv, EnterBlock
    PROVE  CutInv'
<1>1. /\ Starting /\ phase = "starting" /\ execs = <<>> /\ Block \in 0..12
      /\ Block' = Block + 1
      /\ execs' = IF work.version \in DbInit[Block + 1].versions
                  THEN DbInit[Block + 1].calls ELSE <<>>
      /\ UNCHANGED <<disk, work, open, phase>>
  BY NextBlock
<1>2. crashes' = crashes /\ CutOnDisk /\ CutOnDisk'
  BY <1>1 DEF EnterBlock, CutInv, CutOnDisk
<1>3. Whole' = Whole /\ NoTriggers' = NoTriggers
  BY <1>1 DEF Whole, NoTriggers
<1>4. Block < 2 => Clean
  BY <1>1 DEF Starting, Between, Stuck, NewFile, Migrating, Checking, Finishing
<1>5. disk.version \in EveryVersion
  BY DEF IInv, Sound, WellFormed
<1>6. CASE Block = 0
  <2>1. work = disk /\ (crashes = 0 => Whole)
    BY <1>1, <1>4, <1>6 DEF Clean, CutInv
  <2>2. DbInit[1].versions = EveryVersion \ 5..Target /\ DbInit[1].calls = Opening
    BY Blocks DEF NewDatabase, For, Opening
  <2>3. execs' = IF work.version \in DbInit[1].versions THEN DbInit[1].calls ELSE <<>>
    BY <1>1, <1>6
  <2>4. FileCut'
    <3>1. CASE disk.version \in 5..Target
      BY <1>1, <1>2, <1>3, <2>1, <2>2, <2>3, <3>1 DEF FileCut, Target
    <3>2. CASE disk.version \notin 5..Target
      BY <1>1, <1>2, <1>3, <1>5, <2>1, <2>2, <2>3, <3>2 DEF FileCut
    <3>. QED  BY <3>1, <3>2
  <2>. QED  BY <1>1, <1>2, <1>6, <2>4 DEF CutInv, StartSucceeds
<1>7. CASE Block = 1
  <2>1. work = disk /\ ~open /\ disk.version \notin {-1, 0} /\ (crashes = 0 => Whole)
    <3>1. execs \notin {Opening, Numbering, Adopting, Judging}
      BY <1>1 DEF Opening, Numbering, Adopting, Judging
    <3>. QED  BY <1>1, <1>4, <1>7, <3>1 DEF Clean, CutInv, FileCut
  <2>2. execs' = IF work.version \in DbInit[2].versions THEN DbInit[2].calls ELSE <<>>
    BY <1>1, <1>7
  <2>3. DbInit[2].versions = {5, 6} /\ DbInit[2].calls = Dropping(1)
    <3>. DEFINE s == Steps(2)
                T == Elements(s)
    <3>1. /\ DbInit[2].versions = {5, 6} /\ DbInit[2].calls = <<s>>
          /\ s \in Seq(T) /\ Len(s) = 4
      BY Blocks, TriggersSteps
    <3>. HIDE DEF s, T
    <3>2. SubSeq(s, 1, 4) = s
      BY <3>1
    <3>. QED  BY <3>1, <3>2 DEF Dropping, s
  <2>4. Dropping(1)' = Dropping(1)
    BY DEF Dropping, Steps
  <2>5. TriggersCut'
    <3>1. CASE disk.version \in {5, 6}
      <4>1. execs' = Dropping(1) /\ Clean'
        BY <1>1, <2>1, <2>2, <2>3, <3>1 DEF Clean
      <4>. QED  BY <1>1, <1>2, <1>3, <2>1, <2>4, <3>1, <4>1 DEF TriggersCut
    <3>2. CASE disk.version \notin {5, 6}
      <4>1. execs' = <<>> /\ ~open' /\ NoTriggers'
        BY <1>1, <2>1, <2>2, <2>3, <3>2 DEF NoTriggers
      <4>. QED  BY <4>1 DEF TriggersCut
    <3>. QED  BY <3>1, <3>2
  <2>. QED  BY <1>1, <1>2, <1>7, <2>5 DEF CutInv, StartSucceeds
<1>8. CASE Block >= 2
  <2>1. NoTriggers /\ (crashes = 0 /\ disk.version \in {5, 6} => ~open)
    <3>1. CASE Block = 2
      <4>1. TriggersCut
        BY <1>1, <3>1 DEF CutInv
      <4>2. \A m : execs # Dropping(m)
        BY <1>1 DEF Dropping
      <4>. QED  BY <4>1, <4>2 DEF TriggersCut
    <3>2. CASE Block > 2
      <4>1. LaterCut
        BY <1>1, <3>2 DEF CutInv
      <4>2. ~Migrating
        BY <1>1 DEF Migrating, Position
      <4>. QED  BY <4>1, <4>2 DEF LaterCut
    <3>. QED  BY <1>1, <1>8, <3>1, <3>2
  <2>2. LaterCut'
    BY <1>1, <1>2, <1>3, <2>1 DEF LaterCut
  <2>3. Block' > 2
    BY <1>1, <1>8
  <2>. QED  BY <1>1, <1>2, <2>2, <2>3 DEF CutInv, StartSucceeds
<1>. QED  BY <1>1, <1>6, <1>7, <1>8

LEMMA CheckCut ==
    ASSUME IInv, CutInv, Check
    PROVE  CutInv'
<1>1. /\ Starting /\ (Checking \/ (NewFile /\ execs = Judging)) /\ phase = "starting"
      /\ disk' = disk /\ CutOnDisk
  BY CheckedAt DEF Check, CutInv
<1>2. IInv'
  BY CheckStep
<1>3. CASE work.version = Target
  <2>1. UNCHANGED <<work, open, phase, todo, crashes>>
    BY <1>3 DEF Check
  <2>2. disk.version = Target
    BY <1>1, <1>3 DEF Checking, StuckVersion, NewFile, Clean, Target
  <2>3. CutOnDisk' /\ Whole' /\ NoTriggers'
    BY <1>1, <2>1, <2>2 DEF CutOnDisk, Whole, NoTriggers, Target
  <2>4. Block' = Block
    BY <2>1 DEF Block
  <2>5. Block = 1 \/ Block = 9
    BY <1>1 DEF Checking, NewFile
  <2>6. Block = 1 => FileCut'
    <3>1. ASSUME Block = 1 PROVE execs' = <<>>
      <4>1. execs = Judging
        BY <1>1, <3>1 DEF Checking
      <4>2. Rest = <<>>
        BY <4>1, FilePlaces
      <4>3. execs' = Rest
        BY <1>3 DEF Check
      <4>. QED  BY <4>2, <4>3
    <3>. QED  BY <1>1, <2>2, <2>3, <3>1 DEF FileCut, Target
  <2>7. LaterCut'
    BY <1>1, <2>1, <2>2, <2>3 DEF LaterCut, Target
  <2>. HIDE DEF Block
  <2>. QED  BY <1>1, <2>1, <2>3, <2>4, <2>5, <2>6, <2>7 DEF CutInv, StartSucceeds
<1>4. CASE work.version # Target
  <2>1. phase' = "fatal" /\ crashes' = crashes + 1
    BY <1>4 DEF Check
  <2>2. CutOnDisk' /\ crashes \in Nat /\ crashes' > 0
    BY <1>1, <2>1 DEF CutOnDisk
  <2>3. StartSucceeds'
    <3>1. CASE Checking
      <4>1. Block = 9 /\ open /\ disk.version \in {5, 6}
        BY <1>4, <3>1 DEF Checking, Clean, StuckVersion
      <4>2. LaterCut /\ ~Migrating
        BY <1>1, <4>1 DEF CutInv, Migrating
      <4>3. crashes # 0 /\ disk.triggers = {}
        BY <4>1, <4>2 DEF LaterCut, NoTriggers
      <4>. QED  BY <1>1, <2>1, <2>2, <4>1, <4>3 DEF StartSucceeds, Unfinished
    <3>2. CASE NewFile /\ execs = Judging
      <4>1. FileCut /\ disk.version \notin 5..Target
        BY <1>1, <1>4, <3>2 DEF CutInv, NewFile, Clean, Target
      <4>2. disk.version # -1 /\ Unnumbered
        BY <3>2, <4>1, FileDistinct DEF FileCut
      <4>3. disk.version = 0 => crashes' > 1 /\ disk'.tables = {"info"}
        BY <1>1, <2>1, <2>2, <4>2 DEF Unnumbered
      <4>. QED  BY <1>1, <4>1, <4>2, <4>3 DEF StartSucceeds, Unfinished
    <3>. QED  BY <1>1, <3>1, <3>2
  <2>. QED  BY <2>1, <2>2, <2>3 DEF CutInv
<1>. QED  BY <1>3, <1>4

\* A start that ended well leaves a database of the current version.
LEMMA RunningCut ==
    ASSUME IInv', phase' = "running", crashes' = crashes, CutInv
    PROVE  CutInv'
<1>1. disk'.version = Target
  BY DEF IInv
<1>. QED  BY <1>1 DEF CutInv, CutOnDisk, StartSucceeds, Target

LEMMA OldWhole ==
    ASSUME NEW v \in InitialVersions, NEW n, disk = OldDatabase(v, n)
    PROVE  Whole
<1>1. /\ disk.version = v
      /\ disk.triggers = IF v = 0 THEN {} ELSE {"item_removal"} \union
                            (IF v < 7 THEN {"item_insert"} ELSE {"subscription_removal"})
      /\ v = 0 => disk.tables = {}
  BY DEF OldDatabase
<1>. QED  BY <1>1 DEF Whole, OldTriggers

\* The triggers and the tables on disk tell which starts were cut short before this one.
LEMMA CutInvariant == Spec => []CutInv
<1>1. Init => CutInv
  <2>. SUFFICES ASSUME Init PROVE CutInv
    OBVIOUS
  <2>1. crashes = 0 /\ phase = "off"
    BY DEF Init
  <2>2. Whole
    BY OldWhole DEF Init
  <2>. QED  BY <2>1, <2>2 DEF CutInv, CutOnDisk, Whole, StartSucceeds
<1>2. IInv /\ CutInv /\ [Next]_vars => CutInv'
  <2>. SUFFICES ASSUME IInv, CutInv, [Next]_vars PROVE CutInv'
    OBVIOUS
  <2>1. IInv'
    BY NextStep
  <2>2. CASE Start
    <3>1. /\ phase \in {"off", "fatal"} /\ phase' = "starting" /\ Block' = 0 /\ execs' = <<>>
          /\ UNCHANGED <<disk, work, crashes>>
      BY <2>2, Blocks DEF Start, Block
    <3>2. CutOnDisk' /\ (crashes = 0 => Whole')
      BY <3>1 DEF CutInv, CutOnDisk, Whole
    <3>. HIDE DEF Block
    <3>. QED  BY <3>1, <3>2 DEF CutInv, StartSucceeds
  <2>3. CASE EnterBlock
    BY <2>3, EnterCut
  <2>4. CASE Execute
    BY <2>4, ExecuteCut
  <2>5. CASE Check
    BY <2>5, CheckCut
  <2>6. CASE Crash
    BY <2>6 DEF Crash, CutInv, CutOnDisk, StartSucceeds
  <2>7. CASE Started
    BY <2>1, <2>7, RunningCut DEF Started
  <2>8. CASE LoadFolder
    BY <2>1, <2>8, RunningCut DEF LoadFolder, Unchanged
  <2>9. CASE \E list \in FeedMetadata : AddItem(list) \/ \E i \in Ids : MergeItem(i, list)
    BY <2>1, <2>9, RunningCut DEF AddItem, MergeItem, Step, Unchanged
  <2>10. CASE \E i \in Ids : RemoveItem(i) \/ ViewItem(i)
                             \/ \E a \in Answers : CommentsAnswered(i, a)
    BY <2>1, <2>10, RunningCut DEF RemoveItem, ViewItem, CommentsAnswered, Step, Unchanged
  <2>11. CASE \E n \in InitialNodes : RemoveFeed(n)
    BY <2>1, <2>11, RunningCut DEF RemoveFeed, Step, Unchanged
  <2>12. CASE UNCHANGED vars
    <3>1. UNCHANGED <<disk, work, open, phase, todo, execs, crashes, articles>>
      BY <2>12 DEF vars, history
    <3>2. Block' = Block /\ Kept' = Kept
      BY <3>1 DEF Block, Kept
    <3>3. Migrating' = Migrating
      <4>1. ASSUME NEW s, NEW m
            PROVE  Position(s, m)' = Position(s, m)
        BY <3>1 DEF Position
      <4>2. ASSUME NEW b, NEW m
            PROVE  MadeAt(b, m)' = MadeAt(b, m)
        <5>1. ASSUME NEW v, NEW tables, NEW holders
              PROVE  Made(v, tables, holders)' = Made(v, tables, holders)
          BY <3>1, <3>2 DEF Made, Holds
        <5>2. Clean' = Clean
          BY <3>1 DEF Clean
        <5>. QED
          BY <3>1, <5>1, <5>2, ZenonT(60) DEF MadeAt, TriggersAt, WiderAt, To8At, To9At, To10At, To11At
      <4>. QED  BY <3>1, <3>2, <4>1, <4>2 DEF Migrating
    <3>4. Whole' = Whole /\ NoTriggers' = NoTriggers /\ Unnumbered' = Unnumbered
          /\ Clean' = Clean /\ CutOnDisk' = CutOnDisk
      BY <3>1 DEF Whole, NoTriggers, Unnumbered, Clean, CutOnDisk
    <3>5. \A m : Dropping(m)' = Dropping(m)
      BY DEF Dropping, Steps
    <3>6. FileCut' = FileCut /\ LaterCut' = LaterCut
      BY <3>1, <3>3, <3>4 DEF FileCut, LaterCut
    <3>7. TriggersCut' = TriggersCut
      BY <3>1, <3>4, <3>5 DEF TriggersCut
    <3>8. StartSucceeds' = StartSucceeds
      BY <3>1 DEF StartSucceeds, Unfinished
    <3>. QED  BY <3>1, <3>2, <3>4, <3>6, <3>7, <3>8 DEF CutInv
  <2>. QED  BY <2>2, <2>3, <2>4, <2>5, <2>6, <2>7, <2>8, <2>9, <2>10, <2>11, <2>12 DEF Next
<1>. QED  BY <1>1, <1>2, Invariant, PTL DEF Spec

\* A migration that was cut short is repeated and reaches the current schema.  The start
\* of a supported database fails only when an earlier one died in one of two places: in
\* the numbering of a new file, or between the drop of the old triggers and the migration.
THEOREM StartsUnlessCut == Spec => []StartSucceeds
<1>1. CutInv => StartSucceeds
  BY DEF CutInv
<1>. QED  BY <1>1, CutInvariant, PTL

-----------------------------------------------------------------------------
(***************************************************************************)
(* Comments are fetched once.  That a fetch runs is stored with the item   *)
(* before it starts, and what is stored of an item stays as long as the    *)
(* item does.  Ids are not given twice, so a new item has not been         *)
(* fetched.                                                                *)
(***************************************************************************)

\* The tables that articles come from.
Holders == {"items", "itemsets", "backup", "items_new"}

IdsGiven(w) == w.last \in Nat /\ \A t \in Holders : w.rows[t] \subseteq 1..w.last

IsList(m) == \E S : m \in Seq(S)

Listed(w) ==
    /\ w.metadata = [i \in Ids |-> w.metadata[i]]
    /\ \A i \in Ids : IsList(w.metadata[i])

\* What keeps the comments of an item from being fetched.
Marked(w, i) == i \in w.rows["items"] => Has(w.metadata[i], "commentFeedJson")

\* Nothing is fetched before the schema is the current one, and then a migration does not
\* happen again.
FetchInv ==
    /\ fetches \in [Ids -> Nat] /\ merges \in [Ids -> Nat]
    /\ IdsGiven(disk) /\ IdsGiven(work) /\ work.last = disk.last
    /\ Listed(disk) /\ Listed(work)
    /\ \A i \in Ids : fetches[i] # 0 => disk.version = Target /\ i <= disk.last
    /\ \A i \in Ids : \/ fetches[i] <= merges[i]
                      \/ fetches[i] = merges[i] + 1 /\ Marked(disk, i) /\ Marked(work, i)

\* A statement that fills one of these tables takes the rows from another one.
Filling(s) == s.op = "copy" /\ s.t \in Holders => s.of \in Holders

LEMMA Fillings ==
    /\ Filling(Begin) /\ Filling(End)
    /\ \A t : Filling(Create(t)) /\ Filling(Drop(t)) /\ Filling(Version(t))
    /\ \A t : Filling(DropTrigger(t)) /\ Filling(CreateTrigger(t))
    /\ \A of \in Holders : \A t : Filling(Copy(of, t))
    /\ Filling(Copy("views", "search_folder_items"))
    /\ \A op \in {"comments of itemsets", "join", "rename", "rebuild", "items without node",
                  "folder rows without node", "metadata without item", "legacy comments",
                  "check", "adopt"} : Filling(Sql(op))
BY DEF Filling, Begin, End, Create, Drop, Version, DropTrigger, CreateTrigger, Copy, Sql, Holders

LEMMA Places ==
    /\ \A n \in 1..4 : n \in {1, 2, 3, 4}
    /\ \A n \in 1..5 : n \in {1, 2, 3, 4, 5}
    /\ \A n \in 1..6 : n \in {1, 2, 3, 4, 5, 6}
    /\ \A n \in 1..7 : n \in {1, 2, 3, 4, 5, 6, 7}
    /\ \A n \in 1..10 : n \in {1, 2, 3, 4, 5, 6, 7, 8, 9, 10}
OBVIOUS

LEMMA FillingSteps ==
    ASSUME NEW b \in 2..8, NEW m \in 1..Len(Steps(b))
    PROVE  Filling(Steps(b)[m])
<1>1. {"items", "itemsets", "backup", "items_new"} \subseteq Holders
  BY DEF Holders
<1>2. CASE b = 2
  <2>1. Len(Steps(b)) = 4
    BY <1>2, TriggersSteps
  <2>2. m \in {1, 2, 3, 4}
    BY <2>1, Places
  <2>. QED  BY <1>1, <1>2, <2>2, TriggersSteps, Fillings
<1>3. CASE b \in {3, 4}
  <2>1. Len(Steps(b)) = 10
    BY <1>3, WiderSteps
  <2>2. m \in {1, 2, 3, 4, 5, 6, 7, 8, 9, 10}
    BY <2>1, Places
  <2>. DEFINE v == (b + 2) + 1
  <2>3. Steps(b)[9] = Version(v)
    BY <1>3, WiderSteps
  <2>. HIDE DEF v
  <2>4. CASE m = 9
    BY <2>3, <2>4, Fillings
  <2>5. CASE m \in {1, 2, 3, 4, 5, 6, 7, 8, 10}
    <3>1. /\ Steps(b)[1] = Begin /\ Steps(b)[2] = Sql("comments of itemsets")
          /\ Steps(b)[3] = Create("backup") /\ Steps(b)[4] = Copy("itemsets", "backup")
          /\ Steps(b)[5] = Drop("itemsets") /\ Steps(b)[6] = Create("itemsets")
          /\ Steps(b)[7] = Copy("backup", "itemsets") /\ Steps(b)[8] = Drop("backup")
          /\ Steps(b)[10] = End
      BY <1>3, WiderSteps
    <3>. QED  BY <1>1, <2>5, <3>1, Fillings
  <2>. QED  BY <2>2, <2>4, <2>5
<1>4. CASE b = 5
  <2>1. Len(Steps(b)) = 10
    BY <1>4, To8Steps
  <2>2. m \in {1, 2, 3, 4, 5, 6, 7, 8, 9, 10}
    BY <2>1, Places
  <2>. QED  BY <1>1, <1>4, <2>2, To8Steps, Fillings, ZenonT(60)
<1>5. CASE b = 6
  <2>1. Len(Steps(b)) = 6
    BY <1>5, To9Steps
  <2>2. m \in {1, 2, 3, 4, 5, 6}
    BY <2>1, Places
  <2>. QED  BY <1>1, <1>5, <2>2, To9Steps, Fillings
<1>6. CASE b = 7
  <2>1. Len(Steps(b)) = 5
    BY <1>6, To10Steps
  <2>2. m \in {1, 2, 3, 4, 5}
    BY <2>1, Places
  <2>. QED  BY <1>1, <1>6, <2>2, To10Steps, Fillings
<1>7. CASE b = 8
  <2>1. Len(Steps(b)) = 7
    BY <1>7, To11Steps
  <2>2. m \in {1, 2, 3, 4, 5, 6, 7}
    BY <2>1, Places
  <2>. QED  BY <1>1, <1>7, <2>2, To11Steps, Fillings
<1>. QED  BY <1>2, <1>3, <1>4, <1>5, <1>6, <1>7

\* The statements that meet items whose comments were fetched.
LEMMA NextStatement ==
    ASSUME IInv, Execute
    PROVE  /\ Filling(Statement)
           /\ disk.version = Target =>
                Statement \in Small \union Late /\ work.version = Target
<1>1. Starting /\ execs # <<>> /\ Statement.op # "check"
  BY ExecuteFrame DEF IInv
<1>2. \A s \in Small \union Late : Filling(s)
  BY Fillings DEF Small, Late
<1>3. CASE Between
  <2>1. execs \in Seq(Single(Small)) /\ work = disk
    BY <1>1, <1>3 DEF Between, Clean
  <2>2. Statement \in Small
    BY <1>1, <2>1, OneByOne
  <2>. QED  BY <1>2, <2>1, <2>2
<1>4. CASE Stuck
  <2>1. disk.version # Target
    BY <1>4 DEF Stuck, StuckVersion, Target
  <2>2. CASE execs \in Seq(Single(Small))
    <3>1. Statement \in Small
      BY <1>1, <2>2, OneByOne
    <3>. QED  BY <1>2, <2>1, <3>1
  <2>3. CASE Block \in {3, 4} /\ execs = <<Steps(Block)>>
    <3>1. PICK b \in {3, 4} : Block = b
      BY <2>3
    <3>2. /\ Steps(b) \in Seq(Elements(Steps(b))) /\ Len(Steps(b)) = 10 /\ Steps(b)[1] = Begin
      BY WiderSteps
    <3>3. Head(Steps(b)) = Begin
      <4>. DEFINE s == Steps(b)
      <4>1. s \in Seq(Elements(s)) /\ Len(s) = 10 /\ s[1] = Begin
        BY <3>2
      <4>. HIDE DEF s
      <4>2. Head(s) = Begin
        BY <4>1
      <4>. QED  BY <4>2 DEF s
    <3>4. Head(execs) = Steps(b)
      BY <2>3, <3>1
    <3>. QED  BY <2>1, <3>3, <3>4, Fillings DEF Statement
  <2>. QED  BY <1>4, <2>2, <2>3 DEF Stuck
<1>5. CASE NewFile
  <2>1. Statement # Sql("check")
    BY <1>1, OpFields
  <2>2. Statement \in {Create("info"), Version(-1), Sql("adopt")}
    BY <1>5, <2>1, NewFilePlaces
  <2>3. execs # Judging
    BY <2>1, FirstOf DEF Judging
  <2>4. disk.version # Target
    BY <1>5, <2>3 DEF NewFile, Target
  <2>. QED  BY <2>2, <2>4, Fillings
<1>6. CASE Migrating
  <2>1. PICK b \in 2..8 : Block = b
    BY <1>6 DEF Migrating
  <2>2. PICK m \in 1..Len(Steps(b)) :
          disk.version \in DbInit[b].versions /\ Position(Steps(b), m)
    BY <1>6, <2>1 DEF Migrating
  <2>3. Steps(b) \in Seq(Elements(Steps(b)))
    BY Migrations
  <2>4. Statement = Steps(b)[m]
    BY <2>2, <2>3, Advance
  <2>5. disk.version # Target
    <3>1. CASE b = 2
      BY <2>2, <3>1, TriggersSteps, Blocks DEF Target
    <3>2. CASE b \in {3, 4}
      <4>1. DbInit[b].versions = {b + 2}
        BY <3>2, WiderSteps
      <4>2. disk.version = b + 2
        BY <2>2, <4>1
      <4>. QED  BY <3>2, <4>2 DEF Target
    <3>3. CASE b = 5
      BY <2>2, <3>3, To8Steps DEF Target
    <3>4. CASE b = 6
      BY <2>2, <3>4, To9Steps DEF Target
    <3>5. CASE b = 7
      BY <2>2, <3>5, To10Steps DEF Target
    <3>6. CASE b = 8
      BY <2>2, <3>6, To11Steps DEF Target
    <3>. QED  BY <3>1, <3>2, <3>3, <3>4, <3>5, <3>6
  <2>. QED  BY <2>4, <2>5, FillingSteps
<1>7. CASE Checking
  <2>1. Statement = Sql("check")
    BY <1>7, FirstOf DEF Checking
  <2>. QED  BY <1>1, <2>1, OpFields
<1>8. CASE Finishing
  <2>1. execs \in Seq(Single(Late)) /\ work.version = Target
    BY <1>8 DEF Finishing
  <2>2. Statement \in Late
    BY <1>1, <2>1, OneByOne
  <2>. QED  BY <1>2, <2>1, <2>2
<1>. QED  BY <1>1, <1>3, <1>4, <1>5, <1>6, <1>7, <1>8 DEF Starting

\* The rows of one table are others.
Refill(u, w, t, ids) ==
    /\ u.last = w.last /\ u.metadata = w.metadata
    /\ u.rows = [x \in TableNames |-> IF x = t THEN ids ELSE w.rows[x]]

SameItems(u, w) == u.last = w.last /\ u.metadata = w.metadata /\ u.rows = w.rows

LEMMA FilledRefill ==
    ASSUME NEW w, NEW x, WellFormed(w), WellFormed(x), SameItems(x, w), NEW t, NEW ids,
           NEW u, u = Filled(x, t, ids)
    PROVE  Refill(u, w, t, ids)
<1>1. x = [version |-> x.version, tables |-> x.tables, rows |-> x.rows,
           triggers |-> x.triggers, nodes |-> x.nodes, metadata |-> x.metadata,
           last |-> x.last]
      /\ x.rows = [y \in TableNames |-> x.rows[y]]
  BY DEF WellFormed
<1>2. u = [version |-> x.version, tables |-> x.tables, rows |-> [x.rows EXCEPT ![t] = ids],
           triggers |-> x.triggers, nodes |-> x.nodes, metadata |-> x.metadata,
           last |-> x.last]
  BY <1>1 DEF Filled
<1>3. u.last = x.last /\ u.metadata = x.metadata /\ u.rows = [x.rows EXCEPT ![t] = ids]
  BY <1>2
<1>. DEFINE r == x.rows
<1>4. [r EXCEPT ![t] = ids] = [y \in TableNames |-> IF y = t THEN ids ELSE r[y]]
  <2>1. r = [y \in TableNames |-> r[y]]
    BY <1>1
  <2>. HIDE DEF r
  <2>. QED  BY <2>1
<1>. QED  BY <1>3, <1>4 DEF Refill, SameItems

Retabled(x, w, tables, triggers) ==
    \/ x = [w EXCEPT !.tables = tables]
    \/ x = [w EXCEPT !.tables = tables, !.triggers = triggers]

LEMMA TablesSame ==
    ASSUME NEW w, WellFormed(w), NEW tables, NEW triggers, NEW x,
           Retabled(x, w, tables, triggers)
    PROVE  WellFormed(x) /\ SameItems(x, w) /\ x.version = w.version
<1>1. /\ w = [version |-> w.version, tables |-> w.tables, rows |-> w.rows,
              triggers |-> w.triggers, nodes |-> w.nodes, metadata |-> w.metadata,
              last |-> w.last]
      /\ w.rows = [t \in TableNames |-> w.rows[t]] /\ w.version \in EveryVersion
  BY DEF WellFormed
<1>2. PICK g : x = [version |-> w.version, tables |-> tables, rows |-> w.rows,
                    triggers |-> g, nodes |-> w.nodes, metadata |-> w.metadata,
                    last |-> w.last]
  <2>1. CASE x = [w EXCEPT !.tables = tables, !.triggers = triggers]
    <3>1. x = [version |-> w.version, tables |-> tables, rows |-> w.rows,
               triggers |-> triggers, nodes |-> w.nodes, metadata |-> w.metadata,
               last |-> w.last]
      BY <1>1, <2>1
    <3>. QED  BY <3>1
  <2>2. CASE x = [w EXCEPT !.tables = tables]
    <3>1. x = [version |-> w.version, tables |-> tables, rows |-> w.rows,
               triggers |-> w.triggers, nodes |-> w.nodes, metadata |-> w.metadata,
               last |-> w.last]
      BY <1>1, <2>2
    <3>. QED  BY <3>1
  <2>. QED  BY <2>1, <2>2 DEF Retabled
<1>. QED  BY <1>1, <1>2 DEF WellFormed, SameItems

LEMMA SameSelf ==
    ASSUME NEW w
    PROVE  SameItems(w, w)
BY DEF SameItems

\* Statements that change the rows of one table.
LEMMA Refills ==
    ASSUME NEW w, WellFormed(w), NEW s, NEW u, u = Effect(s, w)
    PROVE  /\ s.op \in {"create", "drop"} => Refill(u, w, s.t, {})
           /\ s.op = "copy" => Refill(u, w, s.t, w.rows[s.t] \union w.rows[s.of])
           /\ s.op = "join" => Refill(u, w, "items", w.rows["backup"] \intersect w.rows["itemsets"])
           /\ s.op \in {"items without node", "legacy comments"} =>
                \E ids : ids \subseteq w.rows["items"] /\ Refill(u, w, "items", ids)
           /\ s.op = "folder rows without node" =>
                \E ids : Refill(u, w, "search_folder_items", ids)
<1>1. CASE s.op = "create"
  <2>. DEFINE x == [w EXCEPT !.tables = @ \union {s.t}]
  <2>1. u = Filled(x, s.t, {})
    BY <1>1 DEF Effect
  <2>2. Retabled(x, w, w.tables \union {s.t}, w.triggers)
    BY DEF WellFormed, Retabled
  <2>. HIDE DEF x
  <2>. QED  BY <1>1, <2>1, <2>2, TablesSame, FilledRefill
<1>2. CASE s.op = "drop"
  <2>. DEFINE triggers == IF s.t = "items" THEN w.triggers \ {"item_removal", "item_insert"}
                          ELSE w.triggers
              x == [w EXCEPT !.tables = @ \ {s.t},
                             !.triggers = IF s.t = "items" THEN @ \ {"item_removal", "item_insert"}
                                          ELSE @]
  <2>1. u = Filled(x, s.t, {})
    BY <1>2 DEF Effect
  <2>2. Retabled(x, w, w.tables \ {s.t}, triggers)
    BY DEF WellFormed, Retabled
  <2>. HIDE DEF x, triggers
  <2>. QED  BY <1>2, <2>1, <2>2, TablesSame, FilledRefill
<1>3. CASE s.op = "copy"
  <2>1. u = Filled(w, s.t, w.rows[s.t] \union w.rows[s.of])
    BY <1>3 DEF Effect
  <2>. QED  BY <1>3, <2>1, SameSelf, FilledRefill
<1>4. CASE s.op = "join"
  <2>1. u = Filled(w, "items", w.rows["backup"] \intersect w.rows["itemsets"])
    BY <1>4 DEF Effect
  <2>. QED  BY <1>4, <2>1, SameSelf, FilledRefill
<1>5. CASE s.op = "items without node"
  <2>. DEFINE ids == {i \in w.rows["items"] : i \in Comments \/ NodeOf[i] \in w.nodes}
  <2>1. u = Filled(w, "items", ids)
    BY <1>5 DEF Effect
  <2>2. ids \subseteq w.rows["items"]
    OBVIOUS
  <2>. HIDE DEF ids
  <2>. QED  BY <1>5, <2>1, <2>2, SameSelf, FilledRefill
<1>6. CASE s.op = "legacy comments"
  <2>. DEFINE ids == w.rows["items"] \ Comments
  <2>1. u = Filled(w, "items", ids)
    BY <1>6 DEF Effect
  <2>2. ids \subseteq w.rows["items"]
    OBVIOUS
  <2>. HIDE DEF ids
  <2>. QED  BY <1>6, <2>1, <2>2, SameSelf, FilledRefill
<1>7. CASE s.op = "folder rows without node"
  <2>. DEFINE ids == {i \in w.rows["search_folder_items"] : {NodeOf[i], Folder} \subseteq w.nodes}
  <2>1. u = Filled(w, "search_folder_items", ids)
    BY <1>7 DEF Effect
  <2>. HIDE DEF ids
  <2>. QED  BY <1>7, <2>1, SameSelf, FilledRefill
<1>8. CASE s.op \notin {"create", "drop", "copy", "join", "items without node",
                        "legacy comments", "folder rows without node"}
  BY <1>8
<1>. QED  BY <1>1, <1>2, <1>3, <1>4, <1>5, <1>6, <1>7, <1>8

LEMMA WithoutComments ==
    ASSUME NEW w, WellFormed(w), NEW u,
           u = [w EXCEPT !.rows["itemsets"] = @ \ Comments, !.rows["items"] = @ \ Comments],
           NEW rows,
           rows = [[w.rows EXCEPT !["itemsets"] = @ \ Comments] EXCEPT !["items"] = @ \ Comments]
    PROVE  u.last = w.last /\ u.metadata = w.metadata /\ u.rows = rows
<1>1. /\ w = [version |-> w.version, tables |-> w.tables, rows |-> w.rows,
              triggers |-> w.triggers, nodes |-> w.nodes, metadata |-> w.metadata,
              last |-> w.last]
      /\ w.rows = [t \in TableNames |-> w.rows[t]] /\ w.version \in EveryVersion
  BY DEF WellFormed
<1>2. u = [version |-> w.version, tables |-> w.tables, rows |-> rows,
           triggers |-> w.triggers, nodes |-> w.nodes, metadata |-> w.metadata,
           last |-> w.last]
  BY <1>1
<1>. QED  BY <1>2

MovedIn(u, w) ==
    /\ u.metadata = w.metadata
    /\ u.rows = [t \in TableNames |-> IF t = "items" THEN w.rows["items_new"]
                                      ELSE IF t = "items_new" THEN {} ELSE w.rows[t]]

LessComments(u, w) ==
    /\ u.metadata = w.metadata
    /\ u.rows = [t \in TableNames |-> IF t \in {"items", "itemsets"} THEN w.rows[t] \ Comments
                                      ELSE w.rows[t]]

LessMetadata(u, w) ==
    /\ u.rows = w.rows
    /\ u.metadata = [i \in Ids |-> IF i \in w.rows["items"] THEN w.metadata[i] ELSE <<>>]

\* Those that change two tables, the metadata, or none of these.
LEMMA OtherEffects ==
    ASSUME NEW w, WellFormed(w), NEW s, NEW u, u = Effect(s, w),
           s.op \notin {"create", "drop", "copy", "join", "items without node",
                        "legacy comments", "folder rows without node"}
    PROVE  /\ u.last = w.last
           /\ s.op = "rename" => MovedIn(u, w)
           /\ s.op = "comments of itemsets" => LessComments(u, w)
           /\ s.op = "metadata without item" => LessMetadata(u, w)
           /\ s.op \notin {"rename", "comments of itemsets", "metadata without item"} =>
                SameItems(u, w)
<1>1. /\ w = [version |-> w.version, tables |-> w.tables, rows |-> w.rows,
              triggers |-> w.triggers, nodes |-> w.nodes, metadata |-> w.metadata,
              last |-> w.last]
      /\ w.rows = [t \in TableNames |-> w.rows[t]]
  BY DEF WellFormed
<1>. DEFINE r == w.rows
<1>2. r = [t \in TableNames |-> r[t]] /\ {"items", "items_new", "itemsets"} \subseteq TableNames
  BY <1>1 DEF TableNames
<1>3. CASE s.op = "rename"
  <2>. DEFINE rows == [[r EXCEPT !["items"] = r["items_new"]] EXCEPT !["items_new"] = {}]
  <2>1. u = [w EXCEPT !.tables = (@ \ {"items_new"}) \union {"items"},
                      !.rows["items"] = w.rows["items_new"], !.rows["items_new"] = {}]
    BY <1>3 DEF Effect
  <2>2. u = [version |-> w.version, tables |-> (w.tables \ {"items_new"}) \union {"items"},
             rows |-> rows, triggers |-> w.triggers, nodes |-> w.nodes,
             metadata |-> w.metadata, last |-> w.last]
    BY <1>1, <2>1
  <2>3. rows = [t \in TableNames |-> IF t = "items" THEN r["items_new"]
                                     ELSE IF t = "items_new" THEN {} ELSE r[t]]
    <3>. HIDE DEF r
    <3>. QED  BY <1>2
  <2>. HIDE DEF rows
  <2>. QED  BY <1>3, <2>2, <2>3 DEF MovedIn
<1>4. CASE s.op = "comments of itemsets"
  <2>. DEFINE less == [t \in TableNames |-> IF t \in {"items", "itemsets"} THEN r[t] \ Comments
                                            ELSE r[t]]
              rows == [[w.rows EXCEPT !["itemsets"] = @ \ Comments] EXCEPT !["items"] = @ \ Comments]
  <2>1. u = [w EXCEPT !.rows["itemsets"] = @ \ Comments, !.rows["items"] = @ \ Comments]
    BY <1>4 DEF Effect
  <2>2. u.last = w.last /\ u.metadata = w.metadata /\ u.rows = rows
    <3>. HIDE DEF r, less
    <3>1. rows = [[w.rows EXCEPT !["itemsets"] = @ \ Comments] EXCEPT !["items"] = @ \ Comments]
      OBVIOUS
    <3>. HIDE DEF rows
    <3>. QED  BY <2>1, <3>1, WithoutComments, ZenonT(60)
  <2>3. rows = less
    <3>1. [[r EXCEPT !["itemsets"] = @ \ Comments] EXCEPT !["items"] = @ \ Comments] = less
      <4>. HIDE DEF r
      <4>. QED  BY <1>2
    <3>. QED  BY <3>1
  <2>. HIDE DEF rows, less
  <2>4. u.last = w.last /\ u.metadata = w.metadata /\ u.rows = less
    BY <2>2, <2>3
  <2>. QED  BY <1>4, <2>4 DEF less, LessComments
<1>5. CASE s.op = "metadata without item"
  <2>. DEFINE m == [i \in Ids |-> IF i \in w.rows["items"] THEN w.metadata[i] ELSE <<>>]
  <2>1. u = [w EXCEPT !.metadata = m]
    BY <1>1, <1>5 DEF Effect
  <2>. HIDE DEF m
  <2>2. u.rows = w.rows /\ u.metadata = m /\ u.last = w.last
    BY <1>1, <2>1
  <2>. QED  BY <1>5, <2>2 DEF m, LessMetadata
<1>6. CASE s.op = "version"
  <2>1. u = [w EXCEPT !.version = s.t]
    BY <1>6 DEF Effect
  <2>. QED  BY <1>1, <1>6, <2>1 DEF SameItems
<1>7. CASE s.op \in {"drop trigger", "create trigger"}
  <2>1. \E triggers : u = [w EXCEPT !.triggers = triggers]
    <3>1. u = [w EXCEPT !.triggers = w.triggers \ {s.t}]
          \/ u = [w EXCEPT !.triggers = w.triggers \union {s.t}]
      BY <1>1, <1>7 DEF Effect
    <3>. QED  BY <3>1
  <2>. QED  BY <1>1, <1>7, <2>1 DEF SameItems
<1>8. CASE s.op = "adopt"
  <2>1. u = [w EXCEPT !.version = IF w.version = -1 THEN Target ELSE w.version]
    BY <1>1, <1>8 DEF Effect
  <2>. QED  BY <1>1, <1>8, <2>1 DEF SameItems
<1>9. CASE s.op \notin {"rename", "comments of itemsets", "metadata without item",
                        "version", "adopt", "drop trigger", "create trigger"}
  <2>1. u = w
    BY <1>9 DEF Effect
  <2>. QED  BY <1>9, <2>1 DEF SameItems
<1>. QED  BY <1>3, <1>4, <1>5, <1>6, <1>7, <1>8, <1>9

StillListed(u, w) == IdsGiven(u) /\ Listed(u) /\ u.last = w.last

LEMMA HoldersAreTables == Holders \subseteq TableNames /\ "items" \in Holders
BY DEF Holders, TableNames

LEMMA RefillKeeps ==
    ASSUME NEW w, IdsGiven(w), Listed(w), NEW t, NEW ids, t \in Holders => ids \subseteq 1..w.last,
           NEW u, Refill(u, w, t, ids)
    PROVE  StillListed(u, w)
<1>1. /\ u.last = w.last /\ u.metadata = w.metadata
      /\ \A x \in TableNames : u.rows[x] = IF x = t THEN ids ELSE w.rows[x]
  BY DEF Refill
<1>2. Listed(u)
  BY <1>1 DEF Listed
<1>3. IdsGiven(u)
  BY <1>1, HoldersAreTables DEF IdsGiven
<1>. QED  BY <1>1, <1>2, <1>3 DEF StillListed

LEMMA EffectKeeps ==
    ASSUME NEW w, WellFormed(w), IdsGiven(w), Listed(w), NEW s, Filling(s),
           NEW u, u = Effect(s, w)
    PROVE  StillListed(u, w)
<1>1. /\ w.last \in Nat /\ \A t \in Holders : w.rows[t] \subseteq 1..w.last
      /\ w.rows["items"] \subseteq 1..w.last
  BY HoldersAreTables DEF IdsGiven
<1>2. CASE s.op \in {"create", "drop"}
  BY <1>1, <1>2, Refills, RefillKeeps
<1>3. CASE s.op = "copy"
  <2>1. s.t \in Holders => w.rows[s.t] \union w.rows[s.of] \subseteq 1..w.last
    BY <1>1, <1>3 DEF Filling
  <2>2. Refill(u, w, s.t, w.rows[s.t] \union w.rows[s.of])
    BY <1>3, Refills
  <2>. QED  BY <2>1, <2>2, RefillKeeps
<1>4. CASE s.op = "join"
  <2>1. w.rows["backup"] \intersect w.rows["itemsets"] \subseteq 1..w.last
    BY <1>1 DEF Holders
  <2>2. Refill(u, w, "items", w.rows["backup"] \intersect w.rows["itemsets"])
    BY <1>4, Refills
  <2>. QED  BY <2>1, <2>2, RefillKeeps
<1>5. CASE s.op \in {"items without node", "legacy comments"}
  <2>1. PICK ids : ids \subseteq w.rows["items"] /\ Refill(u, w, "items", ids)
    BY <1>5, Refills
  <2>2. ids \subseteq 1..w.last
    BY <1>1, <2>1
  <2>. QED  BY <2>1, <2>2, RefillKeeps
<1>6. CASE s.op = "folder rows without node"
  <2>1. PICK ids : Refill(u, w, "search_folder_items", ids)
    BY <1>6, Refills
  <2>2. "search_folder_items" \notin Holders
    BY DEF Holders
  <2>. QED  BY <2>1, <2>2, RefillKeeps
<1>7. CASE s.op \notin {"create", "drop", "copy", "join", "items without node",
                        "legacy comments", "folder rows without node"}
  <2>1. u.last = w.last
    BY <1>7, OtherEffects
  <2>2. CASE s.op = "rename"
    <3>1. /\ u.metadata = w.metadata
          /\ \A t \in TableNames : u.rows[t] = IF t = "items" THEN w.rows["items_new"]
                                               ELSE IF t = "items_new" THEN {} ELSE w.rows[t]
      <4>1. MovedIn(u, w)
        BY <1>7, <2>2, OtherEffects
      <4>. QED  BY <4>1 DEF MovedIn
    <3>2. \A t \in Holders : u.rows[t] \subseteq 1..w.last
      BY <1>1, <3>1, HoldersAreTables DEF Holders
    <3>. QED  BY <1>1, <2>1, <3>1, <3>2 DEF StillListed, IdsGiven, Listed
  <2>3. CASE s.op = "comments of itemsets"
    <3>1. /\ u.metadata = w.metadata
          /\ \A t \in TableNames : u.rows[t] = IF t \in {"items", "itemsets"}
                                               THEN w.rows[t] \ Comments ELSE w.rows[t]
      <4>1. LessComments(u, w)
        BY <1>7, <2>3, OtherEffects
      <4>. QED  BY <4>1 DEF LessComments
    <3>2. \A t \in Holders : u.rows[t] \subseteq 1..w.last
      BY <1>1, <3>1, HoldersAreTables
    <3>. QED  BY <1>1, <2>1, <3>1, <3>2 DEF StillListed, IdsGiven, Listed
  <2>4. CASE s.op = "metadata without item"
    <3>1. /\ u.rows = w.rows
          /\ u.metadata = [i \in Ids |-> IF i \in w.rows["items"] THEN w.metadata[i] ELSE <<>>]
      <4>1. LessMetadata(u, w)
        BY <1>7, <2>4, OtherEffects
      <4>. QED  BY <4>1 DEF LessMetadata
    <3>2. \A i \in Ids : IsList(w.metadata[i])
      BY DEF Listed
    <3>3. IsList(<<>>)
      <4>1. <<>> \in Seq({})
        OBVIOUS
      <4>. QED  BY <4>1 DEF IsList
    <3>4. \A i \in Ids : IsList(u.metadata[i])
      BY <3>1, <3>2, <3>3
    <3>5. u.metadata = [i \in Ids |-> u.metadata[i]]
      BY <3>1
    <3>. QED  BY <1>1, <2>1, <3>1, <3>4, <3>5 DEF StillListed, IdsGiven, Listed
  <2>5. CASE s.op \notin {"rename", "comments of itemsets", "metadata without item"}
    <3>1. SameItems(u, w)
      BY <1>7, <2>5, OtherEffects
    <3>. QED  BY <1>1, <3>1 DEF SameItems, StillListed, IdsGiven, Listed
  <2>. QED  BY <2>2, <2>3, <2>4, <2>5
<1>. QED  BY <1>2, <1>3, <1>4, <1>5, <1>6, <1>7

\* What stays of the items and of what is stored about them.
Stays(u, w) ==
    \A i \in Ids : i \in u.rows["items"] => i \in w.rows["items"] /\ u.metadata[i] = w.metadata[i]

LEMMA StaysMarked ==
    ASSUME NEW u, NEW w, Stays(u, w), NEW i \in Ids, Marked(w, i)
    PROVE  Marked(u, i)
BY DEF Stays, Marked

LEMMA LateOps ==
    ASSUME NEW s \in Small \union Late
    PROVE  /\ s.op \in {"begin", "end", "create", "drop", "copy", "rebuild", "drop trigger",
                        "create trigger", "items without node", "folder rows without node",
                        "metadata without item", "legacy comments"}
           /\ s.op = "copy" => s.t = "search_folder_items"
<1>1. s \in Small => s.op \in {"drop", "copy", "rebuild"}
                     /\ (s.op = "copy" => s.t = "search_folder_items")
  <2>1. Copy("views", "search_folder_items").t = "search_folder_items"
    BY DEF Copy
  <2>2. /\ Drop("attention_stats").op = "drop" /\ Drop("views").op = "drop"
        /\ Copy("views", "search_folder_items").op = "copy" /\ Sql("rebuild").op = "rebuild"
    BY OpFields
  <2>. QED  BY <2>1, <2>2 DEF Small
<1>2. s \in Late => s.op \in {"begin", "end", "create", "drop trigger",
                        "create trigger", "items without node", "folder rows without node",
                        "metadata without item", "legacy comments"}
  BY OpFields DEF Late
<1>. QED  BY <1>1, <1>2

LEMMA RefillStays ==
    ASSUME NEW w, NEW t, NEW ids, t = "items" => ids \subseteq w.rows["items"],
           NEW u, Refill(u, w, t, ids)
    PROVE  Stays(u, w)
<1>1. u.metadata = w.metadata
      /\ u.rows["items"] = IF "items" = t THEN ids ELSE w.rows["items"]
  BY HoldersAreTables DEF Refill
<1>. QED  BY <1>1 DEF Stays

LEMMA EffectStays ==
    ASSUME NEW w, WellFormed(w), NEW s \in Small \union Late, NEW u, u = Effect(s, w)
    PROVE  Stays(u, w)
<1>1. CASE s.op \in {"create", "drop"}
  BY <1>1, Refills, RefillStays
<1>2. CASE s.op = "copy"
  <2>1. s.t # "items"
    BY <1>2, LateOps
  <2>2. Refill(u, w, s.t, w.rows[s.t] \union w.rows[s.of])
    BY <1>2, Refills
  <2>. QED  BY <2>1, <2>2, RefillStays
<1>3. CASE s.op \in {"items without node", "legacy comments"}
  <2>1. PICK ids : ids \subseteq w.rows["items"] /\ Refill(u, w, "items", ids)
    BY <1>3, Refills
  <2>. QED  BY <2>1, RefillStays
<1>4. CASE s.op = "folder rows without node"
  <2>1. PICK ids : Refill(u, w, "search_folder_items", ids)
    BY <1>4, Refills
  <2>. QED  BY <2>1, RefillStays
<1>5. CASE s.op = "metadata without item"
  <2>1. /\ u.rows = w.rows
        /\ u.metadata = [i \in Ids |-> IF i \in w.rows["items"] THEN w.metadata[i] ELSE <<>>]
    <3>1. LessMetadata(u, w)
      BY <1>5, OtherEffects
    <3>. QED  BY <3>1 DEF LessMetadata
  <2>. QED  BY <2>1 DEF Stays
<1>6. CASE s.op \in {"begin", "end", "rebuild", "drop trigger", "create trigger"}
  <2>1. SameItems(u, w)
    BY <1>6, OtherEffects
  <2>. QED  BY <2>1 DEF Stays, SameItems
<1>. QED  BY <1>1, <1>2, <1>3, <1>4, <1>5, <1>6, LateOps

LEMMA LateVersion ==
    ASSUME NEW w, WellFormed(w), NEW s \in Small \union Late, NEW u, u = Effect(s, w)
    PROVE  u.version = w.version
<1>1. /\ w = [version |-> w.version, tables |-> w.tables, rows |-> w.rows,
              triggers |-> w.triggers, nodes |-> w.nodes, metadata |-> w.metadata,
              last |-> w.last]
  BY DEF WellFormed
<1>2. ASSUME NEW x, x.version = w.version, NEW t, NEW ids,
             x = [version |-> x.version, tables |-> x.tables, rows |-> x.rows,
                  triggers |-> x.triggers, nodes |-> x.nodes, metadata |-> x.metadata,
                  last |-> x.last], u = Filled(x, t, ids)
      PROVE  u.version = w.version
  BY <1>2 DEF Filled
<1>3. CASE s.op = "create"
  BY <1>1, <1>2, <1>3 DEF Effect
<1>4. CASE s.op = "drop"
  <2>. DEFINE triggers == IF s.t = "items" THEN w.triggers \ {"item_removal", "item_insert"}
                          ELSE w.triggers
              x == [w EXCEPT !.tables = @ \ {s.t},
                             !.triggers = IF s.t = "items" THEN @ \ {"item_removal", "item_insert"}
                                          ELSE @]
  <2>1. u = Filled(x, s.t, {})
    BY <1>4 DEF Effect
  <2>2. Retabled(x, w, w.tables \ {s.t}, triggers)
    BY <1>1 DEF Retabled
  <2>. HIDE DEF x, triggers
  <2>3. WellFormed(x) /\ x.version = w.version
    BY <2>2, TablesSame
  <2>4. x = [version |-> x.version, tables |-> x.tables, rows |-> x.rows,
             triggers |-> x.triggers, nodes |-> x.nodes, metadata |-> x.metadata,
             last |-> x.last]
    BY <2>3 DEF WellFormed
  <2>. QED  BY <1>2, <2>1, <2>3, <2>4
<1>5. CASE s.op \in {"copy", "items without node", "folder rows without node", "legacy comments"}
  <2>1. \E t, ids : u = Filled(w, t, ids)
    <3>1. CASE s.op = "copy"
      BY <3>1 DEF Effect
    <3>2. CASE s.op = "items without node"
      BY <3>2 DEF Effect
    <3>3. CASE s.op = "folder rows without node"
      BY <3>3 DEF Effect
    <3>4. CASE s.op = "legacy comments"
      BY <3>4 DEF Effect
    <3>. QED  BY <1>5, <3>1, <3>2, <3>3, <3>4
  <2>. QED  BY <1>1, <1>2, <2>1
<1>6. CASE s.op = "metadata without item"
  BY <1>1, <1>6 DEF Effect
<1>7. CASE s.op \in {"drop trigger", "create trigger"}
  BY <1>1, <1>7 DEF Effect
<1>8. CASE s.op \in {"begin", "end", "rebuild"}
  BY <1>8 DEF Effect
<1>. QED  BY <1>3, <1>4, <1>5, <1>6, <1>7, <1>8, LateOps

\* A step that leaves the counters alone.
LEMMA CountsKept ==
    ASSUME FetchInv, fetches' = fetches, merges' = merges,
           StillListed(work', work), StillListed(disk', disk) \/ StillListed(disk', work),
           \A i \in Ids : fetches[i] # 0 =>
                /\ disk'.version = Target
                /\ Marked(disk, i) /\ Marked(work, i) => Marked(disk', i) /\ Marked(work', i)
    PROVE  FetchInv'
<1>1. /\ fetches' \in [Ids -> Nat] /\ merges' \in [Ids -> Nat]
      /\ IdsGiven(disk') /\ IdsGiven(work') /\ work'.last = disk'.last
      /\ Listed(disk') /\ Listed(work') /\ disk'.last = disk.last
  BY DEF FetchInv, StillListed
<1>2. \A i \in Ids : fetches'[i] # 0 => disk'.version = Target /\ i <= disk'.last
  BY <1>1 DEF FetchInv
<1>3. ASSUME NEW i \in Ids
      PROVE  \/ fetches'[i] <= merges'[i]
             \/ fetches'[i] = merges'[i] + 1 /\ Marked(disk', i) /\ Marked(work', i)
  <2>1. fetches[i] \in Nat /\ merges[i] \in Nat
    BY DEF FetchInv
  <2>2. CASE fetches[i] <= merges[i]
    BY <2>2
  <2>3. CASE fetches[i] = merges[i] + 1 /\ Marked(disk, i) /\ Marked(work, i)
    <3>1. fetches[i] # 0
      BY <2>1, <2>3
    <3>. QED  BY <2>3, <3>1
  <2>. QED  BY <2>2, <2>3 DEF FetchInv
<1>. QED  BY <1>1, <1>2, <1>3 DEF FetchInv, Marked

LEMMA ListedSelf ==
    ASSUME FetchInv
    PROVE  StillListed(work, work) /\ StillListed(disk, disk)
BY DEF FetchInv, StillListed

LEMMA ExecuteCounts ==
    ASSUME IInv, FetchInv, Execute
    PROVE  FetchInv'
<1>. DEFINE failed == Fails(Statement, work)
            after == IF failed THEN work ELSE Effect(Statement, work)
<1>1. /\ fetches' = fetches /\ merges' = merges /\ work' = after
      /\ disk' = disk \/ disk' = after
  BY DEF Execute, history
<1>2. WellFormed(work)
  BY DEF IInv
<1>3. StillListed(after, work)
  <2>1. ASSUME NEW u, u = Effect(Statement, work)
        PROVE  StillListed(u, work)
    <3>1. IdsGiven(work) /\ Listed(work) /\ Filling(Statement)
      BY NextStatement DEF FetchInv
    <3>. QED  BY <1>2, <2>1, <3>1, EffectKeeps
  <2>. QED  BY <2>1, ListedSelf
<1>4. ASSUME NEW i \in Ids, fetches[i] # 0
      PROVE  /\ disk'.version = Target
             /\ Marked(disk, i) /\ Marked(work, i) => Marked(disk', i) /\ Marked(work', i)
  <2>1. disk.version = Target
    BY <1>4 DEF FetchInv
  <2>2. Statement \in Small \union Late /\ work.version = Target
    BY <2>1, NextStatement
  <2>3. ASSUME NEW u, u = Effect(Statement, work)
        PROVE  Stays(u, work) /\ u.version = work.version
    <3>1. Stays(u, work)
      BY <1>2, <2>2, <2>3, EffectStays
    <3>2. u.version = work.version
      BY <1>2, <2>2, <2>3, LateVersion
    <3>. QED  BY <3>1, <3>2
  <2>4. Stays(after, work) /\ after.version = Target
    <3>1. Stays(work, work)
      BY DEF Stays
    <3>. QED  BY <2>2, <2>3, <3>1
  <2>. HIDE DEF after
  <2>5. Marked(work, i) => Marked(after, i)
    BY <2>4, StaysMarked
  <2>. QED  BY <1>1, <2>1, <2>4, <2>5
<1>. HIDE DEF after
<1>5. StillListed(work', work)
  BY <1>1, <1>3
<1>6. StillListed(disk', disk) \/ StillListed(disk', work)
  BY <1>1, <1>3, ListedSelf
<1>. QED  BY <1>1, <1>4, <1>5, <1>6, CountsKept

\* A step of db_init() that carries out no statement, and a crash.
LEMMA CrashCounts ==
    ASSUME FetchInv, disk' = disk, work' \in {work, disk}, fetches' = fetches, merges' = merges
    PROVE  FetchInv'
<1>1. StillListed(disk', disk) /\ StillListed(work', work)
  BY ListedSelf DEF FetchInv, StillListed
<1>2. ASSUME NEW i \in Ids, fetches[i] # 0
      PROVE  /\ disk'.version = Target
             /\ Marked(disk, i) /\ Marked(work, i) => Marked(disk', i) /\ Marked(work', i)
  BY <1>2 DEF FetchInv
<1>. QED  BY <1>1, <1>2, CountsKept

-----------------------------------------------------------------------------
(* Lists of metadata. *)

LEMMA FunctionIsList ==
    ASSUME NEW n \in Nat, NEW f, f = [i \in 1..n |-> f[i]]
    PROVE  IsList(f)
<1>. DEFINE S == {f[i] : i \in 1..n}
<1>1. \A i \in 1..n : f[i] \in S
  OBVIOUS
<1>. HIDE DEF S
<1>2. f \in Seq(S)
  BY <1>1
<1>. QED  BY <1>2 DEF IsList

LEMMA PartIsList ==
    ASSUME NEW m, IsList(m)
    PROVE  /\ Len(m) \in Nat /\ DOMAIN m = 1..Len(m)
           /\ \A n \in 0..Len(m) : IsList(SubSeq(m, 1, n))
           /\ \A a \in Nat \ {0} : IsList(SubSeq(m, a, Len(m)))
<1>1. PICK S : m \in Seq(S)
  BY DEF IsList
<1>2. Len(m) \in Nat /\ DOMAIN m = 1..Len(m)
  BY <1>1
<1>3. ASSUME NEW n \in 0..Len(m) PROVE IsList(SubSeq(m, 1, n))
  <2>1. SubSeq(m, 1, n) \in Seq(S)
    BY <1>1, <1>2
  <2>. QED  BY <2>1 DEF IsList
<1>4. ASSUME NEW a \in Nat \ {0} PROVE IsList(SubSeq(m, a, Len(m)))
  <2>1. SubSeq(m, a, Len(m)) \in Seq(S)
    BY <1>1, <1>2
  <2>. QED  BY <2>1 DEF IsList
<1>. QED  BY <1>2, <1>3, <1>4

LEMMA BothAreLists ==
    ASSUME NEW a, IsList(a), NEW b, IsList(b)
    PROVE  /\ IsList(a \o b) /\ DOMAIN (a \o b) = 1..(Len(a) + Len(b))
           /\ \A i \in 1..Len(a) : (a \o b)[i] = a[i]
           /\ \A i \in 1..Len(b) : (a \o b)[Len(a) + i] = b[i]
<1>1. PICK A : a \in Seq(A)
  BY DEF IsList
<1>2. PICK B : b \in Seq(B)
  BY DEF IsList
<1>. DEFINE S == A \union B
<1>3. a \in Seq(S) /\ b \in Seq(S)
  BY <1>1, <1>2
<1>. HIDE DEF S
<1>4. /\ a \o b \in Seq(S) /\ Len(a \o b) = Len(a) + Len(b)
      /\ \A i \in 1..Len(a) : (a \o b)[i] = a[i]
      /\ \A i \in 1..Len(b) : (a \o b)[Len(a) + i] = b[i]
  BY <1>3
<1>5. DOMAIN (a \o b) = 1..(Len(a) + Len(b))
  BY <1>4
<1>. QED  BY <1>4, <1>5 DEF IsList

LEMMA HasInBoth ==
    ASSUME NEW a, IsList(a), NEW b, IsList(b), NEW k, Has(a, k) \/ Has(b, k)
    PROVE  Has(a \o b, k)
<1>1. Len(a) \in Nat /\ DOMAIN a = 1..Len(a) /\ Len(b) \in Nat /\ DOMAIN b = 1..Len(b)
  BY PartIsList
<1>2. CASE Has(a, k)
  <2>1. PICK i \in 1..Len(a) : a[i].k = k
    BY <1>1, <1>2 DEF Has
  <2>2. i \in DOMAIN (a \o b) /\ (a \o b)[i].k = k
    BY <1>1, <2>1, BothAreLists
  <2>. QED  BY <2>2 DEF Has
<1>3. CASE Has(b, k)
  <2>1. PICK i \in 1..Len(b) : b[i].k = k
    BY <1>1, <1>3 DEF Has
  <2>2. Len(a) + i \in 1..(Len(a) + Len(b))
    BY <1>1, <2>1
  <2>3. Len(a) + i \in DOMAIN (a \o b) /\ (a \o b)[Len(a) + i].k = k
    BY <2>1, <2>2, BothAreLists
  <2>. QED  BY <2>3 DEF Has
<1>. QED  BY <1>2, <1>3

\* Storing a list keeps its keys, whatever was stored before.
LEMMA SavedList ==
    ASSUME NEW rows, IsList(rows), NEW list, IsList(list)
    PROVE  /\ IsList(Saved(rows, list))
           /\ \A k : Has(list, k) => Has(Saved(rows, list), k)
<1>. DEFINE rest == SubSeq(rows, Len(list) + 1, Len(rows))
<1>1. IsList(rest)
  <2>1. Len(list) \in Nat
    BY PartIsList
  <2>2. Len(list) + 1 \in Nat \ {0}
    BY <2>1
  <2>. QED  BY <2>2, PartIsList
<1>2. Saved(rows, list) = list \o rest
  BY DEF Saved
<1>. HIDE DEF rest
<1>. QED  BY <1>1, <1>2, BothAreLists, HasInBoth

\* How many of a list's rows there are of some kind.
LEMMA CountOf ==
    ASSUME NEW n \in Nat, NEW S \in SUBSET (1..n)
    PROVE  Cardinality(S) \in 0..n
<1>1. IsFiniteSet(1..n) /\ Cardinality(1..n) = n
  BY FS_Interval
<1>2. IsFiniteSet(S) /\ Cardinality(S) <= Cardinality(1..n)
  BY <1>1, FS_Subset
<1>3. Cardinality(S) \in Nat
  BY <1>2, FS_CardinalityType
<1>. QED  BY <1>1, <1>2, <1>3

LEMMA LoadedList ==
    ASSUME NEW list, IsList(list)
    PROVE  IsList(Loaded(list))
<1>. DEFINE rows == {i \in DOMAIN list : \A j \in 1..i - 1 : list[j] # list[i]}
            first(i) == CHOOSE j \in rows :
                            list[j].k = list[i].k /\ \A l \in 1..j - 1 : list[l].k # list[i].k
            ahead(i) == {j \in rows : first(j) < first(i) \/ (first(j) = first(i) /\ j < i)}
            at(n) == list[CHOOSE i \in rows : Cardinality(ahead(i)) = n - 1]
<1>1. Len(list) \in Nat /\ DOMAIN list = 1..Len(list)
  BY PartIsList
<1>2. Cardinality(rows) \in Nat
  BY <1>1, CountOf
<1>3. Loaded(list) = [n \in 1..Cardinality(rows) |-> at(n)]
  BY DEF Loaded
<1>. HIDE DEF rows, at
<1>4. Loaded(list) = [n \in 1..Cardinality(rows) |-> Loaded(list)[n]]
  BY <1>3
<1>. HIDE DEF Loaded
<1>. QED  BY <1>2, <1>4, FunctionIsList

\* Setting a key gives it a value, wherever it comes in the list.
LEMMA SetList ==
    ASSUME NEW list, IsList(list), NEW k, NEW v
    PROVE  IsList(SetValue(list, k, v)) /\ Has(SetValue(list, k, v), k)
<1>. DEFINE before == {i \in DOMAIN list : \A j \in 1..i : list[j].k # k}
            those == {i \in DOMAIN list : list[i].k = k}
            ahead == Cardinality(before)
            values == Cardinality(those)
            a == SubSeq(list, 1, ahead)
            b == <<Pair(k, v)>>
            c == SubSeq(list, ahead + values + 1, Len(list))
<1>1. Len(list) \in Nat /\ DOMAIN list = 1..Len(list)
  BY PartIsList
<1>2. ahead \in 0..Len(list) /\ values \in 0..Len(list)
  <2>1. before \in SUBSET (1..Len(list)) /\ those \in SUBSET (1..Len(list))
    BY <1>1
  <2>. HIDE DEF before, those
  <2>. QED  BY <1>1, <2>1, CountOf
<1>3. SetValue(list, k, v) = a \o b \o c
  BY DEF SetValue
<1>. HIDE DEF ahead, values
<1>4. IsList(a)
  BY <1>2, PartIsList
<1>5. IsList(c)
  <2>1. ahead + values + 1 \in Nat \ {0}
    BY <1>1, <1>2
  <2>. QED  BY <2>1, PartIsList
<1>6. IsList(b) /\ Has(b, k)
  <2>. DEFINE p == Pair(k, v)
  <2>1. p.k = k
    BY DEF Pair
  <2>. HIDE DEF p
  <2>2. <<p>> \in Seq({p}) /\ DOMAIN <<p>> = {1} /\ <<p>>[1] = p
    OBVIOUS
  <2>3. IsList(<<p>>) /\ Has(<<p>>, k)
    BY <2>1, <2>2 DEF IsList, Has
  <2>. QED  BY <2>3 DEF p
<1>. HIDE DEF a, b, c
<1>7. IsList(a \o b) /\ Has(a \o b, k)
  BY <1>4, <1>6, BothAreLists, HasInBoth
<1>8. IsList((a \o b) \o c) /\ Has((a \o b) \o c, k)
  BY <1>5, <1>7, BothAreLists, HasInBoth
<1>. QED  BY <1>3, <1>8

-----------------------------------------------------------------------------
(* The operations of the running program, each of which stores one database. *)

LEMMA StoringCounts ==
    ASSUME FetchInv, NEW w, disk' = w, work' = w, w.version = Target, StillListed(w, work),
           \A i \in Ids : Marked(work, i) => Marked(w, i),
           fetches' = fetches, merges' = merges
    PROVE  FetchInv'
<1>1. StillListed(work', work) /\ StillListed(disk', work)
  OBVIOUS
<1>2. ASSUME NEW i \in Ids, fetches[i] # 0
      PROVE  /\ disk'.version = Target
             /\ Marked(disk, i) /\ Marked(work, i) => Marked(disk', i) /\ Marked(work', i)
  OBVIOUS
<1>. QED  BY <1>1, <1>2, CountsKept

LEMMA ListsWith ==
    ASSUME FetchInv, NEW i, NEW list, IsList(list), NEW m,
           m = [work.metadata EXCEPT ![i] = list]
    PROVE  /\ m = [j \in Ids |-> m[j]]
           /\ \A j \in Ids : m[j] = IF j = i THEN list ELSE work.metadata[j]
           /\ \A j \in Ids : IsList(m[j])
<1>. DEFINE r == work.metadata
<1>1. r = [j \in Ids |-> r[j]] /\ \A j \in Ids : IsList(r[j])
  BY DEF FetchInv, Listed
<1>. HIDE DEF r
<1>2. /\ m = [j \in Ids |-> m[j]]
      /\ \A j \in Ids : m[j] = IF j = i THEN list ELSE r[j]
  <2>1. m = [r EXCEPT ![i] = list]
    BY DEF r
  <2>. QED  BY <1>1, <2>1
<1>. QED  BY <1>1, <1>2 DEF r

\* Other metadata of one item, and nothing else.
Relisted(w, i, list) ==
    /\ w.version = Target /\ w.last = work.last /\ w.rows = work.rows
    /\ w.metadata = [j \in Ids |-> w.metadata[j]]
    /\ \A j \in Ids : w.metadata[j] = IF j = i THEN list ELSE work.metadata[j]

LEMMA MetadataListed ==
    ASSUME IInv, FetchInv, phase = "running", NEW i, NEW list, IsList(list), NEW w,
           w = [work EXCEPT !.metadata[i] = list]
    PROVE  Relisted(w, i, list) /\ StillListed(w, work)
<1>. DEFINE m == [work.metadata EXCEPT ![i] = list]
<1>1. w = [version |-> work.version, tables |-> work.tables, rows |-> work.rows,
           triggers |-> work.triggers, nodes |-> work.nodes, metadata |-> m,
           last |-> work.last]
  BY Running
<1>2. /\ m = [j \in Ids |-> m[j]]
      /\ \A j \in Ids : m[j] = IF j = i THEN list ELSE work.metadata[j]
      /\ \A j \in Ids : IsList(m[j])
  <2>1. m = [work.metadata EXCEPT ![i] = list]
    OBVIOUS
  <2>. HIDE DEF m
  <2>. QED  BY <2>1, ListsWith
<1>. HIDE DEF m
<1>3. w.version = work.version /\ w.last = work.last /\ w.rows = work.rows /\ w.metadata = m
  BY <1>1
<1>4. work.version = Target
  BY Running
<1>5. Relisted(w, i, list)
  BY <1>2, <1>3, <1>4 DEF Relisted
<1>6. IdsGiven(w)
  BY <1>3 DEF FetchInv, IdsGiven
<1>7. Listed(w)
  BY <1>2, <1>3 DEF Listed
<1>. QED  BY <1>3, <1>5, <1>6, <1>7 DEF StillListed

LEMMA FeedList ==
    ASSUME NEW list \in FeedMetadata
    PROVE  IsList(list)
<1>1. list \in Seq([k : STRING, v : STRING])
  BY DatabaseAssumption
<1>. QED  BY <1>1 DEF IsList

LEMMA StoredList ==
    ASSUME FetchInv, NEW i \in Ids
    PROVE  IsList(work.metadata[i])
BY DEF FetchInv, Listed

\* Setting the state of the comments marks an item, and leaves the others as they are.
WithState(i, v) ==
    [work EXCEPT !.metadata[i] =
        Saved(work.metadata[i], SetValue(Loaded(work.metadata[i]), "commentFeedJson", v))]

LEMMA MarkSet ==
    ASSUME IInv, FetchInv, phase = "running", NEW i \in Ids, NEW v, NEW w, w = WithState(i, v)
    PROVE  /\ StillListed(w, work) /\ w.version = Target /\ w.last = work.last
           /\ Marked(w, i)
           /\ \A j \in Ids : Marked(work, j) => Marked(w, j)
<1>. DEFINE list == SetValue(Loaded(work.metadata[i]), "commentFeedJson", v)
            x == Saved(work.metadata[i], list)
<1>1. IsList(list) /\ Has(list, "commentFeedJson")
  <2>1. IsList(Loaded(work.metadata[i]))
    BY StoredList, LoadedList
  <2>. QED  BY <2>1, SetList
<1>2. IsList(x) /\ Has(x, "commentFeedJson")
  <2>1. IsList(work.metadata[i])
    BY StoredList
  <2>. HIDE DEF list
  <2>. QED  BY <1>1, <2>1, SavedList
<1>3. w = [work EXCEPT !.metadata[i] = x]
  BY DEF WithState
<1>. HIDE DEF x
<1>4. Relisted(w, i, x) /\ StillListed(w, work)
  BY <1>2, <1>3, MetadataListed
<1>5. /\ w.version = Target /\ w.last = work.last /\ w.rows = work.rows
      /\ \A j \in Ids : w.metadata[j] = IF j = i THEN x ELSE work.metadata[j]
  BY <1>4 DEF Relisted
<1>6. Marked(w, i)
  BY <1>2, <1>5 DEF Marked
<1>7. \A j \in Ids : Marked(work, j) => Marked(w, j)
  BY <1>2, <1>5 DEF Marked
<1>. QED  BY <1>4, <1>5, <1>6, <1>7

LEMMA MergeItemCounts ==
    ASSUME IInv, FetchInv, NEW list \in FeedMetadata, NEW i \in Ids, MergeItem(i, list)
    PROVE  FetchInv'
<1>. DEFINE x == Saved(work.metadata[i], list)
            w == [work EXCEPT !.metadata[i] = x]
<1>1. /\ phase = "running" /\ fetches' = fetches /\ merges' = [merges EXCEPT ![i] = @ + 1]
      /\ Stored([work EXCEPT !.metadata[i] = Saved(@, list)])
  BY DEF MergeItem, Step
<1>2. disk' = w /\ work' = w
  BY <1>1, Running DEF Stored
<1>3. IsList(x)
  BY StoredList, FeedList, SavedList
<1>4. Relisted(w, i, x) /\ StillListed(w, work)
  <2>1. w = [work EXCEPT !.metadata[i] = x]
    OBVIOUS
  <2>. HIDE DEF w, x
  <2>. QED  BY <1>1, <1>3, <2>1, MetadataListed
<1>. HIDE DEF w, x
<1>5. /\ IdsGiven(w) /\ Listed(w) /\ w.version = Target /\ w.last = work.last
      /\ w.rows = work.rows
      /\ \A j \in Ids : w.metadata[j] = IF j = i THEN x ELSE work.metadata[j]
  BY <1>4 DEF StillListed, Relisted
<1>6. /\ merges' \in [Ids -> Nat] /\ fetches' \in [Ids -> Nat]
      /\ \A j \in Ids : merges'[j] = IF j = i THEN merges[j] + 1 ELSE merges[j]
  BY <1>1 DEF FetchInv
<1>7. ASSUME NEW j \in Ids
      PROVE  \/ fetches'[j] <= merges'[j]
             \/ fetches'[j] = merges'[j] + 1 /\ Marked(w, j)
  <2>1. fetches[j] \in Nat /\ merges[j] \in Nat /\ fetches'[j] = fetches[j]
    BY <1>1 DEF FetchInv
  <2>2. fetches[j] <= merges[j] \/ (fetches[j] = merges[j] + 1 /\ Marked(work, j))
    BY DEF FetchInv
  <2>3. CASE j = i
    <3>1. merges'[j] = merges[j] + 1
      BY <1>6, <2>3
    <3>. QED  BY <2>1, <2>2, <3>1
  <2>4. CASE j # i
    <3>1. merges'[j] = merges[j]
      BY <1>6, <2>4
    <3>2. Marked(work, j) => Marked(w, j)
      BY <1>5, <2>4 DEF Marked
    <3>. QED  BY <2>1, <2>2, <3>1, <3>2
  <2>. QED  BY <2>3, <2>4
<1>8. \A j \in Ids : fetches'[j] # 0 => j <= w.last
  BY <1>1, <1>5 DEF FetchInv
<1>. QED  BY <1>2, <1>5, <1>6, <1>7, <1>8 DEF FetchInv, Marked

LEMMA ViewItemCounts ==
    ASSUME IInv, FetchInv, NEW i \in Ids, ViewItem(i)
    PROVE  FetchInv'
<1>. DEFINE w == WithState(i, "fetching")
<1>1. /\ phase = "running" /\ i \in work.rows["items"] /\ ~HasStatus(i)
      /\ merges' = merges /\ fetches' = [fetches EXCEPT ![i] = @ + 1]
      /\ Stored(MarkedItem(i))
  BY DEF ViewItem, Step, Items
<1>2. MarkedItem(i) = w
  BY <1>1, Running DEF MarkedItem, WithState
<1>3. disk' = w /\ work' = w
  BY <1>1, <1>2 DEF Stored
<1>4. /\ StillListed(w, work) /\ w.version = Target /\ w.last = work.last
      /\ Marked(w, i)
      /\ \A j \in Ids : Marked(work, j) => Marked(w, j)
  <2>1. w = WithState(i, "fetching")
    OBVIOUS
  <2>. HIDE DEF w
  <2>. QED  BY <1>1, <2>1, MarkSet
<1>. HIDE DEF w
<1>5. IdsGiven(w) /\ Listed(w)
  BY <1>4 DEF StillListed
<1>6. ~Marked(work, i)
  BY <1>1 DEF Marked, HasStatus
<1>7. i <= w.last
  <2>1. work.rows["items"] \subseteq 1..work.last /\ work.last \in Nat
    BY HoldersAreTables DEF FetchInv, IdsGiven
  <2>. QED  BY <1>1, <1>4, <2>1
<1>8. /\ merges' \in [Ids -> Nat] /\ fetches' \in [Ids -> Nat]
      /\ \A j \in Ids : fetches'[j] = IF j = i THEN fetches[j] + 1 ELSE fetches[j]
  BY <1>1 DEF FetchInv
<1>9. ASSUME NEW j \in Ids
      PROVE  \/ fetches'[j] <= merges'[j]
             \/ fetches'[j] = merges'[j] + 1 /\ Marked(w, j)
  <2>1. fetches[j] \in Nat /\ merges[j] \in Nat /\ merges'[j] = merges[j]
    BY <1>1 DEF FetchInv
  <2>2. fetches[j] <= merges[j] \/ (fetches[j] = merges[j] + 1 /\ Marked(work, j))
    BY DEF FetchInv
  <2>3. CASE j = i
    <3>1. fetches'[j] = fetches[j] + 1
      BY <1>8, <2>3
    <3>2. fetches[j] <= merges[j] /\ Marked(w, j)
      BY <1>4, <1>6, <2>2, <2>3
    <3>. QED  BY <2>1, <3>1, <3>2
  <2>4. CASE j # i
    <3>1. fetches'[j] = fetches[j] /\ (Marked(work, j) => Marked(w, j))
      BY <1>4, <1>8, <2>4
    <3>. QED  BY <2>1, <2>2, <3>1
  <2>. QED  BY <2>3, <2>4
<1>10. \A j \in Ids : fetches'[j] # 0 => j <= w.last
  BY <1>4, <1>7, <1>8 DEF FetchInv
<1>. QED  BY <1>3, <1>4, <1>5, <1>8, <1>9, <1>10 DEF FetchInv, Marked

LEMMA CommentsAnsweredCounts ==
    ASSUME IInv, FetchInv, NEW i \in Ids, NEW answer, CommentsAnswered(i, answer)
    PROVE  FetchInv'
<1>. DEFINE w == WithState(i, answer)
<1>1. phase = "running" /\ fetches' = fetches /\ merges' = merges
  BY DEF CommentsAnswered
<1>2. CASE UNCHANGED <<disk, work>>
  BY <1>1, <1>2, CrashCounts
<1>3. CASE disk' = w /\ work' = w
  <2>1. /\ StillListed(w, work) /\ w.version = Target
        /\ \A j \in Ids : Marked(work, j) => Marked(w, j)
    <3>1. w = WithState(i, answer)
      OBVIOUS
    <3>. HIDE DEF w
    <3>. QED  BY <1>1, <3>1, MarkSet
  <2>. HIDE DEF w
  <2>. QED  BY <1>1, <1>3, <2>1, StoringCounts
<1>. QED  BY <1>1, <1>2, <1>3, Running DEF CommentsAnswered, Stored, WithState

LEMMA LoadFolderCounts ==
    ASSUME IInv, FetchInv, LoadFolder
    PROVE  FetchInv'
<1>1. phase = "running" /\ fetches' = fetches /\ merges' = merges
  BY DEF LoadFolder, history
<1>2. CASE UNCHANGED <<disk, work>>
  BY <1>1, <1>2, CrashCounts
<1>3. CASE \E ids : Stored(Filled(work, "search_folder_items", ids))
  <2>1. PICK ids : Stored(Filled(work, "search_folder_items", ids))
    BY <1>3
  <2>. DEFINE w == Filled(work, "search_folder_items", ids)
  <2>2. disk' = w /\ work' = w /\ w.version = Target
    <3>1. Fit(w)
      <4>1. articles' = articles
        BY DEF LoadFolder, history
      <4>. QED  BY <1>1, <4>1, FolderFit
    <3>. QED  BY <2>1, <3>1 DEF Stored, Fit
  <2>3. Refill(w, work, "search_folder_items", ids)
    BY <1>1, Running, SameSelf, FilledRefill
  <2>. HIDE DEF w
  <2>4. StillListed(w, work)
    <3>1. "search_folder_items" \notin Holders
      BY DEF Holders
    <3>. QED  BY <2>3, <3>1, RefillKeeps DEF FetchInv
  <2>5. Stays(w, work)
    BY <2>3, RefillStays
  <2>6. \A j \in Ids : Marked(work, j) => Marked(w, j)
    BY <2>5, StaysMarked
  <2>. QED  BY <1>1, <2>2, <2>4, <2>6, StoringCounts
<1>. QED  BY <1>2, <1>3 DEF LoadFolder

\* Other rows of items, and anything in search_folder_items and the metadata.
Rewritten(w, items, folder, m, last) ==
    w = [version |-> work.version, tables |-> work.tables,
         rows |-> [[work.rows EXCEPT !["items"] = items] EXCEPT !["search_folder_items"] = folder],
         triggers |-> work.triggers, nodes |-> work.nodes, metadata |-> m, last |-> last]

AreLists(m) == m = [j \in Ids |-> m[j]] /\ \A j \in Ids : IsList(m[j])

Covers(last, items) == last \in Nat /\ work.last <= last /\ items \subseteq 1..last

LEMMA RowsListed ==
    ASSUME IInv, FetchInv, phase = "running", NEW items, NEW folder, NEW m, NEW last,
           Covers(last, items), AreLists(m), NEW w,
           Rewritten(w, items, folder, m, last)
    PROVE  /\ IdsGiven(w) /\ Listed(w) /\ w.version = Target /\ w.last = last
           /\ w.rows["items"] = items /\ w.metadata = m
<1>. DEFINE r == work.rows
            rows == [[r EXCEPT !["items"] = items] EXCEPT !["search_folder_items"] = folder]
<1>1. /\ w.version = work.version /\ w.last = last /\ w.metadata = m /\ w.rows = rows
  BY DEF Rewritten
<1>2. work.version = Target /\ r = [t \in TableNames |-> r[t]]
  BY Running
<1>3. work.last \in Nat /\ \A t \in Holders : r[t] \subseteq 1..work.last
  BY DEF FetchInv, IdsGiven
<1>. HIDE DEF r
<1>4. rows = [t \in TableNames |-> IF t = "search_folder_items" THEN folder
                                   ELSE IF t = "items" THEN items ELSE r[t]]
  BY <1>2
<1>. HIDE DEF rows
<1>5. "search_folder_items" \notin Holders
  BY DEF Holders
<1>6. \A t \in Holders : rows[t] = IF t = "items" THEN items ELSE r[t]
  BY <1>4, <1>5, HoldersAreTables
<1>7. last \in Nat /\ work.last <= last /\ items \subseteq 1..last
  BY DEF Covers
<1>8. IdsGiven(w)
  <2>1. 1..work.last \subseteq 1..last
    BY <1>3, <1>7
  <2>2. \A t \in Holders : rows[t] \subseteq 1..last
    BY <1>3, <1>6, <1>7, <2>1
  <2>. QED  BY <1>1, <1>7, <2>2 DEF IdsGiven
<1>9. Listed(w)
  BY <1>1 DEF Listed, AreLists
<1>10. rows["items"] = items
  BY <1>6, HoldersAreTables
<1>. QED  BY <1>1, <1>2, <1>8, <1>9, <1>10

LEMMA AddItemCounts ==
    ASSUME IInv, FetchInv, NEW list \in FeedMetadata, AddItem(list)
    PROVE  FetchInv'
<1>. DEFINE i == work.last + 1
            x == Saved(work.metadata[i], list)
            items == work.rows["items"] \union {i}
            rows == [work.rows EXCEPT !["items"] = items]
            folder == rows["search_folder_items"] \union ({i} \intersect Matching)
            m == [work.metadata EXCEPT ![i] = x]
            w == [work EXCEPT !.last = i, !.rows["items"] = @ \union {i},
                              !.rows["search_folder_items"] = @ \union ({i} \intersect Matching),
                              !.metadata[i] = Saved(@, list)]
<1>1. /\ phase = "running" /\ i \in Ids /\ fetches' = fetches /\ merges' = merges
      /\ Stored(w)
  BY DEF AddItem, Step
<1>2. disk' = w /\ work' = w
  BY <1>1 DEF Stored
<1>3. w = [version |-> work.version, tables |-> work.tables,
           rows |-> [rows EXCEPT !["search_folder_items"] = folder],
           triggers |-> work.triggers, nodes |-> work.nodes, metadata |-> m, last |-> i]
  <2>1. w = [work EXCEPT !.last = i, !.rows["items"] = items,
                         !.rows["search_folder_items"] = folder, !.metadata[i] = x]
    BY <1>1, Fields
  <2>. HIDE DEF x, i, items, folder, w
  <2>2. NewItem(work, i, items, folder, i, x)
        = [version |-> work.version, tables |-> work.tables,
           rows |-> [rows EXCEPT !["search_folder_items"] = folder],
           triggers |-> work.triggers, nodes |-> work.nodes,
           metadata |-> [work.metadata EXCEPT ![i] = x], last |-> i]
    BY <1>1, Fields, ItemAdded
  <2>. HIDE DEF rows
  <2>. QED  BY <2>1, <2>2 DEF NewItem
<1>4. /\ m = [j \in Ids |-> m[j]]
      /\ \A j \in Ids : m[j] = IF j = i THEN x ELSE work.metadata[j]
      /\ \A j \in Ids : IsList(m[j])
  <2>1. IsList(x)
    BY <1>1, StoredList, FeedList, SavedList
  <2>2. m = [work.metadata EXCEPT ![i] = x]
    OBVIOUS
  <2>. HIDE DEF m, x, i
  <2>. QED  BY <2>1, <2>2, ListsWith
<1>5. work.last \in Nat /\ i \in Nat /\ work.last <= i
  BY DEF FetchInv, IdsGiven
<1>6. items \subseteq 1..i
  <2>1. work.rows["items"] \subseteq 1..work.last
    BY HoldersAreTables DEF FetchInv, IdsGiven
  <2>. QED  BY <1>5, <2>1
<1>7. /\ IdsGiven(w) /\ Listed(w) /\ w.version = Target /\ w.last = i
      /\ w.rows["items"] = items /\ w.metadata = m
  <2>1. AreLists(m)
    BY <1>4 DEF AreLists
  <2>2. Rewritten(w, items, folder, m, i)
    BY <1>3 DEF Rewritten
  <2>3. Covers(i, items)
    BY <1>5, <1>6 DEF Covers
  <2>. HIDE DEF i, items, folder, m, w
  <2>. QED  BY <1>1, <2>1, <2>2, <2>3, RowsListed
<1>. HIDE DEF w, m
<1>8. ASSUME NEW j \in Ids, fetches[j] # 0
      PROVE  /\ j <= i
             /\ Marked(work, j) => Marked(w, j)
  <2>1. work.last = disk.last /\ j <= work.last
    BY <1>8 DEF FetchInv
  <2>2. j <= i /\ j # i
    <3>1. j \in Nat
      <4>1. Ids = 1..Cardinality(Ids)
        BY DatabaseAssumption
      <4>. DEFINE n == Cardinality(Ids)
      <4>. HIDE DEF n
      <4>2. j \in 1..n
        BY <4>1 DEF n
      <4>. QED  BY <4>2
    <3>. QED  BY <1>5, <2>1, <3>1
  <2>3. m[j] = work.metadata[j] /\ (j \in items => j \in work.rows["items"])
    BY <1>4, <2>2
  <2>. HIDE DEF i
  <2>. QED  BY <1>7, <2>2, <2>3 DEF Marked
<1>. HIDE DEF i
<1>9. \A j \in Ids : fetches[j] # 0 => j <= w.last
  BY <1>7, <1>8
<1>10. ASSUME NEW j \in Ids
       PROVE  \/ fetches[j] <= merges[j]
              \/ fetches[j] = merges[j] + 1 /\ Marked(w, j)
  <2>1. fetches[j] \in Nat /\ merges[j] \in Nat
    BY DEF FetchInv
  <2>2. fetches[j] <= merges[j] \/ (fetches[j] = merges[j] + 1 /\ Marked(work, j))
    BY DEF FetchInv
  <2>3. fetches[j] # 0 => (Marked(work, j) => Marked(w, j))
    BY <1>8
  <2>4. fetches[j] = merges[j] + 1 => fetches[j] # 0
    BY <2>1
  <2>. QED  BY <2>2, <2>3, <2>4
<1>11. fetches \in [Ids -> Nat] /\ merges \in [Ids -> Nat]
  BY DEF FetchInv
<1>. QED  BY <1>1, <1>2, <1>7, <1>9, <1>10, <1>11 DEF FetchInv, Marked

LEMMA RemoveItemCounts ==
    ASSUME IInv, FetchInv, NEW i \in Ids, RemoveItem(i)
    PROVE  FetchInv'
<1>. DEFINE items == work.rows["items"] \ {i}
<1>1. /\ phase = "running" /\ fetches' = fetches /\ merges' = merges
  BY DEF RemoveItem, Step
<1>2. work.last \in Nat /\ items \subseteq 1..work.last
  BY HoldersAreTables DEF FetchInv, IdsGiven
<1>3. ASSUME NEW w, disk' = w, work' = w, w.version = Target, StillListed(w, work),
             w.rows["items"] = items,
             \A j \in Ids : j # i => w.metadata[j] = work.metadata[j]
      PROVE  FetchInv'
  <2>1. \A j \in Ids : Marked(work, j) => Marked(w, j)
    BY <1>3 DEF Marked
  <2>. HIDE DEF items
  <2>. QED  BY <1>1, <1>3, <2>1, StoringCounts
<1>4. CASE "item_removal" \in work.triggers
  <2>. DEFINE rows == [work.rows EXCEPT !["items"] = items]
              folder == rows["search_folder_items"] \ {i}
              x == <<>>
              m == [work.metadata EXCEPT ![i] = x]
              last == work.last
              w == [work EXCEPT !.rows["items"] = @ \ {i}, !.rows["search_folder_items"] = @ \ {i},
                                !.metadata[i] = <<>>]
  <2>1. disk' = w /\ work' = w
    BY <1>4 DEF RemoveItem, Stored
  <2>2. w = [version |-> work.version, tables |-> work.tables,
             rows |-> [rows EXCEPT !["search_folder_items"] = folder],
             triggers |-> work.triggers, nodes |-> work.nodes, metadata |-> m, last |-> last]
    <3>1. w = [work EXCEPT !.rows["items"] = items, !.rows["search_folder_items"] = folder,
                           !.metadata[i] = x]
      BY <1>1, Fields
    <3>. HIDE DEF x, items, folder, w
    <3>2. ItemAndFolder(work, items, folder, i, x)
          = [version |-> work.version, tables |-> work.tables,
             rows |-> [rows EXCEPT !["search_folder_items"] = folder],
             triggers |-> work.triggers, nodes |-> work.nodes,
             metadata |-> [work.metadata EXCEPT ![i] = x], last |-> work.last]
      BY <1>1, Fields, RowsChanged
    <3>. HIDE DEF rows
    <3>. QED  BY <3>1, <3>2 DEF ItemAndFolder
  <2>3. /\ m = [j \in Ids |-> m[j]]
        /\ \A j \in Ids : m[j] = IF j = i THEN x ELSE work.metadata[j]
        /\ \A j \in Ids : IsList(m[j])
    <3>1. IsList(x)
      <4>1. <<>> \in Seq({})
        OBVIOUS
      <4>. QED  BY <4>1 DEF IsList
    <3>2. m = [work.metadata EXCEPT ![i] = x]
      OBVIOUS
    <3>. HIDE DEF m, x
    <3>. QED  BY <3>1, <3>2, ListsWith
  <2>4. last \in Nat /\ work.last <= last /\ items \subseteq 1..last
    BY <1>2
  <2>5. /\ IdsGiven(w) /\ Listed(w) /\ w.version = Target /\ w.last = last
        /\ w.rows["items"] = items /\ w.metadata = m
    <3>1. AreLists(m)
      BY <2>3 DEF AreLists
    <3>2. Rewritten(w, items, folder, m, last)
      BY <2>2 DEF Rewritten
    <3>3. Covers(last, items)
      BY <2>4 DEF Covers
    <3>. HIDE DEF items, folder, m, w, last
    <3>. QED  BY <1>1, <3>1, <3>2, <3>3, RowsListed
  <2>. HIDE DEF w, m, items, x
  <2>6. StillListed(w, work)
    BY <2>5 DEF StillListed
  <2>7. \A j \in Ids : j # i => w.metadata[j] = work.metadata[j]
    BY <2>3, <2>5
  <2>. QED  BY <1>3, <2>1, <2>5, <2>6, <2>7
<1>5. CASE "item_removal" \notin work.triggers
  <2>. DEFINE w == Filled(work, "items", items)
  <2>1. disk' = w /\ work' = w
    BY <1>5 DEF RemoveItem, Stored, Filled
  <2>2. w.version = Target
    <3>1. Refilled(w, work, "items", items)
      BY <1>1, HoldersAreTables, Running, Fill
    <3>. HIDE DEF w
    <3>. QED  BY <1>1, <3>1, Running DEF Refilled, Kin
  <2>3. Refill(w, work, "items", items)
    <3>. HIDE DEF items
    <3>. QED  BY <1>1, Running, SameSelf, FilledRefill
  <2>. HIDE DEF w, items
  <2>4. StillListed(w, work)
    BY <1>2, <2>3, RefillKeeps DEF FetchInv
  <2>5. w.rows["items"] = items /\ w.metadata = work.metadata
    BY <2>3, HoldersAreTables DEF Refill
  <2>. QED  BY <1>3, <2>1, <2>2, <2>4, <2>5
<1>. QED  BY <1>4, <1>5

LEMMA RemoveFeedCounts ==
    ASSUME IInv, FetchInv, NEW n, RemoveFeed(n)
    PROVE  FetchInv'
<1>1. phase = "running" /\ fetches' = fetches /\ merges' = merges
  BY DEF RemoveFeed, Step
<1>2. CASE "subscription_removal" \in work.triggers
  <2>. DEFINE w == [work EXCEPT !.nodes = @ \ {n},
                                !.rows["search_folder_items"] = {i \in @ : NodeOf[i] # n}]
              nodes == work.nodes \ {n}
              x == {i \in work.rows["search_folder_items"] : NodeOf[i] # n}
              e == [version |-> work.version, tables |-> work.tables, rows |-> work.rows,
                    triggers |-> work.triggers, nodes |-> nodes, metadata |-> work.metadata,
                    last |-> work.last]
  <2>1. disk' = w /\ work' = w
    BY <1>2 DEF RemoveFeed, Stored
  <2>2. w = [version |-> work.version, tables |-> work.tables,
             rows |-> [work.rows EXCEPT !["search_folder_items"] = x],
             triggers |-> work.triggers, nodes |-> nodes, metadata |-> work.metadata,
             last |-> work.last]
    <3>1. w = [work EXCEPT !.nodes = nodes, !.rows["search_folder_items"] = x]
      BY <1>1, Fields
    <3>. HIDE DEF x, nodes, w
    <3>2. NodesAndFolder(work, nodes, x)
          = [version |-> work.version, tables |-> work.tables,
             rows |-> [work.rows EXCEPT !["search_folder_items"] = x],
             triggers |-> work.triggers, nodes |-> nodes, metadata |-> work.metadata,
             last |-> work.last]
      BY <1>1, Fields, NodesChanged
    <3>. QED  BY <3>1, <3>2 DEF NodesAndFolder
  <2>. HIDE DEF w, x, nodes
  <2>3. WellFormed(e) /\ SameItems(e, work) /\ e.version = Target
    <3>1. work.version \in EveryVersion /\ WellFormed(work) /\ work.version = Target
      BY <1>1, Running
    <3>2. e.last = work.last /\ e.metadata = work.metadata
      OBVIOUS
    <3>3. e = [version |-> work.version, tables |-> work.tables, rows |-> work.rows,
               triggers |-> work.triggers, nodes |-> nodes, metadata |-> work.metadata,
               last |-> work.last]
      OBVIOUS
    <3>. HIDE DEF e
    <3>4. WellFormed(e) /\ e.version = work.version /\ e.rows = work.rows
      BY <3>1, <3>3, Changed
    <3>. QED  BY <3>1, <3>2, <3>4 DEF SameItems
  <2>4. w = Filled(e, "search_folder_items", x) /\ w.version = Target
    <3>1. w.version = work.version
      BY <2>2
    <3>2. w = [e EXCEPT !.rows["search_folder_items"] = x]
      BY <2>2
    <3>. QED  BY <1>1, <3>1, <3>2, Running DEF Filled
  <2>. HIDE DEF e
  <2>5. Refill(w, work, "search_folder_items", x)
    BY <1>1, <2>3, <2>4, Running, FilledRefill
  <2>6. StillListed(w, work)
    <3>1. "search_folder_items" \notin Holders
      BY DEF Holders
    <3>. QED  BY <2>5, <3>1, RefillKeeps DEF FetchInv
  <2>7. \A j \in Ids : Marked(work, j) => Marked(w, j)
    BY <2>5, RefillStays, StaysMarked
  <2>. QED  BY <1>1, <2>1, <2>4, <2>6, <2>7, StoringCounts
<1>3. CASE "subscription_removal" \notin work.triggers
  <2>1. disk' = work /\ work' = work
    BY <1>3 DEF RemoveFeed, Stored
  <2>2. disk' = disk
    BY <1>1, <2>1, Running
  <2>. QED  BY <1>1, <2>1, <2>2, CrashCounts
<1>. QED  BY <1>2, <1>3

LEMMA StartedCounts ==
    ASSUME IInv, FetchInv, Started
    PROVE  FetchInv'
<1>. DEFINE listed == [work EXCEPT !.nodes = @ \union InitialNodes]
            emptied == Filled(listed, "search_folder_items", {})
            nodes == work.nodes \union InitialNodes
<1>1. /\ phase = "starting" /\ execs = <<>> /\ todo = <<>> /\ ~open
      /\ fetches' = fetches /\ merges' = merges
  BY DEF Started, history
<1>2. (disk' = listed /\ work' = listed) \/ (disk' = emptied /\ work' = emptied)
  BY DEF Started, Stored
<1>3. /\ work.version = Target /\ WellFormed(work) /\ work.version \in EveryVersion
  BY <1>1, Started0 DEF IInv, WellFormed
<1>4. listed = [version |-> work.version, tables |-> work.tables, rows |-> work.rows,
                triggers |-> work.triggers, nodes |-> nodes, metadata |-> work.metadata,
                last |-> work.last]
  <2>1. work = [version |-> work.version, tables |-> work.tables, rows |-> work.rows,
                triggers |-> work.triggers, nodes |-> work.nodes, metadata |-> work.metadata,
                last |-> work.last]
    BY <1>3 DEF WellFormed
  <2>. QED  BY <2>1
<1>. HIDE DEF listed, nodes
<1>5. WellFormed(listed) /\ SameItems(listed, work) /\ listed.version = Target
  <2>1. listed.last = work.last /\ listed.metadata = work.metadata
    BY <1>4
  <2>2. WellFormed(listed) /\ listed.version = work.version /\ listed.rows = work.rows
    BY <1>3, <1>4, Changed
  <2>. QED  BY <1>3, <2>1, <2>2 DEF SameItems
<1>6. /\ StillListed(listed, work)
      /\ \A j \in Ids : Marked(work, j) => Marked(listed, j)
  BY <1>5 DEF FetchInv, SameItems, StillListed, IdsGiven, Listed, Marked
<1>7. /\ StillListed(emptied, work) /\ emptied.version = Target
      /\ \A j \in Ids : Marked(work, j) => Marked(emptied, j)
  <2>1. Refill(emptied, work, "search_folder_items", {})
    BY <1>3, <1>5, FilledRefill
  <2>2. emptied.version = Target
    <3>1. "search_folder_items" \in TableNames
      BY DEF TableNames
    <3>2. Refilled(emptied, listed, "search_folder_items", {})
      BY <1>5, <3>1, Fill
    <3>. HIDE DEF emptied
    <3>. QED  BY <1>5, <3>2 DEF Refilled, Kin
  <2>. HIDE DEF emptied
  <2>3. StillListed(emptied, work)
    <3>1. "search_folder_items" \notin Holders
      BY DEF Holders
    <3>. QED  BY <2>1, <3>1, RefillKeeps DEF FetchInv
  <2>. QED  BY <2>1, <2>2, <2>3, RefillStays, StaysMarked
<1>. HIDE DEF emptied
<1>. QED  BY <1>1, <1>2, <1>5, <1>6, <1>7, StoringCounts

LEMMA OldListed ==
    ASSUME NEW v, NEW n \in Nat, InitialItems \subseteq 1..n
    PROVE  IdsGiven(OldDatabase(v, n)) /\ Listed(OldDatabase(v, n))
<1>. DEFINE d == OldDatabase(v, n)
            tables == CASE v = 0 -> {}
                        [] v \in 1..7 -> {"info", "items", "itemsets", "attention_stats",
                                          "view_state", "update_state", "views"}
                        [] v = 8 -> {"info", "items", "view_state", "update_state", "views"}
                        [] v \in 9..12 -> {"info", "items", "search_folder_items",
                                           "update_state"}
            holds(t) == IF t \notin tables THEN {}
                        ELSE CASE t \in {"items", "itemsets"} -> InitialItems
                               [] t \in {"views", "search_folder_items"} ->
                                    InitialItems \intersect Matching
                               [] OTHER -> {}
            metadata == [i \in Ids |-> <<>>]
            last == IF v = 0 THEN 0 ELSE n
<1>1. /\ d.rows = [t \in TableNames |-> holds(t)]
      /\ d.metadata = metadata /\ d.last = last
  BY DEF OldDatabase
<1>. HIDE DEF d
<1>2. \A t \in {"items", "itemsets", "backup", "items_new"} :
         holds(t) \in {{}, InitialItems} /\ (v = 0 => holds(t) = {})
  OBVIOUS
<1>. HIDE DEF holds
<1>3. last \in Nat /\ \A t \in Holders : holds(t) \subseteq 1..last
  BY <1>2 DEF Holders
<1>4. \A t \in Holders : d.rows[t] = holds(t)
  BY <1>1, HoldersAreTables
<1>5. IdsGiven(d)
  BY <1>1, <1>3, <1>4 DEF IdsGiven
<1>6. Listed(d)
  <2>1. IsList(<<>>)
    <3>1. <<>> \in Seq({})
      OBVIOUS
    <3>. QED  BY <3>1 DEF IsList
  <2>. QED  BY <1>1, <2>1 DEF Listed
<1>. QED  BY <1>5, <1>6 DEF d

LEMMA InitCounts ==
    ASSUME Init
    PROVE  FetchInv
<1>1. PICK v \in InitialVersions, n \in 0..Cardinality(Ids) :
         InitialItems \subseteq 1..n /\ disk = OldDatabase(v, n)
  BY DEF Init
<1>2. /\ work = disk /\ fetches = [i \in Ids |-> 0] /\ merges = [i \in Ids |-> 0]
  BY DEF Init
<1>3. n \in Nat
  <2>. DEFINE c == Cardinality(Ids)
  <2>1. n \in 0..c
    OBVIOUS
  <2>. HIDE DEF c
  <2>. QED  BY <2>1
<1>4. IdsGiven(disk) /\ Listed(disk)
  BY <1>1, <1>3, OldListed
<1>. QED  BY <1>2, <1>4 DEF FetchInv

LEMMA FetchInvariant == Spec => []FetchInv
<1>1. Init => FetchInv
  BY InitCounts
<1>2. IInv /\ FetchInv /\ [Next]_vars => FetchInv'
  <2>. SUFFICES ASSUME IInv, FetchInv, [Next]_vars PROVE FetchInv'
    OBVIOUS
  <2>1. CASE Start \/ EnterBlock \/ Check \/ Crash \/ UNCHANGED vars
    <3>1. disk' = disk /\ work' \in {work, disk} /\ fetches' = fetches /\ merges' = merges
      BY <2>1 DEF Start, EnterBlock, Check, Crash, vars, history
    <3>. QED  BY <3>1, CrashCounts
  <2>2. CASE Execute
    BY <2>2, ExecuteCounts
  <2>3. CASE Started
    BY <2>3, StartedCounts
  <2>4. CASE LoadFolder
    BY <2>4, LoadFolderCounts
  <2>5. CASE \E list \in FeedMetadata : AddItem(list)
    BY <2>5, AddItemCounts
  <2>6. CASE \E list \in FeedMetadata : \E i \in Ids : MergeItem(i, list)
    BY <2>6, MergeItemCounts
  <2>7. CASE \E i \in Ids : RemoveItem(i)
    BY <2>7, RemoveItemCounts
  <2>8. CASE \E i \in Ids : ViewItem(i)
    BY <2>8, ViewItemCounts
  <2>9. CASE \E i \in Ids : \E a \in Answers : CommentsAnswered(i, a)
    BY <2>9, CommentsAnsweredCounts
  <2>10. CASE \E n \in InitialNodes : RemoveFeed(n)
    BY <2>10, RemoveFeedCounts
  <2>. QED
    BY <2>1, <2>2, <2>3, <2>4, <2>5, <2>6, <2>7, <2>8, <2>9, <2>10 DEF Next
<1>. QED  BY <1>1, <1>2, Invariant, PTL DEF Spec

\* The comments of an item are fetched once, over restarts too, unless its feed has sent
\* new metadata since: the mark is on disk before the fetch starts and stays as long as
\* the item is there, and no other item ever gets its id.
THEOREM CommentsOnce == Spec => []CommentsFetchedOnce
<1>1. FetchInv => CommentsFetchedOnce
  BY DEF FetchInv, CommentsFetchedOnce
<1>. QED  BY <1>1, FetchInvariant, PTL

=============================================================================
