---------------------------- MODULE ItemViewProofs ----------------------------
(***************************************************************************)
(* What is proved about the item list and the search folder (ItemView):    *)
(* the rows of a displayed feed and the table of a rebuilt search folder.  *)
(*                                                                         *)
(* A handler is an operator on the whole state, so the invariant is a      *)
(* predicate Sound on states and there is a lemma per operator: it keeps   *)
(* the state sound.  In the middle of a handler the list may differ from   *)
(* the stored items by those the handler is about; Sound has them as       *)
(* parameters, and they are empty between handlers.                        *)
(***************************************************************************)
EXTENDS ItemView, FiniteSetTheorems, WellFoundedInduction, TLAPS

Fields ==
    {"live", "read", "folder", "found", "next", "node", "shown", "filter", "selected",
     "deferred", "outdated", "guids", "cut", "loading", "rows", "reversed", "sortReversed",
     "cursor", "history", "current", "lastId", "hideRead", "displayChildren", "reloading",
     "offset", "idle", "disturbed", "crashed"}

IsState(s) == DOMAIN s = Fields /\ s = [f \in Fields |-> s[f]]

\* Ids count up, and no two items have the same guid.
Stored(s) ==
    /\ s.live \subseteq Nat /\ s.next \in Nat /\ s.offset \in Nat
    /\ \A i \in s.live : i < s.next
    /\ \A i, j \in s.live : Guid[i] = Guid[j] => i = j

\* The rows of a displayed feed are its items but for those of missing; the
\* guids are those of the rows but for those of parting, which are not shown
\* any more.
Listed(s, missing, parting) ==
    s.shown = Feed =>
        /\ s.filter = FALSE
        /\ s.rows \subseteq s.live
        /\ s.rows \intersect missing = {} /\ s.rows \intersect parting = {}
        /\ \A i \in s.live : i \in s.rows \/ i \in missing \/ Guid[i] \in s.cut
        /\ \A u \in s.guids : \/ \E i \in s.rows : Guid[i] = u
                              \/ \E i \in parting : Guid[i] = u
                              \/ u \in s.cut

\* What the loader has passed: the items before its offset, in the end all.
Rank(live, i) == Cardinality({j \in live : j < i})
Passed(s, i) == s.reloading => Rank(s.live, i) < s.offset

\* The table has matching items only, and each that the loader has passed.
Exact(s) ==
    ~s.disturbed =>
        /\ \A i \in s.found : i \in s.live /\ Matches(s, i)
        /\ \A i \in s.live : Matches(s, i) /\ Passed(s, i) => i \in s.found

\* The table is exact unless the rules have just changed.
Sound(s, missing, parting, exact) ==
    /\ IsState(s)
    /\ s.crashed \/ (Stored(s) /\ Listed(s, missing, parting) /\ (exact => Exact(s)))

IInv == Sound(st, {}, {}, TRUE)

-----------------------------------------------------------------------------
(* Which part of a state the invariant is about.                           *)

Kept(s, t) ==
    /\ IsState(t)
    /\ t.live = s.live /\ t.read = s.read /\ t.folder = s.folder /\ t.found = s.found
    /\ t.next = s.next /\ t.shown = s.shown /\ t.filter = s.filter
    /\ t.guids = s.guids /\ t.cut = s.cut /\ t.rows = s.rows
    /\ t.reloading = s.reloading /\ t.offset = s.offset /\ t.disturbed = s.disturbed
    /\ t.crashed = s.crashed

LEMMA MatchesSame ==
    ASSUME NEW s, NEW t, NEW i, t.folder = s.folder, (i \in t.read) <=> (i \in s.read)
    PROVE Matches(t, i) <=> Matches(s, i)
  <1>1. (i \in t.read) = (i \in s.read)
    OBVIOUS
  <1> QED
    BY <1>1 DEF Matches

LEMMA KeptStored ==
    ASSUME NEW s, NEW t, Kept(s, t), Stored(s)
    PROVE Stored(t)
  BY DEF Kept, Stored

LEMMA KeptListed ==
    ASSUME NEW s, NEW t, Kept(s, t), NEW missing, NEW parting, Listed(s, missing, parting)
    PROVE Listed(t, missing, parting)
  BY DEF Kept, Listed

LEMMA KeptExact ==
    ASSUME NEW s, NEW t, Kept(s, t), Exact(s)
    PROVE Exact(t)
  <1>1. /\ t.live = s.live /\ t.read = s.read /\ t.folder = s.folder /\ t.found = s.found
        /\ t.reloading = s.reloading /\ t.offset = s.offset /\ t.disturbed = s.disturbed
    BY DEF Kept
  <1>2. \A i : Matches(t, i) <=> Matches(s, i)
    BY <1>1, MatchesSame
  <1>3. \A i : Passed(t, i) <=> Passed(s, i)
    BY <1>1 DEF Passed
  <1> QED
    BY <1>1, <1>2, <1>3 DEF Exact

LEMMA KeptSound ==
    ASSUME NEW s, NEW t, Kept(s, t), NEW missing, NEW parting, NEW exact,
           Sound(s, missing, parting, exact)
    PROVE Sound(t, missing, parting, exact)
  <1>1. IsState(t) /\ t.crashed = s.crashed
    BY DEF Kept
  <1>2. s.crashed \/ (Stored(s) /\ Listed(s, missing, parting) /\ (exact => Exact(s)))
    BY DEF Sound
  <1> QED
    BY <1>1, <1>2, KeptStored, KeptListed, KeptExact DEF Sound

LEMMA KeptTwice ==
    ASSUME NEW s, NEW t, NEW u, Kept(s, t), Kept(t, u)
    PROVE Kept(s, u)
  BY DEF Kept

LEMMA KeptItself ==
    ASSUME NEW s, IsState(s)
    PROVE Kept(s, s)
  BY DEF Kept

-----------------------------------------------------------------------------
(* The parts of the handlers.                                              *)

LEMMA SelectionKept ==
    ASSUME NEW s, IsState(s), NEW i
    PROVE /\ Kept(s, [s EXCEPT !.selected = i])
          /\ Kept(s, [s EXCEPT !.cursor = i])
          /\ Kept(s, [s EXCEPT !.deferred = FALSE])
          /\ Kept(s, [s EXCEPT !.current = i])
  BY DEF IsState, Fields, Kept

LEMMA ViewSelectKept ==
    ASSUME NEW s, IsState(s), NEW i
    PROVE Kept(s, ViewSelect(s, i))
  BY SelectionKept, KeptItself DEF ViewSelect, SelectId

LEMMA HistoryAddKept ==
    ASSUME NEW s, IsState(s), NEW i
    PROVE Kept(s, HistoryAdd(s, i))
  <1>1. Kept(s, [s EXCEPT !.history = Append(@, i), !.current = Len(s.history) + 1,
                          !.lastId = i])
    BY DEF IsState, Fields, Kept
  <1> QED
    BY <1>1, KeptItself DEF HistoryAdd

LEMMA HistoryStepKept ==
    ASSUME NEW s, IsState(s), NEW back
    PROVE Kept(s, HistoryStep(s, back))
  BY SelectionKept, KeptItself DEF HistoryStep

\* An item changes its flag, and its row of the table with it.
Reread(s, i) == IF i \in s.read THEN s.read \ {i} ELSE s.read \union {i}
Marked(s, i) == [s EXCEPT !.read = Reread(s, i)]

LEMMA MarkedFields ==
    ASSUME NEW s, IsState(s), NEW i
    PROVE LET t == Marked(s, i)
          IN  /\ IsState(t) /\ t.read = Reread(s, i)
              /\ t.live = s.live /\ t.folder = s.folder /\ t.found = s.found
              /\ t.next = s.next /\ t.shown = s.shown /\ t.filter = s.filter
              /\ t.guids = s.guids /\ t.cut = s.cut /\ t.rows = s.rows
              /\ t.reloading = s.reloading /\ t.offset = s.offset
              /\ t.disturbed = s.disturbed /\ t.crashed = s.crashed
  BY DEF IsState, Fields, Marked

LEMMA FolderRowsFields ==
    ASSUME NEW s, IsState(s), NEW items
    PROVE LET t == FolderRows(s, items)
          IN  /\ IsState(t)
              /\ t.found = (s.found \ items)
                             \union {i \in items : Exists(s, i) /\ Matches(s, i)}
              /\ t.live = s.live /\ t.read = s.read /\ t.folder = s.folder
              /\ t.next = s.next /\ t.shown = s.shown /\ t.filter = s.filter
              /\ t.guids = s.guids /\ t.cut = s.cut /\ t.rows = s.rows
              /\ t.reloading = s.reloading /\ t.offset = s.offset
              /\ t.disturbed = s.disturbed /\ t.crashed = s.crashed
  BY DEF IsState, Fields, FolderRows

LEMMA StateChangedSound ==
    ASSUME NEW s, NEW missing, NEW parting, NEW exact, Sound(s, missing, parting, exact), NEW i
    PROVE Sound(StateChanged(s, i), missing, parting, exact)
  <1> DEFINE t == Marked(s, i)
             u == FolderRows(t, {i})
  <1>1. StateChanged(s, i) = u
    BY DEF StateChanged, Marked, Reread
  <1>2. /\ IsState(s)
        /\ s.crashed \/ (Stored(s) /\ Listed(s, missing, parting) /\ (exact => Exact(s)))
    BY DEF Sound
  <1> HIDE DEF t
  <1>3. /\ IsState(t) /\ t.read = Reread(s, i)
        /\ t.live = s.live /\ t.folder = s.folder /\ t.found = s.found
        /\ t.next = s.next /\ t.shown = s.shown /\ t.filter = s.filter
        /\ t.guids = s.guids /\ t.cut = s.cut /\ t.rows = s.rows
        /\ t.reloading = s.reloading /\ t.offset = s.offset
        /\ t.disturbed = s.disturbed /\ t.crashed = s.crashed
    BY <1>2, MarkedFields DEF t
  <1> HIDE DEF u
  <1>4. /\ IsState(u)
        /\ u.found = (t.found \ {i}) \union {j \in {i} : Exists(t, j) /\ Matches(t, j)}
        /\ u.live = t.live /\ u.read = t.read /\ u.folder = t.folder
        /\ u.next = t.next /\ u.shown = t.shown /\ u.filter = t.filter
        /\ u.guids = t.guids /\ u.cut = t.cut /\ u.rows = t.rows
        /\ u.reloading = t.reloading /\ u.offset = t.offset
        /\ u.disturbed = t.disturbed /\ u.crashed = t.crashed
    BY <1>3, FolderRowsFields DEF u
  <1>5. ASSUME Stored(s) PROVE Stored(u)
    BY <1>3, <1>4, <1>5 DEF Stored
  <1>6. ASSUME Listed(s, missing, parting) PROVE Listed(u, missing, parting)
    BY <1>3, <1>4, <1>6 DEF Listed
  <1>7. ASSUME Exact(s) PROVE Exact(u)
    <2>1. \A j : j # i => (Matches(u, j) <=> Matches(s, j))
      BY <1>3, <1>4, MatchesSame DEF Reread
    <2>2. Matches(u, i) <=> Matches(t, i)
      BY <1>4, MatchesSame
    <2>3. \A j : Passed(u, j) <=> Passed(s, j)
      BY <1>3, <1>4 DEF Passed
    <2>4. u.live = s.live /\ u.disturbed = s.disturbed
      BY <1>3, <1>4
    <2>5. \A j : j \in u.found <=> IF j = i THEN i \in s.live /\ Matches(u, i) ELSE j \in s.found
      BY <1>3, <1>4, <2>2 DEF Exists
    <2> QED
      BY <1>7, <2>1, <2>3, <2>4, <2>5 DEF Exact
  <1> QED
    BY <1>1, <1>2, <1>3, <1>4, <1>5, <1>6, <1>7 DEF Sound

LEMMA SetSelectedSound ==
    ASSUME NEW s, NEW missing, NEW parting, NEW exact, Sound(s, missing, parting, exact), NEW i
    PROVE Sound(SetSelected(s, i), missing, parting, exact)
  <1> DEFINE chosen == [s EXCEPT !.selected = i]
             seen == IF i # NoItem /\ i \notin s.read THEN StateChanged(chosen, i) ELSE chosen
             viewed == ViewSelect(seen, i)
  <1>1. SetSelected(s, i) = HistoryAdd(viewed, i)
    BY DEF SetSelected
  <1>2. IsState(s)
    BY DEF Sound
  <1>3. Sound(chosen, missing, parting, exact)
    BY <1>2, SelectionKept, KeptSound
  <1>4. Sound(seen, missing, parting, exact)
    BY <1>3, StateChangedSound
  <1> HIDE DEF chosen, seen
  <1>5. Sound(viewed, missing, parting, exact)
    <2>1. IsState(seen)
      BY <1>4 DEF Sound
    <2> QED
      BY <1>4, <2>1, ViewSelectKept, KeptSound
  <1> HIDE DEF viewed
  <1>6. IsState(viewed)
    BY <1>5 DEF Sound
  <1> QED
    BY <1>1, <1>5, <1>6, HistoryAddKept, KeptSound

LEMMA SelectSound ==
    ASSUME NEW s, NEW missing, NEW parting, NEW exact, Sound(s, missing, parting, exact), NEW i
    PROVE Sound(Select(s, i), missing, parting, exact)
  BY SetSelectedSound DEF Select

-----------------------------------------------------------------------------
(* Items and rows that go.                                                 *)

LEMMA DropRowFields ==
    ASSUME NEW s, IsState(s), NEW i
    PROVE LET t == DropRow(s, i)
          IN  /\ IsState(t) /\ t.rows = s.rows \ {i}
              /\ t.live = s.live /\ t.read = s.read /\ t.folder = s.folder /\ t.found = s.found
              /\ t.next = s.next /\ t.shown = s.shown /\ t.filter = s.filter
              /\ t.guids = s.guids /\ t.cut = s.cut
              /\ t.reloading = s.reloading /\ t.offset = s.offset
              /\ t.disturbed = s.disturbed /\ t.crashed = s.crashed
  BY DEF IsState, Fields, DropRow

LEMMA ItemsGoneFields ==
    ASSUME NEW s, IsState(s), NEW gone
    PROVE LET t == ItemsGone(s, gone)
          IN  /\ IsState(t)
              /\ t.live = s.live \ gone /\ t.found = s.found \ gone
              /\ ~t.disturbed => ~s.disturbed /\ (s.reloading => gone \intersect s.live = {})
              /\ t.read = s.read /\ t.folder = s.folder
              /\ t.next = s.next /\ t.shown = s.shown /\ t.filter = s.filter
              /\ t.guids = s.guids /\ t.cut = s.cut /\ t.rows = s.rows
              /\ t.reloading = s.reloading /\ t.offset = s.offset
              /\ t.crashed = s.crashed
  BY DEF IsState, Fields, ItemsGone

LEMMA ForgottenFields ==
    ASSUME NEW s, IsState(s), NEW u
    PROVE LET t == [s EXCEPT !.guids = @ \ {u}]
          IN  /\ IsState(t) /\ t.guids = s.guids \ {u}
              /\ t.live = s.live /\ t.read = s.read /\ t.folder = s.folder /\ t.found = s.found
              /\ t.next = s.next /\ t.shown = s.shown /\ t.filter = s.filter
              /\ t.cut = s.cut /\ t.rows = s.rows
              /\ t.reloading = s.reloading /\ t.offset = s.offset
              /\ t.disturbed = s.disturbed /\ t.crashed = s.crashed
  BY DEF IsState, Fields

LEMMA GoneExact ==
    ASSUME NEW s, NEW t, NEW gone, Exact(s),
           t.live = s.live \ gone, t.found = s.found \ gone,
           ~t.disturbed => ~s.disturbed /\ (s.reloading => gone \intersect s.live = {}),
           t.read = s.read, t.folder = s.folder,
           t.reloading = s.reloading, t.offset = s.offset
    PROVE Exact(t)
  <1>1. \A i : Matches(t, i) <=> Matches(s, i)
    BY MatchesSame
  <1>2. SUFFICES ASSUME ~t.disturbed PROVE Exact(t)
    BY DEF Exact
  <1>3. /\ ~s.disturbed /\ (s.reloading => gone \intersect s.live = {})
        /\ \A i \in s.found : i \in s.live /\ Matches(s, i)
        /\ \A i \in s.live : Matches(s, i) /\ Passed(s, i) => i \in s.found
    BY <1>2 DEF Exact
  <1>4. ASSUME NEW i, Passed(t, i) PROVE Passed(s, i)
    <2>1. CASE s.reloading
      <3>1. t.live = s.live
        BY <1>3, <2>1
      <3> QED
        BY <1>4, <3>1 DEF Passed
    <2>2. CASE ~s.reloading
      BY <2>2 DEF Passed
    <2> QED
      BY <2>1, <2>2
  <1> QED
    BY <1>1, <1>3, <1>4 DEF Exact

LEMMA GoneStored ==
    ASSUME NEW s, NEW t, NEW gone, Stored(s),
           t.live = s.live \ gone, t.next = s.next, t.offset = s.offset
    PROVE Stored(t)
  BY DEF Stored

\* A row may go if the list hides items, or if its item is about to go.
LEMMA DropHiddenSound ==
    ASSUME NEW s, NEW missing, NEW parting, NEW exact, Sound(s, missing, parting, exact), NEW i,
           s.crashed \/ s.shown # Feed
    PROVE Sound(DropRow(s, i), missing, parting, exact)
  <1> DEFINE t == DropRow(s, i)
  <1>1. /\ IsState(s)
        /\ s.crashed \/ (Stored(s) /\ Listed(s, missing, parting) /\ (exact => Exact(s)))
    BY DEF Sound
  <1> HIDE DEF t
  <1>2. /\ IsState(t) /\ t.rows = s.rows \ {i}
        /\ t.live = s.live /\ t.read = s.read /\ t.folder = s.folder /\ t.found = s.found
        /\ t.next = s.next /\ t.shown = s.shown /\ t.filter = s.filter
        /\ t.guids = s.guids /\ t.cut = s.cut
        /\ t.reloading = s.reloading /\ t.offset = s.offset
        /\ t.disturbed = s.disturbed /\ t.crashed = s.crashed
    BY <1>1, DropRowFields DEF t
  <1>3. ASSUME Stored(s) PROVE Stored(t)
    BY <1>2, <1>3 DEF Stored
  <1>4. ASSUME Exact(s) PROVE Exact(t)
    BY <1>2, <1>4, MatchesSame DEF Exact, Passed
  <1> QED
    BY <1>1, <1>2, <1>3, <1>4 DEF Sound, Listed, t

LEMMA DropPartingSound ==
    ASSUME NEW s, NEW missing, NEW parting, NEW exact, Sound(s, missing, parting, exact), NEW i
    PROVE Sound(DropRow(s, i), missing \union {i}, parting \union {i}, exact)
  <1> DEFINE t == DropRow(s, i)
  <1>1. /\ IsState(s)
        /\ s.crashed \/ (Stored(s) /\ Listed(s, missing, parting) /\ (exact => Exact(s)))
    BY DEF Sound
  <1> HIDE DEF t
  <1>2. /\ IsState(t) /\ t.rows = s.rows \ {i}
        /\ t.live = s.live /\ t.read = s.read /\ t.folder = s.folder /\ t.found = s.found
        /\ t.next = s.next /\ t.shown = s.shown /\ t.filter = s.filter
        /\ t.guids = s.guids /\ t.cut = s.cut
        /\ t.reloading = s.reloading /\ t.offset = s.offset
        /\ t.disturbed = s.disturbed /\ t.crashed = s.crashed
    BY <1>1, DropRowFields DEF t
  <1>3. ASSUME Stored(s) PROVE Stored(t)
    BY <1>2, <1>3 DEF Stored
  <1>4. ASSUME Exact(s) PROVE Exact(t)
    BY <1>2, <1>4, MatchesSame DEF Exact, Passed
  <1>5. ASSUME Listed(s, missing, parting)
        PROVE Listed(t, missing \union {i}, parting \union {i})
    BY <1>2, <1>5 DEF Listed
  <1> QED
    BY <1>1, <1>2, <1>3, <1>4, <1>5 DEF Sound, t

LEMMA RemoveLeftSound ==
    ASSUME NEW s, NEW missing, NEW parting, NEW exact, Sound(s, missing, parting, exact), NEW i
    PROVE Sound(RemoveLeft(s, i), missing, parting, exact)
  <1> DEFINE t == [s EXCEPT !.guids = @ \ {Guid[i]}]
             u == ItemsGone(t, {i})
             v == DropRow(u, i)
  <1>1. /\ IsState(s)
        /\ s.crashed \/ (Stored(s) /\ Listed(s, missing, parting) /\ (exact => Exact(s)))
    BY DEF Sound
  <1>2. RemoveLeft(s, i) = v
    BY DEF RemoveLeft
  <1> HIDE DEF v, u, t
  <1>3. /\ IsState(t) /\ t.guids = s.guids \ {Guid[i]}
        /\ t.live = s.live /\ t.read = s.read /\ t.folder = s.folder /\ t.found = s.found
        /\ t.next = s.next /\ t.shown = s.shown /\ t.filter = s.filter
        /\ t.cut = s.cut /\ t.rows = s.rows
        /\ t.reloading = s.reloading /\ t.offset = s.offset
        /\ t.disturbed = s.disturbed /\ t.crashed = s.crashed
    BY <1>1, ForgottenFields DEF t
  <1>4. /\ IsState(u)
        /\ u.live = t.live \ {i} /\ u.found = t.found \ {i}
        /\ ~u.disturbed => ~t.disturbed /\ (t.reloading => {i} \intersect t.live = {})
        /\ u.read = t.read /\ u.folder = t.folder
        /\ u.next = t.next /\ u.shown = t.shown /\ u.filter = t.filter
        /\ u.guids = t.guids /\ u.cut = t.cut /\ u.rows = t.rows
        /\ u.reloading = t.reloading /\ u.offset = t.offset
        /\ u.crashed = t.crashed
    BY <1>3, ItemsGoneFields DEF u
  <1>5. /\ IsState(v) /\ v.rows = u.rows \ {i}
        /\ v.live = u.live /\ v.read = u.read /\ v.folder = u.folder /\ v.found = u.found
        /\ v.next = u.next /\ v.shown = u.shown /\ v.filter = u.filter
        /\ v.guids = u.guids /\ v.cut = u.cut
        /\ v.reloading = u.reloading /\ v.offset = u.offset
        /\ v.disturbed = u.disturbed /\ v.crashed = u.crashed
    BY <1>4, DropRowFields DEF v
  <1>6. /\ v.live = s.live \ {i} /\ v.found = s.found \ {i}
        /\ ~v.disturbed => ~s.disturbed /\ (s.reloading => {i} \intersect s.live = {})
        /\ v.read = s.read /\ v.folder = s.folder /\ v.next = s.next
        /\ v.shown = s.shown /\ v.filter = s.filter /\ v.cut = s.cut
        /\ v.rows = s.rows \ {i} /\ v.guids = s.guids \ {Guid[i]}
        /\ v.reloading = s.reloading /\ v.offset = s.offset /\ v.crashed = s.crashed
    BY <1>3, <1>4, <1>5
  <1>7. ASSUME Stored(s) PROVE Stored(v)
    BY <1>6, <1>7, GoneStored
  <1>8. ASSUME Exact(s) PROVE Exact(v)
    BY <1>6, <1>8, GoneExact
  <1>9. ASSUME Listed(s, missing, parting) PROVE Listed(v, missing, parting)
    BY <1>6, <1>9 DEF Listed
  <1> QED
    BY <1>1, <1>2, <1>5, <1>6, <1>7, <1>8, <1>9 DEF Sound

-----------------------------------------------------------------------------
(* The cascade of a removal.                                               *)

LEMMA CrashSound ==
    ASSUME NEW s, IsState(s), NEW missing, NEW parting, NEW exact
    PROVE Sound([s EXCEPT !.crashed = TRUE], missing, parting, exact)
  BY DEF IsState, Fields, Sound

\* A displayed feed shows all of its items.
LEMMA FeedShowsAll ==
    ASSUME NEW s, NEW missing, NEW parting, NEW exact, Sound(s, missing, parting, exact), NEW i,
           ~Filter(s, i)
    PROVE s.crashed \/ s.shown # Feed
  BY ItemViewAssumption DEF Sound, Listed, Filter

\* What happens to an item that the selection leaves.
Left(s) == [s EXCEPT !.selected = NoItem]
Hides(s) == ~FilterCrashes(s, s.selected) /\ ~Filter(s, s.selected) /\ ~HideOnly
LeftCrashes(s) == FilterCrashes(s, s.selected) \/ (s.deferred /\ ~Exists(s, s.selected))

LEMMA LeftSound ==
    ASSUME NEW s, NEW missing, NEW parting, NEW exact, Sound(s, missing, parting, exact)
    PROVE /\ Sound(Left(s), missing, parting, exact)
          /\ Sound([Left(s) EXCEPT !.crashed = TRUE], missing, parting, exact)
          /\ Hides(s) => Left(s).crashed \/ Left(s).shown # Feed
  <1>1. IsState(s)
    BY DEF Sound
  <1>2. Kept(s, Left(s))
    BY <1>1, SelectionKept DEF Left
  <1>3. Sound(Left(s), missing, parting, exact)
    BY <1>2, KeptSound
  <1>4. IsState(Left(s)) /\ Left(s).crashed = s.crashed /\ Left(s).shown = s.shown
    BY <1>2 DEF Kept
  <1> QED
    BY <1>3, <1>4, CrashSound, FeedShowsAll DEF Hides

LEMMA UndeferredSound ==
    ASSUME NEW s, NEW missing, NEW parting, NEW exact, Sound(s, missing, parting, exact)
    PROVE Sound([s EXCEPT !.deferred = FALSE], missing, parting, exact)
  BY SelectionKept, KeptSound DEF Sound

LEMMA DeferredLeftSound ==
    ASSUME NEW s, NEW missing, NEW parting, NEW exact, Sound(s, missing, parting, exact)
    PROVE Sound(DeferredAction(s, RemoveLeft, DropRow), missing, parting, exact)
  <1> DEFINE i == s.selected
             hidden == IF Hides(s) THEN DropRow(Left(s), i) ELSE Left(s)
             undeferred == [hidden EXCEPT !.deferred = FALSE]
  <1>1. DeferredAction(s, RemoveLeft, DropRow) =
          IF i = NoItem THEN s
          ELSE IF LeftCrashes(s) THEN [Left(s) EXCEPT !.crashed = TRUE]
          ELSE IF s.deferred THEN RemoveLeft(undeferred, i)
          ELSE hidden
    BY DEF DeferredAction, Hides, Left, LeftCrashes
  <1>2. /\ Sound(Left(s), missing, parting, exact)
        /\ Sound([Left(s) EXCEPT !.crashed = TRUE], missing, parting, exact)
        /\ Hides(s) => Left(s).crashed \/ Left(s).shown # Feed
    BY LeftSound
  <1>3. Sound(hidden, missing, parting, exact)
    BY <1>2, DropHiddenSound
  <1> HIDE DEF hidden
  <1>4. Sound(undeferred, missing, parting, exact)
    BY <1>3, UndeferredSound
  <1> HIDE DEF undeferred
  <1>5. Sound(RemoveLeft(undeferred, i), missing, parting, exact)
    BY <1>4, RemoveLeftSound
  <1> QED
    BY <1>1, <1>2, <1>3, <1>5

LEMMA SelectionChangedSound ==
    ASSUME NEW s, NEW missing, NEW parting, NEW exact, Sound(s, missing, parting, exact), NEW i
    PROVE Sound(SelectionChanged(s, i), missing, parting, exact)
  <1>1. Sound(DeferredAction(s, RemoveLeft, DropRow), missing, parting, exact)
    BY DeferredLeftSound
  <1>2. Sound(Select(DeferredAction(s, RemoveLeft, DropRow), i), missing, parting, exact)
    BY <1>1, SelectSound
  <1> QED
    BY <1>2 DEF SelectionChanged

\* The row that goes is what may keep the state from being sound.
LEMMA EmitRemovedSound ==
    ASSUME NEW s, IsState(s), NEW i, NEW missing, NEW parting, NEW exact,
           Sound(DropRow(s, i), missing, parting, exact)
    PROVE Sound(EmitRemoved(s, i), missing, parting, exact)
  <1> DEFINE next == Neighbour(s, i)
             t == DropRow(s, i)
             moved == [t EXCEPT !.cursor = next]
  <1>1. EmitRemoved(s, i) =
          IF i \notin s.rows THEN s
          ELSE IF s.cursor # i THEN t
          ELSE IF next = NoItem THEN [t EXCEPT !.cursor = NoItem]
          ELSE SelectionChanged(moved, next)
    BY DEF EmitRemoved
  <1>2. /\ IsState(t) /\ t.rows = s.rows \ {i}
        /\ t.live = s.live /\ t.read = s.read /\ t.folder = s.folder /\ t.found = s.found
        /\ t.next = s.next /\ t.shown = s.shown /\ t.filter = s.filter
        /\ t.guids = s.guids /\ t.cut = s.cut
        /\ t.reloading = s.reloading /\ t.offset = s.offset
        /\ t.disturbed = s.disturbed /\ t.crashed = s.crashed
    BY DropRowFields
  <1>3. Sound(t, missing, parting, exact)
    OBVIOUS
  <1> HIDE DEF t, next
  <1>4. ASSUME i \notin s.rows PROVE Sound(s, missing, parting, exact)
    <2>1. Kept(t, s)
      BY <1>2, <1>4 DEF Kept
    <2> QED
      BY <1>3, <2>1, KeptSound
  <1>5. /\ Sound([t EXCEPT !.cursor = NoItem], missing, parting, exact)
        /\ Sound(moved, missing, parting, exact)
    BY <1>2, <1>3, SelectionKept, KeptSound
  <1> HIDE DEF moved
  <1>6. Sound(SelectionChanged(moved, next), missing, parting, exact)
    BY <1>5, SelectionChangedSound
  <1> QED
    BY <1>1, <1>3, <1>4, <1>5, <1>6

LEMMA RemoveItemSound ==
    ASSUME NEW s, NEW missing, NEW parting, NEW exact, Sound(s, missing, parting, exact), NEW i
    PROVE Sound(RemoveItem(s, i), missing, parting, exact)
  <1> DEFINE t == IF s.selected = i
                  THEN [SetSelected(s, NoItem) EXCEPT !.deferred = FALSE] ELSE s
             forgotten == [t EXCEPT !.guids = @ \ {Guid[i]}]
             gone == ItemsGone(forgotten, {i})
  <1>1. RemoveItem(s, i) = EmitRemoved(gone, i)
    BY DEF RemoveItem
  <1>2. Sound(t, missing, parting, exact)
    BY SetSelectedSound, UndeferredSound
  <1> HIDE DEF t
  <1>3. Sound(DropRow(gone, i), missing, parting, exact)
    BY <1>2, RemoveLeftSound DEF RemoveLeft
  <1>4. IsState(gone)
    <2>1. IsState(forgotten)
      BY <1>2, ForgottenFields DEF Sound
    <2> QED
      BY <2>1, ItemsGoneFields
  <1> QED
    BY <1>1, <1>3, <1>4, EmitRemovedSound

LEMMA CheckDeferredSound ==
    ASSUME NEW s, NEW missing, NEW parting, NEW exact, Sound(s, missing, parting, exact)
    PROVE Sound(CheckDeferred(s), missing, parting, exact)
  <1> DEFINE i == s.selected
             hidden == IF Hides(s) THEN EmitRemoved(Left(s), i) ELSE Left(s)
             undeferred == [hidden EXCEPT !.deferred = FALSE]
  <1>1. CheckDeferred(s) =
          IF i = NoItem THEN s
          ELSE IF LeftCrashes(s) THEN [Left(s) EXCEPT !.crashed = TRUE]
          ELSE IF s.deferred THEN RemoveItem(undeferred, i)
          ELSE hidden
    BY DEF CheckDeferred, DeferredAction, Hides, Left, LeftCrashes
  <1>2. /\ Sound(Left(s), missing, parting, exact)
        /\ Sound([Left(s) EXCEPT !.crashed = TRUE], missing, parting, exact)
        /\ Hides(s) => Left(s).crashed \/ Left(s).shown # Feed
    BY LeftSound
  <1>3. Sound(hidden, missing, parting, exact)
    <2>1. IsState(Left(s))
      BY <1>2 DEF Sound
    <2>2. Hides(s) => Sound(DropRow(Left(s), i), missing, parting, exact)
      BY <1>2, DropHiddenSound
    <2> QED
      BY <1>2, <2>1, <2>2, EmitRemovedSound
  <1> HIDE DEF hidden
  <1>4. Sound(undeferred, missing, parting, exact)
    BY <1>3, UndeferredSound
  <1> HIDE DEF undeferred
  <1>5. Sound(RemoveItem(undeferred, i), missing, parting, exact)
    BY <1>4, RemoveItemSound
  <1> QED
    BY <1>1, <1>2, <1>3, <1>5

LEMMA ToggleReadSound ==
    ASSUME NEW s, NEW missing, NEW parting, NEW exact, Sound(s, missing, parting, exact), NEW i
    PROVE Sound(ToggleRead(s, i), missing, parting, exact)
  <1> DEFINE t == StateChanged(s, i)
  <1>1. Sound(t, missing, parting, exact)
    BY StateChangedSound
  <1>2. ToggleRead(s, i) = IF ~Filter(t, i) /\ t.selected # i THEN EmitRemoved(t, i) ELSE t
    BY DEF ToggleRead
  <1> HIDE DEF t
  <1>3. ASSUME ~Filter(t, i) PROVE Sound(EmitRemoved(t, i), missing, parting, exact)
    <2>1. Sound(DropRow(t, i), missing, parting, exact)
      BY <1>1, <1>3, FeedShowsAll, DropHiddenSound
    <2> QED
      BY <1>1, <2>1, EmitRemovedSound DEF Sound
  <1> QED
    BY <1>1, <1>2, <1>3

\* An item that the cache limit drops: its guid stays in the list.
LEMMA CutFields ==
    ASSUME NEW s, IsState(s), NEW u
    PROVE LET t == [s EXCEPT !.cut = @ \union {u}]
          IN  /\ IsState(t) /\ t.cut = s.cut \union {u}
              /\ t.live = s.live /\ t.read = s.read /\ t.folder = s.folder /\ t.found = s.found
              /\ t.next = s.next /\ t.shown = s.shown /\ t.filter = s.filter
              /\ t.guids = s.guids /\ t.rows = s.rows
              /\ t.reloading = s.reloading /\ t.offset = s.offset
              /\ t.disturbed = s.disturbed /\ t.crashed = s.crashed
  BY DEF IsState, Fields

LEMMA RequestRemoveSound ==
    ASSUME NEW s, NEW missing, NEW parting, NEW exact, Sound(s, missing, parting, exact), NEW i
    PROVE Sound(RequestRemove(s, i), missing, parting, exact)
  <1> DEFINE flagged == [s EXCEPT !.deferred = TRUE, !.outdated = i]
             t == EmitRemoved(s, i)
             u == ItemsGone(t, {i})
             v == [u EXCEPT !.cut = @ \union {Guid[i]}]
  <1>1. RequestRemove(s, i) = IF s.selected = i THEN flagged ELSE v
    BY DEF RequestRemove
  <1>2. IsState(s)
    BY DEF Sound
  <1>3. Sound(flagged, missing, parting, exact)
    <2>1. Kept(s, flagged)
      BY <1>2 DEF IsState, Fields, Kept
    <2> QED
      BY <2>1, KeptSound
  <1>4. Sound(t, missing \union {i}, parting \union {i}, exact)
    BY <1>2, DropPartingSound, EmitRemovedSound
  <1> HIDE DEF flagged, v, u, t
  <1>5. /\ IsState(t)
        /\ \/ t.crashed
           \/ /\ Stored(t) /\ Listed(t, missing \union {i}, parting \union {i})
              /\ exact => Exact(t)
    BY <1>4 DEF Sound
  <1>6. /\ IsState(u)
        /\ u.live = t.live \ {i} /\ u.found = t.found \ {i}
        /\ ~u.disturbed => ~t.disturbed /\ (t.reloading => {i} \intersect t.live = {})
        /\ u.read = t.read /\ u.folder = t.folder
        /\ u.next = t.next /\ u.shown = t.shown /\ u.filter = t.filter
        /\ u.guids = t.guids /\ u.cut = t.cut /\ u.rows = t.rows
        /\ u.reloading = t.reloading /\ u.offset = t.offset
        /\ u.crashed = t.crashed
    BY <1>5, ItemsGoneFields DEF u
  <1>7. /\ IsState(v) /\ v.cut = u.cut \union {Guid[i]}
        /\ v.live = u.live /\ v.read = u.read /\ v.folder = u.folder /\ v.found = u.found
        /\ v.next = u.next /\ v.shown = u.shown /\ v.filter = u.filter
        /\ v.guids = u.guids /\ v.rows = u.rows
        /\ v.reloading = u.reloading /\ v.offset = u.offset
        /\ v.disturbed = u.disturbed /\ v.crashed = u.crashed
    BY <1>6, CutFields, ZenonT(60) DEF v
  <1>8. /\ v.live = t.live \ {i} /\ v.found = t.found \ {i}
        /\ ~v.disturbed => ~t.disturbed /\ (t.reloading => {i} \intersect t.live = {})
        /\ v.read = t.read /\ v.folder = t.folder /\ v.next = t.next
        /\ v.shown = t.shown /\ v.filter = t.filter /\ v.cut = t.cut \union {Guid[i]}
        /\ v.rows = t.rows /\ v.guids = t.guids
        /\ v.reloading = t.reloading /\ v.offset = t.offset /\ v.crashed = t.crashed
    BY <1>6, <1>7
  <1>9. ASSUME Stored(t) PROVE Stored(v)
    BY <1>8, <1>9, GoneStored
  <1>10. ASSUME Exact(t) PROVE Exact(v)
    BY <1>8, <1>10, GoneExact
  <1>11. ASSUME Listed(t, missing \union {i}, parting \union {i})
         PROVE Listed(v, missing, parting)
    BY <1>8, <1>11 DEF Listed
  <1> QED
    BY <1>1, <1>3, <1>5, <1>7, <1>8, <1>9, <1>10, <1>11 DEF Sound

-----------------------------------------------------------------------------
(* Loading and unloading a node.                                           *)

LEMMA MergeAllFields ==
    ASSUME NEW s, IsState(s), NEW items
    PROVE LET t == MergeAll(s, items)
              added == NotDuplicate(s, items)
          IN  /\ IsState(t)
              /\ t.rows = s.rows \union added
              /\ t.guids = s.guids \union {Guid[i] : i \in added}
              /\ t.live = s.live /\ t.read = s.read /\ t.folder = s.folder /\ t.found = s.found
              /\ t.next = s.next /\ t.shown = s.shown /\ t.filter = s.filter /\ t.cut = s.cut
              /\ t.reloading = s.reloading /\ t.offset = s.offset
              /\ t.disturbed = s.disturbed /\ t.crashed = s.crashed
  <1> DEFINE added == NotDuplicate(s, items)
             known == s.guids \union {Guid[i] : i \in added}
             u == [s EXCEPT !.guids = known]
             t == [u EXCEPT !.rows = @ \union added]
  <1>1. MergeAll(s, items) = t
    BY DEF MergeAll, AddRows
  <1> HIDE DEF added, known
  <1>2. /\ IsState(t) /\ t.rows = s.rows \union added /\ t.guids = known
        /\ t.live = s.live /\ t.read = s.read /\ t.folder = s.folder /\ t.found = s.found
        /\ t.next = s.next /\ t.shown = s.shown /\ t.filter = s.filter /\ t.cut = s.cut
        /\ t.reloading = s.reloading /\ t.offset = s.offset
        /\ t.disturbed = s.disturbed /\ t.crashed = s.crashed
    BY DEF IsState, Fields
  <1> HIDE DEF t
  <1> QED
    BY <1>1, <1>2 DEF known, added

LEMMA MergeElsewhereSound ==
    ASSUME NEW s, NEW missing, NEW parting, NEW exact, Sound(s, missing, parting, exact),
           s.crashed \/ s.shown # Feed, NEW items
    PROVE Sound(MergeAll(s, items), {}, {}, exact)
  <1> DEFINE t == MergeAll(s, items)
  <1>1. /\ IsState(s)
        /\ s.crashed \/ (Stored(s) /\ (exact => Exact(s)))
    BY DEF Sound
  <1>2. /\ IsState(t)
        /\ t.live = s.live /\ t.read = s.read /\ t.folder = s.folder /\ t.found = s.found
        /\ t.next = s.next /\ t.shown = s.shown /\ t.filter = s.filter /\ t.cut = s.cut
        /\ t.reloading = s.reloading /\ t.offset = s.offset
        /\ t.disturbed = s.disturbed /\ t.crashed = s.crashed
    BY <1>1, MergeAllFields
  <1> HIDE DEF t
  <1>3. ASSUME Stored(s) PROVE Stored(t)
    BY <1>2, <1>3 DEF Stored
  <1>4. ASSUME Exact(s) PROVE Exact(t)
    BY <1>2, <1>4, MatchesSame DEF Exact, Passed
  <1> QED
    BY <1>1, <1>2, <1>3, <1>4 DEF Sound, Listed, t

\* The items of the feed are merged: none is missing any more.
LEMMA MergeFeedSound ==
    ASSUME NEW s, NEW missing, NEW exact, Sound(s, missing, {}, exact)
    PROVE Sound(MergeItemset(s, Feed, s.live), {}, {}, exact)
  <1>1. CASE s.crashed \/ s.shown # Feed
    <2>1. Sound(s, {}, {}, exact)
      BY <1>1 DEF Sound, Listed
    <2> QED
      BY <1>1, <2>1, MergeElsewhereSound DEF MergeItemset
  <1>2. CASE ~s.crashed /\ s.shown = Feed
    <2> DEFINE t == MergeAll(s, s.live)
               added == NotDuplicate(s, s.live)
    <2>1. MergeItemset(s, Feed, s.live) = t
      BY <1>2, ItemViewAssumption DEF MergeItemset, IsValid
    <2>2. IsState(s) /\ Stored(s) /\ Listed(s, missing, {}) /\ (exact => Exact(s))
      BY <1>2 DEF Sound
    <2>3. /\ IsState(t)
          /\ t.rows = s.rows \union added
          /\ t.guids = s.guids \union {Guid[i] : i \in added}
          /\ t.live = s.live /\ t.read = s.read /\ t.folder = s.folder /\ t.found = s.found
          /\ t.next = s.next /\ t.shown = s.shown /\ t.filter = s.filter /\ t.cut = s.cut
          /\ t.reloading = s.reloading /\ t.offset = s.offset
          /\ t.disturbed = s.disturbed /\ t.crashed = s.crashed
      BY <2>2, MergeAllFields
    <2>4. \A i \in s.live : i \in added <=> Guid[i] \notin s.guids
      <3>1. \A i : Filter(s, i)
        BY <1>2, FeedShowsAll
      <3>2. added = {i \in s.live : /\ Guid[i] \notin s.guids
                                    /\ \A j \in s.live : Guid[j] = Guid[i] => i <= j}
        BY <3>1 DEF NotDuplicate
      <3>3. \A i, j \in s.live : Guid[j] = Guid[i] => i = j /\ i <= j
        BY <2>2 DEF Stored
      <3> QED
        BY <3>2, <3>3
    <2>5. added \subseteq s.live
      BY DEF NotDuplicate
    <2> HIDE DEF t, added
    <2>6. Stored(t)
      BY <2>2, <2>3 DEF Stored
    <2>7. ASSUME Exact(s) PROVE Exact(t)
      BY <2>3, <2>7, MatchesSame DEF Exact, Passed
    <2>8. Listed(t, {}, {})
      <3>1. /\ s.filter = FALSE
            /\ s.rows \subseteq s.live
            /\ \A u \in s.guids : (\E i \in s.rows : Guid[i] = u) \/ u \in s.cut
        BY <1>2, <2>2 DEF Listed
      <3>2. \A i \in s.live : i \in t.rows \/ Guid[i] \in s.cut
        <4>1. SUFFICES ASSUME NEW i \in s.live, i \notin added, Guid[i] \notin s.cut
                       PROVE i \in s.rows
          BY <2>3
        <4>2. PICK j \in s.rows : Guid[j] = Guid[i]
          BY <2>4, <3>1, <4>1
        <4> QED
          BY <2>2, <3>1, <4>2 DEF Stored
      <3>3. \A u \in t.guids : (\E i \in t.rows : Guid[i] = u) \/ u \in s.cut
        BY <2>3, <3>1
      <3> QED
        BY <2>3, <2>5, <3>1, <3>2, <3>3 DEF Listed
    <2> QED
      BY <2>1, <2>2, <2>3, <2>6, <2>7, <2>8 DEF Sound
  <1> QED
    BY <1>1, <1>2

\* Nothing is displayed: what itemlist_unload() leaves for itemlist_load().
Unloaded(s) == s.crashed \/ (s.shown = NoNode /\ s.guids = {} /\ s.cut = {})

LEMMA LoadSound ==
    ASSUME NEW s, NEW exact, Sound(s, {}, {}, exact), Unloaded(s), NEW n
    PROVE Sound(Load(s, n), {}, {}, exact)
  <1> DEFINE blank == [s EXCEPT !.rows = {}, !.cursor = NoItem]
             hides == n = Folder /\ s.hideRead
             turned == n \in s.sortReversed
             t == [blank EXCEPT !.shown = n, !.filter = hides, !.reversed = turned]
  <1>1. IsState(s) /\ (s.crashed \/ (Stored(s) /\ Listed(s, {}, {}) /\ (exact => Exact(s))))
    BY DEF Sound
  <1>2. Load(s, n) = IF s.crashed THEN s
                     ELSE IF n = Folder /\ ~s.displayChildren THEN blank
                     ELSE MergeItemset(t, n, ItemsOf(t, n))
    BY DEF Load, ClearRows
  <1>3. /\ IsState(blank) /\ blank.rows = {}
        /\ blank.live = s.live /\ blank.read = s.read /\ blank.folder = s.folder
        /\ blank.found = s.found /\ blank.next = s.next /\ blank.shown = s.shown
        /\ blank.filter = s.filter /\ blank.guids = s.guids /\ blank.cut = s.cut
        /\ blank.reloading = s.reloading /\ blank.offset = s.offset
        /\ blank.disturbed = s.disturbed /\ blank.crashed = s.crashed
    BY <1>1 DEF IsState, Fields
  <1> HIDE DEF blank, hides, turned
  <1>4. /\ IsState(t) /\ t.rows = {} /\ t.shown = n /\ t.filter = hides
        /\ t.live = s.live /\ t.read = s.read /\ t.folder = s.folder
        /\ t.found = s.found /\ t.next = s.next
        /\ t.guids = s.guids /\ t.cut = s.cut
        /\ t.reloading = s.reloading /\ t.offset = s.offset
        /\ t.disturbed = s.disturbed /\ t.crashed = s.crashed
    <2>1. /\ IsState(t) /\ t.rows = blank.rows /\ t.shown = n /\ t.filter = hides
          /\ t.live = blank.live /\ t.read = blank.read /\ t.folder = blank.folder
          /\ t.found = blank.found /\ t.next = blank.next
          /\ t.guids = blank.guids /\ t.cut = blank.cut
          /\ t.reloading = blank.reloading /\ t.offset = blank.offset
          /\ t.disturbed = blank.disturbed /\ t.crashed = blank.crashed
      BY <1>3 DEF IsState, Fields
    <2> HIDE DEF t
    <2> QED
      BY <1>3, <2>1
  <1> HIDE DEF t
  <1>5. ASSUME Stored(s) PROVE Stored(blank) /\ Stored(t)
    BY <1>3, <1>4, <1>5 DEF Stored
  <1>6. ASSUME Exact(s) PROVE Exact(blank) /\ Exact(t)
    BY <1>3, <1>4, <1>6, MatchesSame DEF Exact, Passed
  <1>7. Sound(blank, {}, {}, exact)
    BY <1>1, <1>3, <1>5, <1>6, ItemViewAssumption DEF Sound, Listed, Unloaded
  <1>8. CASE n = Feed
    <2>1. Sound(t, t.live, {}, exact)
      BY <1>1, <1>4, <1>5, <1>6, <1>8, ItemViewAssumption DEF Sound, Listed, Unloaded, hides
    <2>2. ItemsOf(t, n) = t.live
      BY <1>8, ItemViewAssumption DEF ItemsOf
    <2>3. Sound(MergeItemset(t, n, ItemsOf(t, n)), {}, {}, exact)
      BY <1>8, <2>1, <2>2, MergeFeedSound
    <2> QED
      BY <1>2, <1>7, <2>3
  <1>9. CASE n # Feed
    <2>1. Sound(t, {}, {}, exact)
      BY <1>1, <1>4, <1>5, <1>6, <1>9 DEF Sound, Listed
    <2>2. Sound(MergeItemset(t, n, ItemsOf(t, n)), {}, {}, exact)
      BY <1>4, <1>9, <2>1, MergeElsewhereSound DEF MergeItemset
    <2> QED
      BY <1>2, <1>7, <2>2
  <1> QED
    BY <1>8, <1>9

LEMMA UnloadSound ==
    ASSUME NEW s, NEW exact, Sound(s, {}, {}, exact)
    PROVE Sound(Unload(s), {}, {}, exact) /\ Unloaded(Unload(s))
  <1> DEFINE r == IF s.shown # NoNode THEN CheckDeferred(s) ELSE s
             t == SetSelected(r, NoItem)
             u == [t EXCEPT !.guids = {}, !.cut = {}, !.shown = NoNode, !.filter = FALSE]
  <1>1. Unload(s) = IF r.crashed THEN r ELSE u
    BY DEF Unload, Forget
  <1>2. Sound(r, {}, {}, exact)
    BY CheckDeferredSound
  <1> HIDE DEF r
  <1>3. Sound(t, {}, {}, exact)
    BY <1>2, SetSelectedSound
  <1> HIDE DEF t
  <1>4. IsState(t) /\ (t.crashed \/ (Stored(t) /\ Listed(t, {}, {}) /\ (exact => Exact(t))))
    BY <1>3 DEF Sound
  <1>5. /\ IsState(u) /\ u.guids = {} /\ u.cut = {} /\ u.shown = NoNode
        /\ u.live = t.live /\ u.read = t.read /\ u.folder = t.folder /\ u.found = t.found
        /\ u.next = t.next /\ u.rows = t.rows
        /\ u.reloading = t.reloading /\ u.offset = t.offset
        /\ u.disturbed = t.disturbed /\ u.crashed = t.crashed
    BY <1>4, ZenonT(60) DEF IsState, Fields
  <1> HIDE DEF u
  <1>6. ASSUME Stored(t) PROVE Stored(u)
    BY <1>5, <1>6 DEF Stored
  <1>7. ASSUME Exact(t) PROVE Exact(u)
    BY <1>5, <1>7, MatchesSame DEF Exact, Passed
  <1>8. Sound(u, {}, {}, exact) /\ Unloaded(u)
    BY <1>4, <1>5, <1>6, <1>7, ItemViewAssumption DEF Sound, Listed, Unloaded
  <1> QED
    BY <1>1, <1>2, <1>8 DEF Unloaded

LEMMA ReloadSound ==
    ASSUME NEW s, NEW exact, Sound(s, {}, {}, exact), NEW n
    PROVE Sound(Reload(s, n), {}, {}, exact)
  BY UnloadSound, LoadSound DEF Reload

LEMMA SelectNodeSound ==
    ASSUME NEW s, NEW exact, Sound(s, {}, {}, exact), NEW n
    PROVE Sound(SelectNode(s, n), {}, {}, exact)
  <1>1. IsState(s)
    BY DEF Sound
  <1>2. Kept(s, [s EXCEPT !.node = n])
    BY <1>1 DEF IsState, Fields, Kept
  <1>3. Sound(Reload([s EXCEPT !.node = n], n), {}, {}, exact)
    BY <1>2, KeptSound, ReloadSound
  <1> QED
    BY <1>3 DEF SelectNode

-----------------------------------------------------------------------------
(* The search folder.                                                      *)

LEMMA RankType ==
    ASSUME NEW live, live \subseteq Nat, NEW i \in Nat
    PROVE IsFiniteSet({j \in live : j < i}) /\ Rank(live, i) \in Nat
  <1> DEFINE below == {j \in live : j < i}
  <1>1. below \subseteq 0..i
    <2>1. SUFFICES ASSUME NEW j \in below PROVE j \in 0..i
      OBVIOUS
    <2>2. j \in Nat /\ j < i
      BY <2>1
    <2> QED
      BY <2>2
  <1>2. 0 \in Int /\ i \in Int
    OBVIOUS
  <1>3. IsFiniteSet(0..i)
    BY <1>2, FS_Interval
  <1> HIDE DEF below
  <1>4. IsFiniteSet(below)
    BY <1>1, <1>3, FS_Subset
  <1>5. Cardinality(below) \in Nat
    BY <1>4, FS_CardinalityType
  <1> QED
    BY <1>4, <1>5 DEF Rank, below

\* A rebuild starts over: nothing has been passed and nothing found.
LEMMA RebuildingSound ==
    ASSUME NEW s, Sound(s, {}, {}, FALSE)
    PROVE Sound(Rebuilding(s), {}, {}, TRUE)
  <1> DEFINE r == Unload(s)
             e == EmptyFolder(r)
             t == [e EXCEPT !.reloading = TRUE, !.offset = 0, !.disturbed = FALSE]
             l == Load(t, SearchFolder)
  <1>1. Rebuilding(s) = IF e.crashed THEN e
                        ELSE IF e.reloading THEN [e EXCEPT !.crashed = TRUE]
                        ELSE [l EXCEPT !.idle = TRUE]
    BY DEF Rebuilding, StartLoader, Reset
  <1>2. Sound(r, {}, {}, FALSE) /\ Unloaded(r)
    BY UnloadSound
  <1> HIDE DEF r
  <1>3. IsState(r) /\ (r.crashed \/ (Stored(r) /\ Listed(r, {}, {})))
    BY <1>2 DEF Sound
  <1>4. /\ IsState(e) /\ (~e.crashed => e.found = {})
        /\ e.live = r.live /\ e.read = r.read /\ e.folder = r.folder
        /\ e.next = r.next /\ e.shown = r.shown /\ e.filter = r.filter
        /\ e.guids = r.guids /\ e.cut = r.cut /\ e.rows = r.rows
        /\ e.reloading = r.reloading /\ e.offset = r.offset
        /\ e.disturbed = r.disturbed /\ e.crashed = r.crashed
    BY <1>3 DEF IsState, Fields, EmptyFolder
  <1> HIDE DEF e
  <1>5. /\ IsState(t) /\ t.reloading = TRUE /\ t.offset = 0 /\ t.found = e.found
        /\ t.live = e.live /\ t.read = e.read /\ t.folder = e.folder
        /\ t.next = e.next /\ t.shown = e.shown /\ t.filter = e.filter
        /\ t.guids = e.guids /\ t.cut = e.cut /\ t.rows = e.rows
        /\ t.crashed = e.crashed
    BY <1>4 DEF IsState, Fields
  <1> HIDE DEF t
  <1>6. Unloaded(t)
    BY <1>2, <1>4, <1>5 DEF Unloaded
  <1>7. ASSUME ~e.crashed PROVE Exact(t)
    <2>1. \A i \in t.live : ~Passed(t, i)
      <3>1. SUFFICES ASSUME NEW i \in t.live PROVE ~(Rank(t.live, i) < 0)
        BY <1>5 DEF Passed
      <3>2. i \in Nat
        BY <1>3, <1>4, <1>5, <1>7 DEF Stored
      <3>3. Rank(t.live, i) \in Nat
        BY <1>3, <1>4, <1>5, <1>7, <3>2, RankType DEF Stored
      <3> QED
        BY <3>3
    <2> QED
      BY <1>4, <1>5, <1>7, <2>1 DEF Exact
  <1>8. Sound(t, {}, {}, TRUE)
    <2>1. ASSUME Stored(r) PROVE Stored(t)
      BY <1>4, <1>5, <2>1 DEF Stored
    <2>2. ASSUME Listed(r, {}, {}) PROVE Listed(t, {}, {})
      BY <1>4, <1>5, <2>2 DEF Listed
    <2> QED
      BY <1>3, <1>4, <1>5, <1>7, <2>1, <2>2 DEF Sound
  <1>9. Sound(l, {}, {}, TRUE)
    BY <1>6, <1>8, LoadSound
  <1> HIDE DEF l
  <1>10. Kept(l, [l EXCEPT !.idle = TRUE])
    BY <1>9 DEF Sound, IsState, Fields, Kept
  <1>11. e.crashed => Sound(e, {}, {}, TRUE)
    BY <1>4 DEF Sound
  <1> QED
    <2>1. Sound([l EXCEPT !.idle = TRUE], {}, {}, TRUE)
      BY <1>9, <1>10, KeptSound
    <2>2. Sound([e EXCEPT !.crashed = TRUE], {}, {}, TRUE)
      BY <1>4, CrashSound
    <2> QED
      BY <1>1, <1>11, <2>1, <2>2

\* Sets of numbers, and so any induction over them, have least members.
LEMMA LeastMember ==
    ASSUME NEW S, S \subseteq Nat, S # {}
    PROVE \E n \in S : \A m \in S : n <= m
  <1>1. \E n \in S : \A m \in S : ~(<<m, n>> \in OpToRel(<, Nat))
    BY WFMin, NatLessThanWellFounded, Zenon
  <1>2. PICK n \in S : \A m \in S : ~(<<m, n>> \in OpToRel(<, Nat))
    BY <1>1, Zenon
  <1>3. \A m \in S : ~(m < n)
    BY <1>2, Zenon DEF OpToRel
  <1> QED
    BY <1>3

LEMMA GreatestMember ==
    ASSUME NEW S, S \subseteq Nat, S # {}, NEW b \in Nat, \A n \in S : n <= b
    PROVE \E n \in S : \A m \in S : m <= n
  <1> DEFINE bounds == {n \in Nat : \A m \in S : m <= n}
  <1>1. bounds \subseteq Nat /\ bounds # {}
    OBVIOUS
  <1> HIDE DEF bounds
  <1>2. PICK n \in bounds : \A m \in bounds : n <= m
    BY <1>1, LeastMember
  <1>3. n \in Nat /\ \A m \in S : m <= n
    BY DEF bounds
  <1>4. n \in S
    <2>1. SUFFICES ASSUME n \notin S PROVE FALSE
      OBVIOUS
    <2>2. \A m \in S : m < n
      BY <1>3, <2>1
    <2>3. n - 1 \in Nat /\ \A m \in S : m <= n - 1
      <3>1. PICK k \in S : TRUE
        OBVIOUS
      <3>2. k \in Nat /\ k < n
        BY <2>2, <3>1
      <3>3. n - 1 \in Nat
        BY <1>3, <3>2
      <3>4. ASSUME NEW m \in S PROVE m <= n - 1
        <4>1. m \in Nat /\ m < n
          BY <2>2
        <4> QED
          BY <1>3, <4>1
      <3> QED
        BY <3>3, <3>4
    <2>4. n - 1 \in bounds
      BY <2>3 DEF bounds
    <2> QED
      BY <1>2, <1>3, <2>4
  <1> QED
    BY <1>3, <1>4

\* The greatest item of those before another has one item less before it.
LEMMA RankOfPredecessor ==
    ASSUME NEW live, live \subseteq Nat, NEW i \in Nat, Rank(live, i) # 0
    PROVE \E p \in live : p < i /\ Rank(live, p) = Rank(live, i) - 1
  <1> DEFINE below == {j \in live : j < i}
  <1>1. IsFiniteSet(below) /\ Rank(live, i) = Cardinality(below)
    BY RankType DEF Rank
  <1>2. below # {}
    BY <1>1, FS_EmptySet
  <1>3. below \subseteq Nat /\ \A j \in below : j <= i
    <2>1. ASSUME NEW j \in below PROVE j \in Nat /\ j <= i
      <3>1. j \in Nat /\ j < i
        OBVIOUS
      <3> QED
        BY <3>1
    <2> HIDE DEF below
    <2> QED
      BY <2>1
  <1>4. PICK p \in below : \A j \in below : j <= p
    <2> HIDE DEF below
    <2> QED
      BY <1>2, <1>3, GreatestMember
  <1>5. p \in live /\ p < i
    BY <1>4
  <1>6. {j \in live : j < p} = below \ {p}
    <2>1. ASSUME NEW j \in live, j < p PROVE j \in below /\ j # p
      BY <1>5, <2>1
    <2>2. ASSUME NEW j \in below, j # p PROVE j \in live /\ j < p
      BY <1>3, <1>4, <1>5, <2>2
    <2> HIDE DEF below
    <2> QED
      BY <2>1, <2>2
  <1> HIDE DEF below
  <1>7. Cardinality(below \ {p}) = Cardinality(below) - 1
    BY <1>1, <1>4, FS_RemoveElement
  <1> QED
    BY <1>1, <1>5, <1>6, <1>7 DEF Rank

\* The loader ends when it finds nothing at its offset: it has passed all.
LEMMA NothingLeft ==
    ASSUME NEW live, live \subseteq Nat, NEW offset \in Nat,
           \A i \in live : Rank(live, i) \notin offset..(offset + Batch - 1)
    PROVE \A i \in live : Rank(live, i) < offset
  <1> DEFINE late == {i \in live : ~(Rank(live, i) < offset)}
  <1>1. SUFFICES ASSUME late # {} PROVE FALSE
    OBVIOUS
  <1>2. late \subseteq Nat
    OBVIOUS
  <1>3. PICK i \in late : \A j \in late : i <= j
    <2> HIDE DEF late
    <2> QED
      BY <1>1, <1>2, LeastMember
  <1>4. i \in live /\ i \in Nat /\ ~(Rank(live, i) < offset)
    OBVIOUS
  <1>5. Rank(live, i) \in Nat
    BY <1>4, RankType
  <1>6. Rank(live, i) > offset
    BY <1>4, <1>5, ItemViewAssumption
  <1>7. PICK p \in live : p < i /\ Rank(live, p) = Rank(live, i) - 1
    <2>1. Rank(live, i) # 0
      BY <1>5, <1>6
    <2> HIDE DEF late
    <2> QED
      BY <1>4, <2>1, RankOfPredecessor
  <1>8. p \in late
    BY <1>5, <1>6, <1>7
  <1> QED
    BY <1>3, <1>4, <1>7, <1>8

LEMMA LoaderFetchSound ==
    ASSUME IInv, LoaderFetch
    PROVE IInv'
  <1> DEFINE match == {i \in Fetched : Matches(st, i)}
             t == [st EXCEPT !.offset = @ + Batch, !.found = @ \union match]
             ended == [t EXCEPT !.reloading = FALSE, !.idle = FALSE]
  <1>1. st' = IF Fetched = {} THEN ended
              ELSE IF t.shown = SearchFolder THEN MergeAll(t, match)
              ELSE t
    BY DEF LoaderFetch
  <1>2. IsState(st) /\ Stored(st) /\ Listed(st, {}, {}) /\ Exact(st)
    <2>1. ~st.crashed
      BY DEF LoaderFetch
    <2> QED
      BY <2>1 DEF IInv, Sound
  <1>3. Fetched = {i \in st.live : Rank(st.live, i) \in st.offset..(st.offset + Batch - 1)}
    BY DEF Fetched, Rank
  <1> HIDE DEF match
  <1>4. /\ IsState(t) /\ t.offset = st.offset + Batch /\ t.found = st.found \union match
        /\ t.live = st.live /\ t.read = st.read /\ t.folder = st.folder
        /\ t.next = st.next /\ t.shown = st.shown /\ t.filter = st.filter
        /\ t.guids = st.guids /\ t.cut = st.cut /\ t.rows = st.rows
        /\ t.reloading = st.reloading /\ t.disturbed = st.disturbed
        /\ t.crashed = st.crashed
    BY <1>2 DEF IsState, Fields
  <1> HIDE DEF t
  <1>5. /\ IsState(ended) /\ ended.reloading = FALSE
        /\ ended.live = t.live /\ ended.read = t.read /\ ended.folder = t.folder
        /\ ended.next = t.next /\ ended.shown = t.shown /\ ended.filter = t.filter
        /\ ended.guids = t.guids /\ ended.cut = t.cut /\ ended.rows = t.rows
        /\ ended.offset = t.offset /\ ended.disturbed = t.disturbed
        /\ ended.found = t.found /\ ended.crashed = t.crashed
    BY <1>4 DEF IsState, Fields
  <1> HIDE DEF ended
  <1>6. Stored(t) /\ Stored(ended)
    BY <1>2, <1>4, <1>5, ItemViewAssumption DEF Stored
  <1>7. Listed(t, {}, {}) /\ Listed(ended, {}, {})
    BY <1>2, <1>4, <1>5 DEF Listed
  <1>8. \A i : (Matches(t, i) <=> Matches(st, i)) /\ (Matches(ended, i) <=> Matches(st, i))
    BY <1>4, <1>5, MatchesSame
  <1>9. ASSUME NEW i \in st.live PROVE Rank(st.live, i) \in Nat
    BY <1>2, <1>9, RankType DEF Stored
  <1>10. Exact(t)
    <2>1. ASSUME NEW i \in st.live, Passed(t, i) PROVE Passed(st, i) \/ i \in Fetched
      BY <1>2, <1>3, <1>4, <1>9, <2>1, ItemViewAssumption DEF Passed, Stored
    <2>2. \A i \in match : i \in st.live /\ Matches(st, i)
      BY <1>3 DEF match
    <2>3. \A i \in Fetched : Matches(st, i) => i \in match
      BY DEF match
    <2> QED
      BY <1>2, <1>4, <1>8, <2>1, <2>2, <2>3 DEF Exact
  <1>11. ASSUME Fetched = {} PROVE Exact(ended)
    <2>1. \A i \in st.live : Rank(st.live, i) < st.offset
      BY <1>2, <1>3, <1>11, NothingLeft DEF Stored
    <2>2. \A i \in st.live : Passed(st, i)
      BY <2>1 DEF Passed
    <2>3. match = {}
      BY <1>11 DEF match
    <2> QED
      BY <1>2, <1>4, <1>5, <1>8, <2>2, <2>3 DEF Exact
  <1>12. Sound(t, {}, {}, TRUE)
    BY <1>4, <1>6, <1>7, <1>10 DEF Sound
  <1>13. t.shown = SearchFolder => Sound(MergeAll(t, match), {}, {}, TRUE)
    BY <1>12, MergeElsewhereSound, ItemViewAssumption
  <1>14. Fetched = {} => Sound(ended, {}, {}, TRUE)
    BY <1>5, <1>6, <1>7, <1>11 DEF Sound
  <1>15. Sound(st', {}, {}, TRUE)
    BY <1>1, <1>12, <1>13, <1>14
  <1> QED
    BY <1>15 DEF IInv

-----------------------------------------------------------------------------
(* An update of the feed.                                                  *)

\* New items are missing in the list until they are merged.
LEMMA NewItemsSound ==
    ASSUME NEW s, Sound(s, {}, {}, TRUE), ~s.crashed,
           NEW i, i = s.next, \A j \in s.live : Guid[j] # Guid[i]
    PROVE Sound(FolderRows([s EXCEPT !.live = @ \union {i}, !.next = @ + 1], {i}), {i}, {}, TRUE)
  <1> DEFINE t == [s EXCEPT !.live = @ \union {i}, !.next = @ + 1]
             u == FolderRows(t, {i})
  <1>1. IsState(s) /\ Stored(s) /\ Listed(s, {}, {}) /\ Exact(s)
    BY DEF Sound
  <1>2. /\ IsState(t) /\ t.live = s.live \union {i} /\ t.next = s.next + 1
        /\ t.read = s.read /\ t.folder = s.folder /\ t.found = s.found
        /\ t.shown = s.shown /\ t.filter = s.filter
        /\ t.guids = s.guids /\ t.cut = s.cut /\ t.rows = s.rows
        /\ t.reloading = s.reloading /\ t.offset = s.offset
        /\ t.disturbed = s.disturbed /\ t.crashed = s.crashed
    BY <1>1 DEF IsState, Fields
  <1> HIDE DEF t
  <1>3. /\ IsState(u)
        /\ u.found = (t.found \ {i}) \union {j \in {i} : Exists(t, j) /\ Matches(t, j)}
        /\ u.live = t.live /\ u.read = t.read /\ u.folder = t.folder
        /\ u.next = t.next /\ u.shown = t.shown /\ u.filter = t.filter
        /\ u.guids = t.guids /\ u.cut = t.cut /\ u.rows = t.rows
        /\ u.reloading = t.reloading /\ u.offset = t.offset
        /\ u.disturbed = t.disturbed /\ u.crashed = t.crashed
    BY <1>2, FolderRowsFields
  <1> HIDE DEF u
  <1>4. i \in Nat /\ i \notin s.live /\ \A j \in s.live : j \in Nat /\ j < i
    BY <1>1 DEF Stored
  <1>5. Stored(u)
    BY <1>1, <1>2, <1>3, <1>4 DEF Stored
  <1>6. Listed(u, {i}, {})
    BY <1>1, <1>2, <1>3, <1>4 DEF Listed
  <1>7. Exact(u)
    <2>1. \A j : Matches(u, j) <=> Matches(s, j)
      BY <1>2, <1>3, MatchesSame
    <2>2. Matches(t, i) <=> Matches(s, i)
      BY <1>2, MatchesSame
    <2>3. \A j : j \in u.found <=> IF j = i THEN Matches(s, i) ELSE j \in s.found
      BY <1>2, <1>3, <2>2 DEF Exists
    <2>4. ASSUME NEW j \in s.live PROVE Passed(u, j) <=> Passed(s, j)
      <3>1. {k \in u.live : k < j} = {k \in s.live : k < j}
        BY <1>2, <1>3, <1>4
      <3> QED
        BY <1>2, <1>3, <3>1 DEF Passed, Rank
    <2> QED
      BY <1>1, <1>2, <1>3, <1>4, <2>1, <2>3, <2>4 DEF Exact
  <1> QED
    BY <1>3, <1>5, <1>6, <1>7 DEF Sound, u, t

LEMMA AtMostOne ==
    ASSUME NEW S, IsFiniteSet(S), Cardinality(S) <= 1, NEW i \in S
    PROVE S = {i}
  <1>1. IsFiniteSet({i}) /\ Cardinality({i}) = 1
    BY FS_Singleton
  <1>2. {i} \subseteq S
    OBVIOUS
  <1>3. Cardinality(S) \in Nat /\ Cardinality({i}) <= Cardinality(S)
    BY <1>1, <1>2, FS_Subset, FS_CardinalityType
  <1>4. Cardinality({i}) = Cardinality(S)
    BY <1>1, <1>3
  <1> QED
    BY <1>2, <1>4, FS_Subset

LEMMA UpdateSound ==
    ASSUME IInv,
           NEW new \in {s \in SUBSET Items : Cardinality(s) <= 1},
           NEW dropped \in {s \in SUBSET Items : Cardinality(s) <= 1},
           Update(new, dropped)
    PROVE IInv'
  <1> DEFINE s == [st EXCEPT !.live = @ \union new, !.next = @ + Cardinality(new)]
             stored == FolderRows(s, new)
             cut == RemoveItems(stored, dropped)
  <1>1. /\ ~st.crashed
        /\ \A i \in new : i = st.next /\ \A j \in st.live : Guid[j] # Guid[i]
        /\ st' = IF new = {} \/ cut.crashed THEN cut ELSE MergeItemset(cut, Feed, cut.live)
    BY DEF Update, Step
  <1>2. Sound(st, {}, {}, TRUE)
    BY DEF IInv
  <1>3. Sound(stored, new, {}, TRUE)
    <2>1. CASE new = {}
      <3>1. IsState(st) /\ st.next \in Nat
        BY <1>1, <1>2 DEF Sound, Stored
      <3>2. Cardinality(new) = 0
        BY <2>1, FS_EmptySet
      <3>3. st.live \union new = st.live /\ st.next + Cardinality(new) = st.next
        BY <2>1, <3>1, <3>2
      <3>4. Kept(st, s)
        BY <3>1, <3>3 DEF IsState, Fields, Kept
      <3> HIDE DEF s
      <3>5. Kept(s, stored)
        <4>1. IsState(s)
          BY <3>4 DEF Kept
        <4>2. (s.found \ new) \union {i \in new : Exists(s, i) /\ Matches(s, i)} = s.found
          BY <2>1
        <4> HIDE DEF stored
        <4>3. /\ IsState(stored)
              /\ stored.found = (s.found \ new) \union {i \in new : Exists(s, i) /\ Matches(s, i)}
              /\ stored.live = s.live /\ stored.read = s.read /\ stored.folder = s.folder
              /\ stored.next = s.next /\ stored.shown = s.shown /\ stored.filter = s.filter
              /\ stored.guids = s.guids /\ stored.cut = s.cut /\ stored.rows = s.rows
              /\ stored.reloading = s.reloading /\ stored.offset = s.offset
              /\ stored.disturbed = s.disturbed /\ stored.crashed = s.crashed
          BY <4>1, FolderRowsFields DEF stored
        <4> QED
          BY <4>2, <4>3 DEF Kept
      <3>6. Sound(stored, {}, {}, TRUE)
        BY <1>2, <3>4, <3>5, KeptSound
      <3> QED
        BY <2>1, <3>6
    <2>2. CASE new # {}
      <3>1. PICK i \in new : TRUE
        BY <2>2
      <3>2. IsFiniteSet(new)
        BY FS_Subset, ItemViewAssumption
      <3>3. new = {i}
        BY <3>1, <3>2, AtMostOne
      <3>4. Cardinality(new) = 1
        BY <3>3, FS_Singleton
      <3>5. s = [st EXCEPT !.live = @ \union {i}, !.next = @ + 1]
        BY <3>3, <3>4
      <3>6. i = st.next /\ \A j \in st.live : Guid[j] # Guid[i]
        BY <1>1, <3>1
      <3> HIDE DEF s
      <3>7. Sound(FolderRows(s, {i}), {i}, {}, TRUE)
        BY <1>1, <1>2, <3>5, <3>6, NewItemsSound
      <3> QED
        BY <3>3, <3>7
    <2> QED
      BY <2>1, <2>2
  <1> HIDE DEF stored, s
  <1>4. Sound(cut, new, {}, TRUE)
    BY <1>3, RequestRemoveSound DEF RemoveItems
  <1> HIDE DEF cut
  <1>5. cut.crashed => Sound(cut, {}, {}, TRUE)
    BY <1>4 DEF Sound
  <1>6. Sound(MergeItemset(cut, Feed, cut.live), {}, {}, TRUE)
    BY <1>4, MergeFeedSound
  <1>7. Sound(st', {}, {}, TRUE)
    BY <1>1, <1>4, <1>5, <1>6
  <1> QED
    BY <1>7 DEF IInv

-----------------------------------------------------------------------------
(* The user.                                                               *)

LEMMA SelectionSteps ==
    ASSUME IInv, NEW i, NEW b
    PROVE /\ Node(i) => IInv'
          /\ Click(i) => IInv'
          /\ MoveCursor(b) => IInv'
  <1>1. Sound(st, {}, {}, TRUE) /\ IsState(st)
    BY DEF IInv, Sound
  <1>2. ASSUME NEW j PROVE Sound(SelectionChanged([st EXCEPT !.cursor = j], j), {}, {}, TRUE)
    BY <1>1, SelectionKept, KeptSound, SelectionChangedSound
  <1>3. ASSUME Click(i) PROVE Sound(st', {}, {}, TRUE)
    BY <1>2, <1>3 DEF Click
  <1>4. ASSUME MoveCursor(b) PROVE Sound(st', {}, {}, TRUE)
    BY <1>2, <1>4 DEF MoveCursor
  <1>5. ASSUME Node(i) PROVE Sound(st', {}, {}, TRUE)
    BY <1>1, <1>5, SelectNodeSound DEF Node
  <1> QED
    BY <1>3, <1>4, <1>5 DEF IInv

LEMMA ItemSteps ==
    ASSUME IInv, NEW i, NEW b
    PROVE /\ ToggleReadStatus(i) => IInv'
          /\ Pressed(i) => IInv'
          /\ DeleteItem(i) => IInv'
          /\ KeyPressed(b) => IInv'
  <1>1. Sound(st, {}, {}, TRUE) /\ IsState(st)
    BY DEF IInv, Sound
  <1>2. ASSUME NEW j PROVE Sound(ToggleRead(st, j), {}, {}, TRUE) /\ Sound(RemoveItem(st, j), {}, {}, TRUE)
    BY <1>1, ToggleReadSound, RemoveItemSound
  <1>3. Sound([st EXCEPT !.crashed = TRUE], {}, {}, TRUE)
    BY <1>1, CrashSound
  <1>4. ASSUME ToggleReadStatus(i) PROVE Sound(st', {}, {}, TRUE)
    BY <1>2, <1>4 DEF ToggleReadStatus
  <1>5. ASSUME Pressed(i) PROVE Sound(st', {}, {}, TRUE)
    BY <1>2, <1>5 DEF Pressed
  <1>6. ASSUME DeleteItem(i) PROVE Sound(st', {}, {}, TRUE)
    BY <1>2, <1>6 DEF DeleteItem
  <1>7. ASSUME KeyPressed(b) PROVE Sound(st', {}, {}, TRUE)
    BY <1>2, <1>3, <1>7 DEF KeyPressed
  <1> QED
    BY <1>4, <1>5, <1>6, <1>7 DEF IInv

LEMMA RemoveAllStep ==
    ASSUME IInv, RemoveAllItems
    PROVE IInv'
  <1> DEFINE shown == st.shown = Feed
             r == IF shown THEN SetSelected(st, NoItem) ELSE st
             t == ItemsGone(r, st.live)
             u == [t EXCEPT !.guids = {}, !.cut = {}]
             v == [u EXCEPT !.rows = {}, !.cursor = NoItem]
  <1>1. st' = IF shown THEN v ELSE t
    BY DEF RemoveAllItems, ClearRows
  <1>2. Sound(st, {}, {}, TRUE) /\ IsState(st) /\ ~st.crashed
    BY DEF IInv, Sound, RemoveAllItems, Step
  <1>3. Sound(r, {}, {}, TRUE)
    BY <1>2, SetSelectedSound
  <1>4. r.live = st.live /\ r.shown = st.shown
    <2> DEFINE chosen == [st EXCEPT !.selected = NoItem]
               viewed == ViewSelect(chosen, NoItem)
    <2>1. SetSelected(st, NoItem) = HistoryAdd(viewed, NoItem)
      BY DEF SetSelected, NoItem
    <2>2. Kept(st, chosen)
      BY <1>2, SelectionKept
    <2> HIDE DEF chosen
    <2>3. Kept(chosen, viewed)
      BY <2>2, ViewSelectKept DEF Kept
    <2> HIDE DEF viewed
    <2>4. Kept(viewed, HistoryAdd(viewed, NoItem))
      BY <2>3, HistoryAddKept DEF Kept
    <2>5. Kept(st, SetSelected(st, NoItem))
      BY <2>1, <2>2, <2>3, <2>4, KeptTwice
    <2> QED
      BY <2>5 DEF Kept
  <1> HIDE DEF r
  <1>5. IsState(r) /\ (r.crashed \/ (Stored(r) /\ Listed(r, {}, {}) /\ Exact(r)))
    BY <1>3 DEF Sound
  <1>6. /\ IsState(t)
        /\ t.live = r.live \ st.live /\ t.found = r.found \ st.live
        /\ ~t.disturbed => ~r.disturbed /\ (r.reloading => st.live \intersect r.live = {})
        /\ t.read = r.read /\ t.folder = r.folder
        /\ t.next = r.next /\ t.shown = r.shown /\ t.filter = r.filter
        /\ t.guids = r.guids /\ t.cut = r.cut /\ t.rows = r.rows
        /\ t.reloading = r.reloading /\ t.offset = r.offset
        /\ t.crashed = r.crashed
    BY <1>5, ItemsGoneFields
  <1> HIDE DEF t
  <1>7. /\ IsState(u) /\ u.guids = {} /\ u.cut = {}
        /\ u.live = t.live /\ u.read = t.read /\ u.folder = t.folder /\ u.found = t.found
        /\ u.next = t.next /\ u.shown = t.shown /\ u.filter = t.filter
        /\ u.reloading = t.reloading /\ u.offset = t.offset
        /\ u.disturbed = t.disturbed /\ u.crashed = t.crashed
    BY <1>6 DEF IsState, Fields
  <1> HIDE DEF u
  <1>8. /\ IsState(v) /\ v.guids = u.guids /\ v.cut = u.cut /\ v.rows = {}
        /\ v.live = u.live /\ v.read = u.read /\ v.folder = u.folder /\ v.found = u.found
        /\ v.next = u.next /\ v.shown = u.shown /\ v.filter = u.filter
        /\ v.reloading = u.reloading /\ v.offset = u.offset
        /\ v.disturbed = u.disturbed /\ v.crashed = u.crashed
    BY <1>7 DEF IsState, Fields
  <1> HIDE DEF v
  <1>9. ASSUME Stored(r) PROVE Stored(t) /\ Stored(v)
    BY <1>6, <1>7, <1>8, <1>9 DEF Stored
  <1>10. ASSUME Exact(r) PROVE Exact(t)
    BY <1>6, <1>10, GoneExact
  <1>11. ASSUME Exact(t) PROVE Exact(v)
    BY <1>7, <1>8, <1>11, MatchesSame DEF Exact, Passed
  <1>12. ASSUME Listed(r, {}, {}) PROVE Listed(v, {}, {})
    BY <1>4, <1>6, <1>7, <1>8, <1>12 DEF Listed
  <1>13. ASSUME ~shown PROVE Listed(t, {}, {})
    BY <1>4, <1>6, <1>13 DEF Listed
  <1>14. Sound(st', {}, {}, TRUE)
    BY <1>1, <1>5, <1>6, <1>7, <1>8, <1>9, <1>10, <1>11, <1>12, <1>13 DEF Sound
  <1> QED
    BY <1>14 DEF IInv

LEMMA UnreadAndHistorySteps ==
    ASSUME IInv, NEW b
    PROVE /\ NextUnread => IInv'
          /\ FromHistory(b) => IInv'
  <1>1. Sound(st, {}, {}, TRUE) /\ IsState(st)
    BY DEF IInv, Sound
  <1>2. ASSUME NextUnread PROVE Sound(st', {}, {}, TRUE)
    <2> DEFINE here == FindUnread(st, st.selected)
               found == IF here # NoItem THEN here ELSE FindUnread(st, NoItem)
               busy == [st EXCEPT !.loading = TRUE]
               moved == SelectNode(busy, Feed)
               free == [moved EXCEPT !.loading = FALSE]
    <2>1. st' = SetSelected(st, found) \/ st' = SelectUnread(free)
      BY <1>2 DEF NextUnread
    <2>2. Kept(st, busy)
      BY <1>1 DEF IsState, Fields, Kept
    <2>3. Sound(busy, {}, {}, TRUE)
      BY <1>1, <2>2, KeptSound
    <2> HIDE DEF busy
    <2>4. Sound(moved, {}, {}, TRUE)
      BY <2>3, SelectNodeSound
    <2> HIDE DEF moved
    <2>5. Kept(moved, free)
      BY <2>4 DEF Sound, IsState, Fields, Kept
    <2>6. Sound(free, {}, {}, TRUE)
      BY <2>4, <2>5, KeptSound
    <2> HIDE DEF free, found
    <2>7. Sound(SelectUnread(free), {}, {}, TRUE)
      BY <2>6, SelectSound DEF SelectUnread
    <2>8. Sound(SetSelected(st, found), {}, {}, TRUE)
      BY <1>1, SetSelectedSound
    <2> QED
      BY <2>1, <2>7, <2>8
  <1>3. ASSUME FromHistory(b) PROVE Sound(st', {}, {}, TRUE)
    <2> DEFINE s == HistoryStep(st, b)
               i == HistoryItem(st, s)
    <2>1. st' = IF i = NoItem THEN s ELSE Select(SelectNode(s, Feed), i)
      BY <1>3 DEF FromHistory
    <2>2. Sound(s, {}, {}, TRUE)
      BY <1>1, HistoryStepKept, KeptSound
    <2> HIDE DEF s, i
    <2>3. Sound(Select(SelectNode(s, Feed), i), {}, {}, TRUE)
      BY <2>2, SelectNodeSound, SelectSound
    <2> QED
      BY <2>1, <2>2, <2>3
  <1> QED
    BY <1>2, <1>3 DEF IInv

LEMMA SettingsSteps ==
    ASSUME IInv
    PROVE /\ Sort => IInv'
          /\ Layout => IInv'
          /\ ToggleHideRead => IInv'
          /\ ToggleDisplayChildren => IInv'
  <1>1. Sound(st, {}, {}, TRUE) /\ IsState(st)
    BY DEF IInv, Sound
  <1>2. ASSUME NEW x
        PROVE /\ Kept(st, [st EXCEPT !.sortReversed = x])
              /\ Kept(st, [st EXCEPT !.hideRead = x])
              /\ Kept(st, [st EXCEPT !.displayChildren = x])
    BY <1>1 DEF IsState, Fields, Kept
  <1>3. ASSUME NEW x
        PROVE /\ Sound([st EXCEPT !.sortReversed = x], {}, {}, TRUE)
              /\ Sound([st EXCEPT !.hideRead = x], {}, {}, TRUE)
              /\ Sound([st EXCEPT !.displayChildren = x], {}, {}, TRUE)
    BY <1>1, <1>2, KeptSound
  <1>4. ASSUME Sort PROVE Sound(st', {}, {}, TRUE)
    <2> DEFINE other == IF st.node \in st.sortReversed THEN st.sortReversed \ {st.node}
                        ELSE st.sortReversed \union {st.node}
    <2>1. st' = Reload([st EXCEPT !.sortReversed = other], st.node)
      BY <1>4 DEF Sort
    <2> HIDE DEF other
    <2> QED
      BY <1>3, <2>1, ReloadSound
  <1>5. ASSUME Layout PROVE Sound(st', {}, {}, TRUE)
    BY <1>1, <1>5, ReloadSound DEF Layout
  <1>6. ASSUME NEW s, Sound(s, {}, {}, TRUE), SettingsChanged(s)
        PROVE Sound(st', {}, {}, TRUE)
    BY <1>6, ReloadSound DEF SettingsChanged
  <1>7. ASSUME ToggleHideRead PROVE Sound(st', {}, {}, TRUE)
    <2>1. SettingsChanged([st EXCEPT !.hideRead = ~st.hideRead])
      BY <1>7 DEF ToggleHideRead
    <2> QED
      BY <1>3, <1>6, <2>1
  <1>8. ASSUME ToggleDisplayChildren PROVE Sound(st', {}, {}, TRUE)
    <2>1. SettingsChanged([st EXCEPT !.displayChildren = ~st.displayChildren])
      BY <1>8 DEF ToggleDisplayChildren
    <2> QED
      BY <1>3, <1>6, <2>1
  <1> QED
    BY <1>4, <1>5, <1>7, <1>8 DEF IInv

LEMMA FolderSteps ==
    ASSUME IInv, NEW edits, NEW anyMatch, NEW unreadOnly
    PROVE /\ Rebuild => IInv'
          /\ EditFolder(edits, anyMatch, unreadOnly) => IInv'
  <1>1. Sound(st, {}, {}, TRUE) /\ IsState(st)
    BY DEF IInv, Sound
  <1>2. ASSUME NEW x PROVE Sound([st EXCEPT !.folder = x], {}, {}, FALSE)
    <2> DEFINE t == [st EXCEPT !.folder = x]
    <2>1. /\ IsState(t)
          /\ t.live = st.live /\ t.next = st.next /\ t.shown = st.shown
          /\ t.filter = st.filter /\ t.guids = st.guids /\ t.cut = st.cut
          /\ t.rows = st.rows /\ t.offset = st.offset /\ t.crashed = st.crashed
      BY <1>1 DEF IsState, Fields
    <2> HIDE DEF t
    <2>2. Sound(t, {}, {}, FALSE)
      BY <1>1, <2>1 DEF Sound, Stored, Listed
    <2> QED
      BY <2>2 DEF t
  <1>3. ASSUME Rebuild PROVE Sound(st', {}, {}, TRUE)
    <2>1. Sound(st, {}, {}, FALSE)
      BY <1>1 DEF Sound
    <2> QED
      BY <1>3, <2>1, RebuildingSound DEF Rebuild
  <1>4. ASSUME EditFolder(edits, anyMatch, unreadOnly) PROVE Sound(st', {}, {}, TRUE)
    <2> DEFINE saved == [SaveRules(st.folder, edits) EXCEPT !.anyMatch = anyMatch,
                                                            !.unreadOnly = unreadOnly]
    <2>1. st' = Rebuilding([st EXCEPT !.folder = saved])
      BY <1>4 DEF EditFolder
    <2> HIDE DEF saved
    <2> QED
      BY <1>2, <2>1, RebuildingSound
  <1> QED
    BY <1>3, <1>4 DEF IInv

-----------------------------------------------------------------------------
(* The invariant and what it says.                                         *)

LEMMA InitIInv == Init => IInv
  <1> SUFFICES ASSUME Init PROVE IInv
    OBVIOUS
  <1>1. /\ IsState(st) /\ st.live = Initially /\ st.next = Cardinality(Initially) + 1
        /\ st.found = {i \in Initially : CheckItem(FirstSettings, [Data[i] EXCEPT !.read = FALSE])}
        /\ st.folder = FirstSettings /\ st.read = {} /\ st.shown = NoNode
        /\ st.offset = 0 /\ st.reloading = FALSE
    BY DEF Init, IsState, Fields
  <1>2. Stored(st)
    <2>1. IsFiniteSet(Initially)
      BY FS_Subset, ItemViewAssumption
    <2>2. Cardinality(Initially) \in Nat
      BY <2>1, FS_CardinalityType
    <2> QED
      BY <1>1, <2>2, ItemViewAssumption DEF Stored
  <1>3. Listed(st, {}, {})
    BY <1>1, ItemViewAssumption DEF Listed
  <1>4. Exact(st)
    <2>1. ASSUME NEW i PROVE Matches(st, i) <=> CheckItem(FirstSettings, [Data[i] EXCEPT !.read = FALSE])
      <3>1. (i \in st.read) = FALSE
        BY <1>1
      <3> QED
        BY <1>1, <3>1 DEF Matches
    <2> QED
      BY <1>1, <2>1 DEF Exact
  <1> QED
    BY <1>1, <1>2, <1>3, <1>4 DEF IInv, Sound

LEMMA NextIInv == IInv /\ [Next]_vars => IInv'
  <1> SUFFICES ASSUME IInv, [Next]_vars PROVE IInv'
    OBVIOUS
  <1>1. ASSUME NEW n \in Nodes, Node(n) PROVE IInv'
    BY <1>1, SelectionSteps
  <1>2. ASSUME NEW i \in Items, Click(i) \/ ToggleReadStatus(i) \/ DeleteItem(i)
        PROVE IInv'
    BY <1>2, SelectionSteps, ItemSteps
  <1>3. ASSUME NEW i \in Items, Pressed(i) PROVE IInv'
    BY <1>3, ItemSteps
  <1>4. ASSUME NEW b \in BOOLEAN, MoveCursor(b) \/ KeyPressed(b) PROVE IInv'
    BY <1>4, SelectionSteps, ItemSteps
  <1>5. ASSUME RemoveAllItems PROVE IInv'
    BY <1>5, RemoveAllStep
  <1>6. ASSUME NextUnread PROVE IInv'
    BY <1>6, UnreadAndHistorySteps
  <1>7. ASSUME NEW back \in BOOLEAN, FromHistory(back) PROVE IInv'
    BY <1>7, UnreadAndHistorySteps
  <1>8. ASSUME Sort \/ Layout \/ ToggleHideRead \/ ToggleDisplayChildren PROVE IInv'
    BY <1>8, SettingsSteps
  <1>9. ASSUME NEW new \in {s \in SUBSET Items : Cardinality(s) <= 1},
               NEW dropped \in {s \in SUBSET Items : Cardinality(s) <= 1},
               Update(new, dropped)
        PROVE IInv'
    BY <1>9, UpdateSound
  <1>10. ASSUME Rebuild PROVE IInv'
    BY <1>10, FolderSteps
  <1>11. ASSUME NEW e \in Settings, EditFolder(e.edits, e.anyMatch, e.unreadOnly) PROVE IInv'
    BY <1>11, FolderSteps
  <1>12. ASSUME LoaderFetch PROVE IInv'
    BY <1>12, LoaderFetchSound
  <1>13. ASSUME UNCHANGED vars PROVE IInv'
    BY <1>13 DEF vars, IInv
  <1> QED
    BY <1>1, <1>2, <1>3, <1>4, <1>5, <1>6, <1>7, <1>8, <1>9, <1>10, <1>11, <1>12, <1>13 DEF Next

(***************************************************************************)
(* Between two handlers the state is sound: ids and guids are unique, the  *)
(* list has what a displayed feed has, and the search folder's table what  *)
(* its loader has passed.                                                  *)
(***************************************************************************)
THEOREM StateIsSound == Spec => []IInv
  <1> QED
    BY InitIInv, NextIInv, PTL DEF Spec

\* Without a negative rule the check of the code is the one the dialog names.
LEMMA ChecksWhatIsWanted ==
    ASSUME NEW folder, NEW item, ~Negated(folder)
    PROVE CheckItem(folder, item) <=> Wanted(folder, item)
  <1> DEFINE places == DOMAIN folder.rules
             met == {k \in places : Holds(folder.rules[k], item)}
  <1>1. Wanted(folder, item) <=>
          IF folder.anyMatch /\ places # {} THEN met # {} ELSE met = places
    BY DEF Wanted
  <1>2. CheckItem(folder, item) <=>
          \/ folder.anyMatch /\ \E k \in places : Check(folder.rules[k], item)
          \/ \A k \in places : Holds(folder.rules[k], item)
    BY DEF CheckItem
  <1>3. ASSUME NEW k \in places, folder.anyMatch
        PROVE Check(folder.rules[k], item) <=> Holds(folder.rules[k], item)
    BY <1>3 DEF Negated, Holds
  <1> QED
    BY <1>1, <1>2, <1>3

(***************************************************************************)
(* Whatever the user and the updates did while it was loaded in batches,   *)
(* the table of a rebuilt search folder has the items that its rules ask   *)
(* for (vfolder_loader_fetch_cb() in src/vfolder_loader.c).                *)
(***************************************************************************)
THEOREM RebuiltFolderIsExact == Spec => []FolderIsExact
  <1>1. IInv => FolderIsExact
    <2> SUFFICES ASSUME IInv, ~st.crashed, ~st.reloading, ~st.disturbed, ~Negated(st.folder)
                 PROVE st.found = {i \in st.live :
                           Wanted(st.folder, [Data[i] EXCEPT !.read = i \in st.read])}
      BY DEF FolderIsExact
    <2>1. Exact(st)
      BY DEF IInv, Sound
    <2>2. \A i : Passed(st, i)
      BY DEF Passed
    <2>3. st.found = {i \in st.live : Matches(st, i)}
      BY <2>1, <2>2 DEF Exact
    <2>4. \A i : Matches(st, i) <=>
                   Wanted(st.folder, [Data[i] EXCEPT !.read = i \in st.read])
      BY ChecksWhatIsWanted DEF Matches
    <2> QED
      BY <2>3, <2>4
  <1> QED
    BY <1>1, StateIsSound, PTL

(***************************************************************************)
(* The rows of a displayed feed are its items, but for those whose guid    *)
(* the list still has from an item that the cache limit removed            *)
(* (itemlist_merge_item() and itemlist_remove_items() in src/itemlist.c).  *)
(***************************************************************************)
THEOREM DisplayedFeedIsComplete == Spec => []FeedListedCompletely
  <1>1. IInv => FeedListedCompletely
    BY DEF IInv, Sound, Listed, FeedListedCompletely
  <1> QED
    BY <1>1, StateIsSound, PTL

=============================================================================
