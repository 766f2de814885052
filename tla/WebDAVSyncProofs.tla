-------------------------- MODULE WebDAVSyncProofs --------------------------
(***************************************************************************)
(* Proofs about WebDAVSync, for any number of clients, feeds, folders and  *)
(* items.                                                                  *)
(***************************************************************************)
EXTENDS WebDAVSync, TLAPS

Times == 0..MaxClock

StatesWith(mtimes) ==
    [tree : [Feeds -> Places \union {Absent}], folders : SUBSET Folders,
     loaded : SUBSET Feeds, marks : [Feeds -> SUBSET Items],
     login : {"OFF", "NONE", "IN_PROGRESS", "ACTIVE", "AUTH_FAILED"},
     initial : SUBSET Feeds, feedTimer : SUBSET Feeds, stateTimer : SUBSET Feeds,
     feedMtime : mtimes, stateMtime : mtimes,
     removed : SUBSET Feeds, excused : SUBSET Feeds]

States == StatesWith([Feeds -> Times])

\* Only feeds with items have marks, only those in the tree have items, and a feed
\* whose time is known is in the tree or was removed by the user.
Fits(k) ==
    /\ k \in States
    /\ k.loaded \subseteq Local(k)
    /\ \A f \in Feeds : k.marks[f] # {} => f \in k.loaded
    /\ \A f \in Feeds : k.feedMtime[f] > 0 => f \in Local(k) \union k.removed

Entries == [parent : Places, feedMtime : Times, stateMtime : Times]

IsIndex(ix) ==
    /\ ix.folders \subseteq Folders
    /\ DOMAIN ix.feeds \subseteq Feeds /\ ix.feeds \in [DOMAIN ix.feeds -> Entries]

\* Requests and the results they have; nodes are the feeds the server knows.
PutIndexOK(j) == j.kind = "putIndex" /\ IsIndex(j.body)

BootstrapOK(j) ==
    j \in [client : Clients, kind : {"bootstrap"}, step : {"MKCOL", "GET_INDEX"}]

PollOK(j, nodes) ==
    /\ j.kind = "poll"
    /\ j = [client |-> j.client, kind |-> "poll", result |-> j.result]
    /\ \/ j.result = Waiting \/ j.result = NotFound
       \/ j.result.status = "ok" /\ IsIndex(j.result.body) /\ j.result.known \subseteq nodes

UploadOK(j) ==
    j \in [client : Clients, kind : {"upload"}, feed : Feeds, what : {"feed", "state"},
           body : SUBSET Items]

GetOK(j) ==
    /\ j.kind \in {"getFeed", "getState"}
    /\ j = [client |-> j.client, kind |-> j.kind, feed |-> j.feed, op |-> j.op,
            parent |-> j.parent, mtime |-> j.mtime, result |-> j.result]
    /\ j.feed \in Feeds /\ j.op \in 1..MaxOps /\ j.parent \in Places /\ j.mtime \in Times
    /\ \/ j.result = Waiting \/ j.result = NotFound
       \/ j.result.status = "ok" /\ j.result.body \subseteq Items

JobOK(j, nodes) ==
    /\ j.client \in Clients
    /\ PutIndexOK(j) \/ BootstrapOK(j) \/ PollOK(j, nodes) \/ UploadOK(j) \/ GetOK(j)

OpOK(op, nodes) ==
    /\ op = [index |-> op.index, error |-> op.error, known |-> op.known]
    /\ IsIndex(op.index) /\ op.error \in BOOLEAN /\ op.known \subseteq nodes

ServerOK(s) ==
    /\ s = [collection |-> s.collection, index |-> s.index, nodes |-> s.nodes,
            state |-> s.state, writer |-> s.writer]
    /\ s.collection \in BOOLEAN /\ s.nodes \subseteq Feeds
    /\ s.index = NoIndex \/ IsIndex(s.index)
    /\ DOMAIN s.state = DOMAIN s.writer /\ DOMAIN s.state \subseteq Feeds
    /\ s.state \in [DOMAIN s.state -> SUBSET Items]

\* What the variables may hold, the bodies of requests included.
Typed ==
    /\ client \in [Clients -> States] /\ \A c \in Clients : Fits(client[c])
    /\ \A j \in jobs : JobOK(j, server.nodes)
    /\ \A c \in Clients :
        /\ DOMAIN ops[c] \subseteq 1..MaxOps
        /\ ops[c] = [n \in DOMAIN ops[c] |-> ops[c][n]]
        /\ \A n \in DOMAIN ops[c] : OpOK(ops[c][n], server.nodes)
    /\ ops = [c \in Clients |-> ops[c]]
    /\ ServerOK(server)
    /\ clock \in Times
    /\ budget \in [{"events", "polls", "restarts"} -> Nat]

\* A merge has requests under way, and every request for a merge has one.
Funded == \A c \in Clients : \A n : n \in DOMAIN ops[c] <=> JobsOfOp(c, n) # {}

\* A merge without errors misses no feed: each one with a file is here, was removed,
\* or is asked for.
Here(k) == Local(k) \union k.removed

Covered ==
    \A c \in Clients : \A n \in DOMAIN ops[c] : ~ops[c][n].error =>
        \A f \in DOMAIN ops[c][n].index.feeds \intersect ops[c][n].known :
            f \in Here(client[c]) \/ \E j \in JobsOfOp(c, n) : j.kind = "getFeed" /\ j.feed = f

\* Marks of which an upload has to be on its way or done.
Due(k, f) == f \notin k.stateTimer /\ f \notin k.excused

StateUploads(s) == {j \in s : j.kind = "upload" /\ j.what = "state"}

\* An upload under way has all those marks, so that it does not undo another one.
UploadsComplete ==
    \A j \in StateUploads(jobs) :
        Due(client[j.client], j.feed) => client[j.client].marks[j.feed] \subseteq j.body

Uploaded(c, f, i) ==
    \/ f \in DOMAIN server.writer /\ (i \in server.state[f] \/ server.writer[f] # c)
    \/ \E j \in StateUploads(jobs) : j.client = c /\ j.feed = f /\ i \in j.body

MarksDone ==
    \A c \in Clients : \A f \in Feeds : Due(client[c], f) =>
        \A i \in client[c].marks[f] : Uploaded(c, f, i)

IInv == Typed /\ Funded /\ Covered /\ UploadsComplete /\ MarksDone

-----------------------------------------------------------------------------
(* What a step may do to a client whose uploads it leaves alone: the feeds *)
(* stay, and the marks that are due are marks that were due.               *)

Follows(k, k2) ==
    /\ Fits(k2)
    /\ Here(k) \subseteq Here(k2)
    /\ \A f \in Feeds : \A i \in k2.marks[f] :
          Due(k2, f) => Due(k, f) /\ i \in k.marks[f]

LEMMA FollowsItself ==
    ASSUME NEW k, Fits(k)
    PROVE  Follows(k, k)
BY DEF Follows

LEMMA FollowsTransitive ==
    ASSUME NEW k, NEW k2, NEW k3, Follows(k, k2), Follows(k2, k3)
    PROVE  Follows(k, k3)
BY DEF Follows

\* Steps that leave the tree, the items and the marks alone.
LEMMA BookKept ==
    ASSUME NEW k, Fits(k), NEW k2 \in States,
           k2.tree = k.tree, k2.loaded = k.loaded, k2.marks = k.marks, k2.removed = k.removed,
           k.stateTimer \subseteq k2.stateTimer, k.excused \subseteq k2.excused,
           \A f \in Feeds : k2.feedMtime[f] > 0 => k.feedMtime[f] > 0 \/ f \in Local(k)
    PROVE  Follows(k, k2)
<1>1. Local(k2) = Local(k) /\ Here(k2) = Here(k)
  BY DEF Local, Here
<1>2. Fits(k2)
  BY <1>1 DEF Fits
<1>. QED  BY <1>1, <1>2 DEF Follows, Due

LEMMA NodeUpdatedFollows ==
    ASSUME NEW k, Fits(k), NEW f \in Feeds
    PROVE  /\ Follows(k, NodeUpdated(k, f))
           /\ NodeUpdated(k, f).tree = k.tree /\ NodeUpdated(k, f).folders = k.folders
<1>. DEFINE k2 == NodeUpdated(k, f)
<1>1. k \in States
  BY DEF Fits
<1>2. k2 = [k EXCEPT !.stateTimer = k.stateTimer \union {f}, !.feedTimer = k.feedTimer \union {f}]
  BY <1>1 DEF NodeUpdated, MarkFeedDirty, MarkItemsDirty, States, StatesWith
<1>. HIDE DEF k2
<1>3. k2 \in States
  BY <1>1, <1>2 DEF States, StatesWith
<1>4. /\ k2.tree = k.tree /\ k2.loaded = k.loaded /\ k2.marks = k.marks
      /\ k2.removed = k.removed /\ k2.folders = k.folders /\ k2.feedMtime = k.feedMtime
      /\ k2.excused = k.excused /\ k2.stateTimer = k.stateTimer \union {f}
  BY <1>1, <1>2 DEF States, StatesWith
<1>5. Follows(k, k2)
  BY <1>3, <1>4, BookKept
<1>. QED  BY <1>4, <1>5 DEF k2

LEMMA CleanedUpFollows ==
    ASSUME NEW k, Fits(k), NEW ix
    PROVE  Follows(k, CleanedUp(k, ix))
<1>. DEFINE s == {d \in k.folders : d \in ix.folders \/ FeedsIn(k, d) # {}}
            k2 == CleanedUp(k, ix)
<1>1. k \in States /\ s \subseteq k.folders
  BY DEF Fits
<1>2. k2 = [k EXCEPT !.folders = s]
  BY <1>1 DEF CleanedUp, States, StatesWith
<1>. HIDE DEF k2, s
<1>3. k2 \in States
  BY <1>1, <1>2 DEF States, StatesWith
<1>4. /\ k2.tree = k.tree /\ k2.loaded = k.loaded /\ k2.marks = k.marks
      /\ k2.removed = k.removed /\ k2.feedMtime = k.feedMtime
      /\ k2.excused = k.excused /\ k2.stateTimer = k.stateTimer
  BY <1>1, <1>2 DEF States, StatesWith
<1>5. Follows(k, k2)
  BY <1>3, <1>4, BookKept
<1>. QED  BY <1>5 DEF k2

LEMMA FoldersFollow ==
    ASSUME NEW k, Fits(k), NEW s \in SUBSET Folders
    PROVE  Follows(k, [k EXCEPT !.folders = s])
<1>. DEFINE k2 == [k EXCEPT !.folders = s]
<1>1. k \in States
  BY DEF Fits
<1>3. k2 \in States
  BY <1>1 DEF States, StatesWith
<1>4. /\ k2.tree = k.tree /\ k2.loaded = k.loaded /\ k2.marks = k.marks
      /\ k2.removed = k.removed /\ k2.feedMtime = k.feedMtime
      /\ k2.excused = k.excused /\ k2.stateTimer = k.stateTimer
  BY <1>1 DEF States, StatesWith
<1>. HIDE DEF k2
<1>5. Follows(k, k2)
  BY <1>3, <1>4, BookKept
<1>. QED  BY <1>5 DEF k2

LEMMA LoginFollows ==
    ASSUME NEW k, Fits(k), NEW l \in {"OFF", "NONE", "IN_PROGRESS", "ACTIVE", "AUTH_FAILED"}
    PROVE  Follows(k, [k EXCEPT !.login = l])
<1>. DEFINE k2 == [k EXCEPT !.login = l]
<1>1. k \in States
  BY DEF Fits
<1>3. k2 \in States
  BY <1>1 DEF States, StatesWith
<1>4. /\ k2.tree = k.tree /\ k2.loaded = k.loaded /\ k2.marks = k.marks
      /\ k2.removed = k.removed /\ k2.feedMtime = k.feedMtime
      /\ k2.excused = k.excused /\ k2.stateTimer = k.stateTimer
  BY <1>1 DEF States, StatesWith
<1>. HIDE DEF k2
<1>5. Follows(k, k2)
  BY <1>3, <1>4, BookKept
<1>. QED  BY <1>5 DEF k2

LEMMA MergeIndexFollows ==
    ASSUME NEW k, Fits(k), NEW ix, IsIndex(ix)
    PROVE  Follows(k, MergeIndex(k, ix))
<1>. DEFINE s == k.folders \union ix.folders
            k2 == [k EXCEPT !.folders = s]
<1>1. k \in States /\ s \in SUBSET Folders
  BY DEF Fits, States, StatesWith, IsIndex
<1>2. Follows(k, k2)
  BY <1>1, FoldersFollow
<1>3. MergeIndex(k, ix) = CleanedUp(k2, ix)
  BY <1>1 DEF MergeIndex, States, StatesWith
<1>. HIDE DEF k2
<1>4. Follows(k2, CleanedUp(k2, ix))
  BY <1>2, CleanedUpFollows DEF Follows
<1>. QED  BY <1>2, <1>3, <1>4, FollowsTransitive

LEMMA ImportedFollows ==
    ASSUME NEW k, Fits(k), NEW ix, IsIndex(ix)
    PROVE  Follows(k, Imported(k, ix))
<1>. DEFINE init == k.initial \ (DOMAIN ix.feeds \intersect Local(k))
            miss == init \intersect FeedsIn(k, Top)
            k2 == Imported(k, ix)
<1>1. k \in States /\ init \subseteq Feeds /\ miss \subseteq Feeds /\ ix.folders \subseteq Folders
  BY DEF Fits, States, StatesWith, IsIndex
<1>2. k2 = [k EXCEPT !.folders = k.folders \union ix.folders, !.initial = init,
                     !.feedTimer = k.feedTimer \union miss,
                     !.stateTimer = k.stateTimer \union miss]
  BY <1>1 DEF Imported, States, StatesWith
<1>. HIDE DEF k2, init, miss
<1>3. k2 \in States
  BY <1>1, <1>2 DEF States, StatesWith
<1>4. /\ k2.tree = k.tree /\ k2.loaded = k.loaded /\ k2.marks = k.marks
      /\ k2.removed = k.removed /\ k2.feedMtime = k.feedMtime
      /\ k2.excused = k.excused /\ k.stateTimer \subseteq k2.stateTimer
  BY <1>1, <1>2 DEF States, StatesWith
<1>5. Follows(k, k2)
  BY <1>3, <1>4, BookKept
<1>. QED  BY <1>5 DEF k2

-----------------------------------------------------------------------------
(* The steps of users and what the answers change. *)

LEMMA ItemChangedFollows ==
    ASSUME NEW k, Fits(k), NEW f \in k.loaded, NEW s \in SUBSET Items
    PROVE  Follows(k, NodeUpdated([k EXCEPT !.marks[f] = s], f))
<1>. DEFINE m == [k EXCEPT !.marks[f] = s]
            k2 == NodeUpdated(m, f)
<1>1. k \in States /\ f \in Feeds
  BY DEF Fits, States, StatesWith
<1>2. /\ m \in States /\ m.tree = k.tree /\ m.loaded = k.loaded /\ m.removed = k.removed
      /\ m.feedMtime = k.feedMtime /\ m.stateTimer = k.stateTimer /\ m.excused = k.excused
      /\ m.marks = [k.marks EXCEPT ![f] = s]
  BY <1>1 DEF States, StatesWith
<1>3. k.marks \in [Feeds -> SUBSET Items]
  BY <1>1 DEF States, StatesWith
<1>4. Local(m) = Local(k) /\ Here(m) = Here(k)
  BY <1>2 DEF Local, Here
<1>5. Fits(m)
  BY <1>2, <1>3, <1>4 DEF Fits
<1>6. /\ k2.marks = m.marks /\ k2.excused = m.excused /\ k2.stateTimer = m.stateTimer \union {f}
  BY <1>2 DEF NodeUpdated, MarkFeedDirty, MarkItemsDirty, States, StatesWith
<1>7. Follows(m, k2)
  BY <1>1, <1>5, NodeUpdatedFollows
<1>. HIDE DEF m, k2
<1>8. ASSUME NEW g \in Feeds, NEW i \in k2.marks[g], Due(k2, g)
      PROVE  Due(k, g) /\ i \in k.marks[g]
  BY <1>2, <1>3, <1>6, <1>8 DEF Due
<1>9. Follows(k, k2)
  BY <1>4, <1>7, <1>8 DEF Follows
<1>. QED  BY <1>9 DEF k2, m

LEMMA PlacedFollows ==
    ASSUME NEW k, Fits(k), NEW f \in Feeds, NEW place \in Places, NEW t \in [Feeds -> Times],
           \A g \in Feeds \ {f} : t[g] = k.feedMtime[g]
    PROVE  /\ Follows(k, [k EXCEPT !.tree[f] = place, !.feedMtime = t])
           /\ f \in Local([k EXCEPT !.tree[f] = place, !.feedMtime = t])
<1>. DEFINE k2 == [k EXCEPT !.tree[f] = place, !.feedMtime = t]
<1>1. k \in States /\ place # Absent
  BY WebDAVSyncAssumption DEF Fits, Places
<1>2. /\ k2 \in States /\ k2.tree = [k.tree EXCEPT ![f] = place] /\ k2.loaded = k.loaded
      /\ k2.removed = k.removed /\ k2.feedMtime = t /\ k2.marks = k.marks
      /\ k2.stateTimer = k.stateTimer /\ k2.excused = k.excused
  BY <1>1 DEF States, StatesWith
<1>3. k.tree \in [Feeds -> Places \union {Absent}]
  BY <1>1 DEF States, StatesWith
<1>. HIDE DEF k2
<1>4. Local(k2) = Local(k) \union {f}
  BY <1>1, <1>2, <1>3 DEF Local
<1>5. Here(k) \subseteq Here(k2)
  BY <1>2, <1>4 DEF Here
<1>6. \A g \in Feeds : k2.feedMtime[g] > 0 => g \in Local(k2) \union k2.removed
  BY <1>2, <1>4 DEF Fits
<1>7. Fits(k2)
  BY <1>2, <1>4, <1>6 DEF Fits
<1>8. Follows(k, k2) /\ f \in Local(k2)
  BY <1>2, <1>4, <1>5, <1>7 DEF Follows, Due
<1>. QED  BY <1>8 DEF k2

LEMMA TreeFollows ==
    ASSUME NEW k, Fits(k), NEW f \in Feeds, NEW place \in Places
    PROVE  Follows(k, [k EXCEPT !.tree[f] = place])
<1>1. k \in States /\ k.feedMtime \in [Feeds -> Times]
  BY DEF Fits, States, StatesWith
<1>2. [k EXCEPT !.tree[f] = place] = [k EXCEPT !.tree[f] = place, !.feedMtime = k.feedMtime]
  BY <1>1 DEF States, StatesWith
<1>3. Follows(k, [k EXCEPT !.tree[f] = place, !.feedMtime = k.feedMtime])
  BY <1>1, PlacedFollows
<1>. QED  BY <1>2, <1>3

LEMMA RemoveNodeFollows ==
    ASSUME NEW k, Fits(k), NEW f \in Feeds
    PROVE  Follows(k, [k EXCEPT !.tree[f] = Absent, !.loaded = k.loaded \ {f},
                                !.marks[f] = {}, !.removed = k.removed \union {f}])
<1>. DEFINE k2 == [k EXCEPT !.tree[f] = Absent, !.loaded = k.loaded \ {f},
                            !.marks[f] = {}, !.removed = k.removed \union {f}]
<1>1. k \in States
  BY DEF Fits
<1>2. /\ k2 \in States /\ k2.tree = [k.tree EXCEPT ![f] = Absent] /\ k2.loaded = k.loaded \ {f}
      /\ k2.removed = k.removed \union {f} /\ k2.feedMtime = k.feedMtime
      /\ k2.marks = [k.marks EXCEPT ![f] = {}]
      /\ k2.stateTimer = k.stateTimer /\ k2.excused = k.excused
  BY <1>1 DEF States, StatesWith
<1>3. k.tree \in [Feeds -> Places \union {Absent}] /\ k.marks \in [Feeds -> SUBSET Items]
  BY <1>1 DEF States, StatesWith
<1>. HIDE DEF k2
<1>4. Local(k2) = Local(k) \ {f}
  BY <1>2, <1>3 DEF Local
<1>5. Here(k) \subseteq Here(k2)
  BY <1>2, <1>4 DEF Here
<1>6. \A g \in Feeds : k2.feedMtime[g] > 0 => g \in Local(k2) \union k2.removed
  BY <1>2, <1>4 DEF Fits
<1>7. Fits(k2)
  BY <1>2, <1>3, <1>4, <1>6 DEF Fits
<1>8. Follows(k, k2)
  BY <1>2, <1>3, <1>5, <1>7 DEF Follows, Due
<1>. QED  BY <1>8 DEF k2

LEMMA DownloadFollows ==
    ASSUME NEW k, Fits(k), NEW f \in Local(k)
    PROVE  Follows(k, [k EXCEPT !.loaded = k.loaded \union {f}])
<1>. DEFINE k2 == [k EXCEPT !.loaded = k.loaded \union {f}]
<1>1. k \in States /\ f \in Feeds
  BY DEF Fits, Local
<1>2. /\ k2 \in States /\ k2.tree = k.tree /\ k2.loaded = k.loaded \union {f}
      /\ k2.removed = k.removed /\ k2.feedMtime = k.feedMtime /\ k2.marks = k.marks
      /\ k2.stateTimer = k.stateTimer /\ k2.excused = k.excused
  BY <1>1 DEF States, StatesWith
<1>. HIDE DEF k2
<1>4. Local(k2) = Local(k) /\ Here(k2) = Here(k)
  BY <1>2 DEF Local, Here
<1>7. Fits(k2)
  BY <1>2, <1>4 DEF Fits
<1>8. Follows(k, k2)
  BY <1>2, <1>4, <1>7 DEF Follows, Due
<1>. QED  BY <1>8 DEF k2

\* What an answer to a request for a feed's node does.
LEMMA FeedMergedFollows ==
    ASSUME NEW k, Fits(k), NEW j, GetOK(j), NEW place \in Places
    PROVE  Follows(k, FeedMerged(k, j, place)) /\ j.feed \in Local(FeedMerged(k, j, place))
<1>. DEFINE f == j.feed
            t == [k.feedMtime EXCEPT ![f] = j.mtime]
            placed == [k EXCEPT !.tree[f] = place, !.feedMtime = t]
<1>1. k \in States /\ f \in Feeds /\ j.mtime \in Times /\ k.feedMtime \in [Feeds -> Times]
  BY DEF Fits, GetOK, States, StatesWith
<1>2. t \in [Feeds -> Times] /\ \A g \in Feeds \ {f} : t[g] = k.feedMtime[g]
  BY <1>1
<1>3. [k EXCEPT !.tree[f] = place, !.feedMtime[f] = j.mtime] = placed
  BY <1>1 DEF States, StatesWith
<1>. HIDE DEF f, t
<1>4. Follows(k, placed) /\ f \in Local(placed)
  BY <1>1, <1>2, PlacedFollows
<1>5. FeedMerged(k, j, place) \in {placed, NodeUpdated(placed, f)}
  BY <1>3 DEF FeedMerged, f
<1>. HIDE DEF placed
<1>6. Follows(placed, NodeUpdated(placed, f)) /\ NodeUpdated(placed, f).tree = placed.tree
  BY <1>1, <1>4, NodeUpdatedFollows DEF Follows
<1>7. Follows(k, NodeUpdated(placed, f)) /\ f \in Local(NodeUpdated(placed, f))
  BY <1>4, <1>6, FollowsTransitive DEF Local
<1>. QED  BY <1>4, <1>5, <1>7 DEF f

LEMMA StateMergedFollows ==
    ASSUME NEW k, Fits(k), NEW j, GetOK(j), j.result.status = "ok"
    PROVE  Follows(k, StateMerged(k, j)) /\ StateMerged(k, j).tree = k.tree
                                        /\ StateMerged(k, j).folders = k.folders
<1>. DEFINE f == j.feed
            new == IF f \in k.loaded THEN j.result.body \ k.marks[f] ELSE {}
            m == [k EXCEPT !.marks[f] = k.marks[f] \union new, !.stateMtime[f] = j.mtime]
            k2 == NodeUpdated(m, f)
<1>1. k \in States /\ f \in Feeds /\ j.mtime \in Times /\ j.result.body \subseteq Items
  BY DEF Fits, GetOK, Waiting, NotFound
<1>2. k.marks \in [Feeds -> SUBSET Items]
  BY <1>1 DEF States, StatesWith
<1>3. new \subseteq Items /\ (new # {} => f \in k.loaded)
  BY <1>1
<1>4. StateMerged(k, j) = IF new = {} THEN m ELSE k2
  BY <1>1 DEF StateMerged, States, StatesWith
<1>. HIDE DEF f, new
<1>5. /\ m \in States /\ m.tree = k.tree /\ m.loaded = k.loaded /\ m.removed = k.removed
      /\ m.feedMtime = k.feedMtime /\ m.stateTimer = k.stateTimer /\ m.excused = k.excused
      /\ m.marks = [k.marks EXCEPT ![f] = k.marks[f] \union new] /\ m.folders = k.folders
  BY <1>1, <1>2, <1>3 DEF States, StatesWith
<1>6. Local(m) = Local(k) /\ Here(m) = Here(k)
  BY <1>5 DEF Local, Here
<1>7. Fits(m)
  BY <1>2, <1>3, <1>5, <1>6 DEF Fits
<1>8. CASE new = {}
  <2>1. StateMerged(k, j) = m
    BY <1>4, <1>8
  <2>. HIDE DEF m
  <2>2. Follows(k, m)
    BY <1>2, <1>5, <1>6, <1>7, <1>8 DEF Follows, Due
  <2>. QED  BY <1>5, <2>1, <2>2
<1>9. CASE new # {}
  <2>1. StateMerged(k, j) = k2
    BY <1>4, <1>9
  <2>2. k2.marks = m.marks /\ k2.excused = m.excused /\ k2.stateTimer = m.stateTimer \union {f}
    BY <1>5 DEF NodeUpdated, MarkFeedDirty, MarkItemsDirty, States, StatesWith
  <2>3. Follows(m, k2) /\ k2.tree = m.tree /\ k2.folders = m.folders
    BY <1>1, <1>7, NodeUpdatedFollows
  <2>. HIDE DEF m, k2
  <2>4. ASSUME NEW g \in Feeds, NEW i \in k2.marks[g], Due(k2, g)
        PROVE  Due(k, g) /\ i \in k.marks[g]
    BY <1>2, <1>5, <2>2, <2>4 DEF Due
  <2>5. Follows(k, k2)
    BY <1>6, <2>3, <2>4 DEF Follows
  <2>. QED  BY <1>5, <2>1, <2>3, <2>5
<1>. QED  BY <1>8, <1>9

\* A start keeps the tree and the marks and schedules all uploads.
LEMMA StartedFits ==
    ASSUME NEW T, NEW k \in StatesWith(T), k.loaded \subseteq Local(k),
           \A f \in Feeds : k.marks[f] # {} => f \in k.loaded
    PROVE  /\ Fits(Started(k))
           /\ Started(k).tree = k.tree /\ Started(k).removed = k.removed
           /\ Started(k).loaded = k.loaded /\ Started(k).folders = k.folders
           /\ Started(k).marks = k.marks /\ Started(k).stateTimer = k.loaded
<1>. DEFINE zero == [f \in Feeds |-> 0]
            r == Restarted(k)
            k2 == Started(k)
<1>1. Local(k) \subseteq Feeds
  BY DEF Local
<1>2. zero \in [Feeds -> Times] /\ \A f \in Feeds : ~(zero[f] > 0)
  BY WebDAVSyncAssumption DEF Times
<1>3. r = [k EXCEPT !.login = "NONE", !.initial = Local(k), !.feedTimer = {}, !.stateTimer = {},
                    !.feedMtime = zero, !.stateMtime = zero]
  BY DEF Restarted
<1>. HIDE DEF zero, r
<1>4. /\ r \in StatesWith([Feeds -> Times])
      /\ r.tree = k.tree /\ r.removed = k.removed /\ r.loaded = k.loaded
      /\ r.folders = k.folders /\ r.marks = k.marks /\ r.feedMtime = zero
  BY <1>1, <1>2, <1>3 DEF StatesWith
<1>5. k2 = [r EXCEPT !.feedTimer = k.loaded, !.stateTimer = k.loaded]
  BY DEF Started, r
<1>6. k.loaded \subseteq Feeds
  BY DEF StatesWith
<1>. HIDE DEF k2
<1>7. /\ k2 \in States
      /\ k2.tree = k.tree /\ k2.removed = k.removed /\ k2.loaded = k.loaded
      /\ k2.folders = k.folders /\ k2.marks = k.marks /\ k2.feedMtime = zero
      /\ k2.stateTimer = k.loaded
  BY <1>4, <1>5, <1>6 DEF StatesWith, States
<1>8. Local(k2) = Local(k)
  BY <1>7 DEF Local
<1>9. Fits(k2)
  BY <1>2, <1>7, <1>8 DEF Fits
<1>. QED  BY <1>7, <1>9 DEF k2

-----------------------------------------------------------------------------
(* Requests. *)

LEMMA JobStays ==
    ASSUME NEW j, NEW nodes, NEW more, JobOK(j, nodes), nodes \subseteq more
    PROVE  JobOK(j, more)
BY DEF JobOK, PollOK

LEMMA OpStays ==
    ASSUME NEW op, NEW nodes, NEW more, OpOK(op, nodes), nodes \subseteq more
    PROVE  OpOK(op, more)
BY DEF OpOK

LEMMA Kinds ==
    ASSUME NEW j, NEW nodes, JobOK(j, nodes)
    PROVE  /\ j.client \in Clients
           /\ j.kind = "putIndex" => PutIndexOK(j)
           /\ j.kind = "bootstrap" => BootstrapOK(j)
           /\ j.kind = "poll" => PollOK(j, nodes)
           /\ j.kind = "upload" => UploadOK(j)
           /\ j.kind \in {"getFeed", "getState"} => GetOK(j)
BY DEF JobOK, PutIndexOK, BootstrapOK, PollOK, UploadOK, GetOK

LEMMA IndexWritten ==
    ASSUME NEW c \in Clients, NEW k, Fits(k), NEW nodes
    PROVE  /\ IsIndex(IndexOf(k))
           /\ JobOK(PutIndex(c, k), nodes)
           /\ PutIndex(c, k).kind = "putIndex" /\ PutIndex(c, k).client = c
<1>1. k \in States /\ Local(k) \subseteq Feeds
  BY DEF Fits, Local
<1>2. \A f \in Local(k) :
        [parent |-> k.tree[f], feedMtime |-> k.feedMtime[f], stateMtime |-> k.stateMtime[f]]
            \in Entries
  BY <1>1 DEF States, StatesWith, Local, Entries
<1>3. k.folders \subseteq Folders
  BY <1>1 DEF States, StatesWith
<1>4. IsIndex(IndexOf(k))
  BY <1>1, <1>2, <1>3 DEF IsIndex, IndexOf
<1>. QED  BY <1>4 DEF PutIndex, JobOK, PutIndexOK

LEMMA FolderUpdatedOK ==
    ASSUME NEW c \in Clients, NEW k, Fits(k), NEW nodes, NEW f, NEW j \in FolderUpdated(c, k, f)
    PROVE  JobOK(j, nodes) /\ j.kind = "putIndex" /\ j.client = c
BY IndexWritten DEF FolderUpdated

LEMMA StartJobsOK ==
    ASSUME NEW c \in Clients, NEW k, Fits(Started(k)), NEW nodes, NEW j \in StartJobs(c, k)
    PROVE  JobOK(j, nodes) /\ j.kind = "putIndex" /\ j.client = c
BY FolderUpdatedOK DEF StartJobs

-----------------------------------------------------------------------------
(* What a step has to show. *)

Minor == {"putIndex", "bootstrap", "poll"}

Gets == {"getFeed", "getState"}

\* The two requests ask for the same.
SameGet(j, j2) == j2.client = j.client /\ j2.kind = j.kind /\ j2.op = j.op /\ j2.feed = j.feed

\* NothingMissing of a step.
MergesComplete ==
    \A c \in Clients : \A n \in DOMAIN ops[c] :
        (n \notin DOMAIN ops'[c] /\ budget' = budget /\ ~ops[c][n].error)
        => DOMAIN ops[c][n].index.feeds \intersect ops[c][n].known \subseteq Here(client'[c])

StepOK == IInv' /\ MergesComplete

LEMMA ClientStep ==
    ASSUME Typed, NEW c \in Clients, NEW k, Follows(client[c], k),
           client' = [client EXCEPT ![c] = k]
    PROVE  /\ client' \in [Clients -> States]
           /\ \A x \in Clients : Fits(client'[x]) /\ Follows(client[x], client'[x])
<1>1. k \in States
  BY DEF Follows, Fits
<1>2. \A x \in Clients : client'[x] = IF x = c THEN k ELSE client[x]
  BY DEF Typed
<1>3. \A x \in Clients : Follows(client[x], client[x])
  BY FollowsItself DEF Typed
<1>. QED  BY <1>1, <1>2, <1>3 DEF Typed, Follows

LEMMA NoClientStep ==
    ASSUME Typed, client' = client
    PROVE  /\ client' \in [Clients -> States]
           /\ \A x \in Clients : Fits(client'[x]) /\ Follows(client[x], client'[x])
BY FollowsItself DEF Typed

LEMMA TypedKept ==
    ASSUME Typed, client' \in [Clients -> States], \A c \in Clients : Fits(client'[c]),
           \A j \in jobs' : j \in jobs \/ JobOK(j, server'.nodes),
           ServerOK(server'), server.nodes \subseteq server'.nodes,
           clock' \in Times, budget' \in [{"events", "polls", "restarts"} -> Nat],
           UNCHANGED ops
    PROVE  Typed'
<1>1. \A j \in jobs' : JobOK(j, server'.nodes)
  BY JobStays DEF Typed
<1>2. \A c \in Clients : \A n \in DOMAIN ops[c] : OpOK(ops[c][n], server'.nodes)
  BY OpStays DEF Typed
<1>. QED  BY <1>1, <1>2 DEF Typed

LEMMA UploadsKept ==
    ASSUME Typed, UploadsComplete, MarksDone,
           \A c \in Clients : Follows(client[c], client'[c]),
           StateUploads(jobs') = StateUploads(jobs),
           server'.state = server.state, server'.writer = server.writer
    PROVE  UploadsComplete' /\ MarksDone'
<1>1. \A j \in StateUploads(jobs) : j.client \in Clients /\ j.feed \in Feeds
  <2>1. ASSUME NEW j \in StateUploads(jobs)  PROVE j.client \in Clients /\ UploadOK(j)
    BY Kinds DEF Typed, StateUploads
  <2>. QED  BY <2>1 DEF UploadOK
<1>2. UploadsComplete'
  <2>. SUFFICES ASSUME NEW j \in StateUploads(jobs), Due(client'[j.client], j.feed),
                       NEW i \in client'[j.client].marks[j.feed]
       PROVE  i \in j.body
    BY DEF UploadsComplete, Due
  <2>1. Due(client[j.client], j.feed) /\ i \in client[j.client].marks[j.feed]
    BY <1>1 DEF Follows
  <2>. QED  BY <2>1 DEF UploadsComplete
<1>3. MarksDone'
  <2>. SUFFICES ASSUME NEW c \in Clients, NEW f \in Feeds, Due(client'[c], f),
                       NEW i \in client'[c].marks[f]
       PROVE  Uploaded(c, f, i)'
    BY DEF MarksDone, Due
  <2>1. Due(client[c], f) /\ i \in client[c].marks[f]
    BY DEF Follows
  <2>2. Uploaded(c, f, i)
    BY <2>1 DEF MarksDone
  <2>. QED  BY <2>2 DEF Uploaded
<1>. QED  BY <1>2, <1>3

LEMMA MergesKept ==
    ASSUME Typed, Funded, Covered, UNCHANGED ops,
           \A c \in Clients : Here(client[c]) \subseteq Here(client'[c]),
           \A j \in jobs : j.kind \in Gets => \E j2 \in jobs' : SameGet(j, j2),
           \A j \in jobs' : j.kind \in Gets => \E j2 \in jobs : SameGet(j, j2)
    PROVE  Funded' /\ Covered' /\ MergesComplete
<1>1. ASSUME NEW c \in Clients, NEW n, NEW j \in JobsOfOp(c, n)
      PROVE  \E j2 \in JobsOfOp(c, n)' : SameGet(j, j2)
  <2>1. j \in jobs /\ j.kind \in Gets /\ j.client = c /\ j.op = n
    BY DEF JobsOfOp, JobsOf, Gets
  <2>2. PICK j2 \in jobs' : SameGet(j, j2)
    BY <2>1
  <2>. QED  BY <2>1, <2>2 DEF JobsOfOp, JobsOf, Gets, SameGet
<1>2. ASSUME NEW c \in Clients, NEW n, NEW j \in JobsOfOp(c, n)'
      PROVE  JobsOfOp(c, n) # {}
  <2>1. j \in jobs' /\ j.kind \in Gets /\ j.client = c /\ j.op = n
    BY DEF JobsOfOp, JobsOf, Gets
  <2>2. PICK j2 \in jobs : SameGet(j, j2)
    BY <2>1
  <2>. QED  BY <2>1, <2>2 DEF JobsOfOp, JobsOf, Gets, SameGet
<1>3. Funded'
  <2>. SUFFICES ASSUME NEW c \in Clients, NEW n
       PROVE  n \in DOMAIN ops[c] <=> JobsOfOp(c, n)' # {}
    BY DEF Funded
  <2>1. n \in DOMAIN ops[c] <=> JobsOfOp(c, n) # {}
    BY DEF Funded
  <2>. QED  BY <1>1, <1>2, <2>1
<1>4. Covered'
  <2>. SUFFICES ASSUME NEW c \in Clients, NEW n \in DOMAIN ops[c], ~ops[c][n].error,
                       NEW f \in DOMAIN ops[c][n].index.feeds \intersect ops[c][n].known
       PROVE  \/ f \in Here(client'[c])
              \/ \E j \in JobsOfOp(c, n)' : j.kind = "getFeed" /\ j.feed = f
    BY DEF Covered, Here, Local
  <2>1. \/ f \in Here(client[c])
        \/ \E j \in JobsOfOp(c, n) : j.kind = "getFeed" /\ j.feed = f
    BY DEF Covered
  <2>2. CASE f \in Here(client[c])
    BY <2>2
  <2>3. ASSUME NEW j \in JobsOfOp(c, n), j.kind = "getFeed", j.feed = f
        PROVE  \E j2 \in JobsOfOp(c, n)' : j2.kind = "getFeed" /\ j2.feed = f
    BY <1>1, <2>3 DEF SameGet
  <2>. QED  BY <2>1, <2>2, <2>3
<1>5. MergesComplete
  BY DEF MergesComplete
<1>. QED  BY <1>3, <1>4, <1>5

\* A step in which no upload, merge or file of the server takes part.
LEMMA MinorStep ==
    ASSUME IInv, client' \in [Clients -> States],
           \A c \in Clients : Fits(client'[c]) /\ Follows(client[c], client'[c]),
           \A j \in jobs' : j \in jobs \/ (JobOK(j, server'.nodes) /\ j.kind \in Minor),
           \A j \in jobs : j \in jobs' \/ j.kind \in Minor,
           ServerOK(server'), server.nodes \subseteq server'.nodes,
           server'.state = server.state, server'.writer = server.writer,
           clock' \in Times, budget' \in [{"events", "polls", "restarts"} -> Nat],
           UNCHANGED ops
    PROVE  StepOK
<1>1. Typed'
  BY TypedKept DEF IInv
<1>2. UploadsComplete' /\ MarksDone'
  <2>1. StateUploads(jobs') = StateUploads(jobs)
    BY DEF StateUploads, Minor
  <2>. QED  BY <2>1, UploadsKept DEF IInv
<1>3. Funded' /\ Covered' /\ MergesComplete
  <2>1. \A c \in Clients : Here(client[c]) \subseteq Here(client'[c])
    BY DEF Follows
  <2>2. \A j \in jobs : j.kind \in Gets => \E j2 \in jobs' : SameGet(j, j2)
    BY DEF Gets, Minor, SameGet
  <2>3. \A j \in jobs' : j.kind \in Gets => \E j2 \in jobs : SameGet(j, j2)
    BY DEF Gets, Minor, SameGet
  <2>. QED  BY <2>1, <2>2, <2>3, MergesKept DEF IInv
<1>. QED  BY <1>1, <1>2, <1>3 DEF StepOK, IInv

-----------------------------------------------------------------------------
(* The steps of users and of the client's timers. *)

Budgets == [{"events", "polls", "restarts"} -> Nat]

LEMMA Spent ==
    ASSUME Typed, NEW what \in {"events", "polls", "restarts"}, Spend(what)
    PROVE  budget' \in Budgets /\ budget' # budget
<1>1. budget \in Budgets /\ budget[what] \in Nat /\ budget[what] > 0
  BY DEF Typed, Budgets, Spend
<1>2. budget' = [budget EXCEPT ![what] = budget[what] - 1]
  BY DEF Spend
<1>3. budget'[what] = budget[what] - 1 /\ budget' \in Budgets
  BY <1>1, <1>2 DEF Budgets
<1>4. budget'[what] # budget[what]
  BY <1>1, <1>3
<1>. QED  BY <1>3, <1>4

\* A MinorStep that changes client c and adds requests of minor kinds.
LEMMA ClientAndJobs ==
    ASSUME IInv, NEW c \in Clients, NEW k, Follows(client[c], k),
           client' = [client EXCEPT ![c] = k],
           NEW new, jobs' = jobs \union new,
           \A j \in new : JobOK(j, server.nodes) /\ j.kind \in Minor,
           UNCHANGED <<ops, server, clock>>, budget' \in Budgets
    PROVE  StepOK
<1>1. /\ client' \in [Clients -> States]
      /\ \A x \in Clients : Fits(client'[x]) /\ Follows(client[x], client'[x])
  BY ClientStep DEF IInv
<1>2. ServerOK(server') /\ clock' \in Times /\ server.nodes \subseteq server'.nodes
  BY DEF IInv, Typed
<1>3. budget' \in [{"events", "polls", "restarts"} -> Nat]
  BY DEF Budgets
<1>. QED  BY <1>1, <1>2, <1>3, MinorStep

LEMMA ItemChangedStep ==
    ASSUME IInv, NEW c \in Clients, NEW f \in Feeds, NEW i \in Items, ItemChanged(c, f, i)
    PROVE  StepOK
<1>. DEFINE k == client[c]
            s == IF i \in k.marks[f] THEN k.marks[f] \ {i} ELSE k.marks[f] \union {i}
            m == [k EXCEPT !.marks[f] = s]
<1>1. Typed /\ Fits(k) /\ k \in States /\ f \in k.loaded
  BY DEF IInv, Typed, ItemChanged
<1>2. s \in SUBSET Items
  BY <1>1 DEF States, StatesWith
<1>3. [k EXCEPT !.marks[f] = IF i \in @ THEN @ \ {i} ELSE @ \union {i}] = m
  BY <1>1 DEF States, StatesWith
<1>4. /\ client' = [client EXCEPT ![c] = NodeUpdated(m, f)]
      /\ jobs' = jobs \union FolderUpdated(c, k, f) /\ Spend("events")
      /\ UNCHANGED <<ops, server, clock>>
  BY <1>3 DEF ItemChanged
<1>. HIDE DEF s
<1>5. Follows(k, NodeUpdated(m, f))
  BY <1>1, <1>2, ItemChangedFollows
<1>6. budget' \in Budgets
  BY <1>1, <1>4, Spent
<1>7. \A j \in FolderUpdated(c, k, f) : JobOK(j, server.nodes) /\ j.kind \in Minor
  BY <1>1, FolderUpdatedOK DEF Minor
<1>. QED  BY <1>4, <1>5, <1>6, <1>7, ClientAndJobs

LEMMA AddSubscriptionStep ==
    ASSUME IInv, NEW c \in Clients, NEW f \in Feeds, NEW place \in Places,
           AddSubscription(c, f, place)
    PROVE  StepOK
<1>. DEFINE k == [client[c] EXCEPT !.tree[f] = place]
<1>1. Typed /\ Fits(client[c])
  BY DEF IInv, Typed
<1>2. /\ client' = [client EXCEPT ![c] = NodeUpdated(k, f)]
      /\ jobs' = jobs \union {PutIndex(c, k)} /\ Spend("events")
      /\ UNCHANGED <<ops, server, clock>>
  BY DEF AddSubscription
<1>3. Follows(client[c], k)
  BY <1>1, TreeFollows
<1>. HIDE DEF k
<1>4. Fits(k) /\ Follows(k, NodeUpdated(k, f))
  BY <1>3, NodeUpdatedFollows DEF Follows
<1>5. Follows(client[c], NodeUpdated(k, f))
  BY <1>3, <1>4, FollowsTransitive
<1>6. budget' \in Budgets
  BY <1>1, <1>2, Spent
<1>7. \A j \in {PutIndex(c, k)} : JobOK(j, server.nodes) /\ j.kind \in Minor
  BY <1>4, IndexWritten DEF Minor
<1>. DEFINE more == {PutIndex(c, k)}
<1>8. jobs' = jobs \union more /\ \A j \in more : JobOK(j, server.nodes) /\ j.kind \in Minor
  BY <1>2, <1>7
<1>. HIDE DEF more
<1>. QED  BY <1>2, <1>5, <1>6, <1>8, ClientAndJobs

LEMMA AddFolderStep ==
    ASSUME IInv, NEW c \in Clients, NEW d \in Folders, AddFolder(c, d)
    PROVE  StepOK
<1>. DEFINE s == client[c].folders \union {d}
            k == [client[c] EXCEPT !.folders = s]
<1>1. Typed /\ Fits(client[c]) /\ client[c] \in States
  BY DEF IInv, Typed
<1>2. [client[c] EXCEPT !.folders = @ \union {d}] = k /\ s \in SUBSET Folders
  BY <1>1 DEF States, StatesWith
<1>3. /\ client' = [client EXCEPT ![c] = k]
      /\ jobs' = jobs \union {PutIndex(c, k)} /\ Spend("events")
      /\ UNCHANGED <<ops, server, clock>>
  BY <1>2 DEF AddFolder
<1>4. Follows(client[c], k)
  BY <1>1, <1>2, FoldersFollow
<1>. HIDE DEF k
<1>6. budget' \in Budgets
  BY <1>1, <1>3, Spent
<1>7. \A j \in {PutIndex(c, k)} : JobOK(j, server.nodes) /\ j.kind \in Minor
  BY <1>4, IndexWritten DEF Minor, Follows
<1>. DEFINE more == {PutIndex(c, k)}
<1>8. jobs' = jobs \union more /\ \A j \in more : JobOK(j, server.nodes) /\ j.kind \in Minor
  BY <1>3, <1>7
<1>. HIDE DEF more
<1>. QED  BY <1>3, <1>4, <1>6, <1>8, ClientAndJobs

LEMMA RemoveNodeStep ==
    ASSUME IInv, NEW c \in Clients, NEW f \in Feeds, RemoveNode(c, f)
    PROVE  StepOK
<1>. DEFINE k == client[c]
            k2 == [k EXCEPT !.tree[f] = Absent, !.loaded = k.loaded \ {f},
                            !.marks[f] = {}, !.removed = k.removed \union {f}]
<1>1. Typed /\ Fits(k) /\ k \in States
  BY DEF IInv, Typed
<1>2. /\ client' = [client EXCEPT ![c].tree[f] = Absent, ![c].loaded = @ \ {f},
                                  ![c].marks[f] = {}, ![c].removed = @ \union {f}]
      /\ Spend("events") /\ UNCHANGED <<jobs, ops, server, clock>>
  BY DEF RemoveNode
<1>3. client' = [client EXCEPT ![c] = k2]
  BY <1>1, <1>2 DEF Typed, States, StatesWith
<1>4. Follows(k, k2)
  BY <1>1, RemoveNodeFollows
<1>. HIDE DEF k2
<1>5. budget' \in Budgets
  BY <1>1, <1>2, Spent
<1>. DEFINE more == {}
<1>6. jobs' = jobs \union more /\ \A j \in more : JobOK(j, server.nodes) /\ j.kind \in Minor
  BY <1>2
<1>. HIDE DEF more
<1>. QED  BY <1>2, <1>3, <1>4, <1>5, <1>6, ClientAndJobs

LEMMA DownloadStep ==
    ASSUME IInv, NEW c \in Clients, NEW f \in Feeds, Download(c, f)
    PROVE  StepOK
<1>. DEFINE k == [client[c] EXCEPT !.loaded = client[c].loaded \union {f}]
<1>1. Typed /\ Fits(client[c]) /\ client[c] \in States /\ f \in Local(client[c])
  BY DEF IInv, Typed, Download
<1>2. /\ client' = [client EXCEPT ![c] = NodeUpdated(k, f)]
      /\ jobs' = jobs \union FolderUpdated(c, k, f)
      /\ UNCHANGED <<ops, server, clock, budget>>
  BY <1>1 DEF Download, States, StatesWith
<1>3. Follows(client[c], k)
  BY <1>1, DownloadFollows
<1>. HIDE DEF k
<1>4. Fits(k) /\ Follows(k, NodeUpdated(k, f))
  BY <1>3, NodeUpdatedFollows DEF Follows
<1>5. Follows(client[c], NodeUpdated(k, f))
  BY <1>3, <1>4, FollowsTransitive
<1>6. budget' \in Budgets
  BY <1>1, <1>2 DEF Typed, Budgets
<1>7. \A j \in FolderUpdated(c, k, f) : JobOK(j, server.nodes) /\ j.kind \in Minor
  BY <1>4, FolderUpdatedOK DEF Minor
<1>. QED  BY <1>2, <1>5, <1>6, <1>7, ClientAndJobs

LEMMA LoginStep ==
    ASSUME IInv, NEW c \in Clients, Login(c)
    PROVE  StepOK
<1>. DEFINE k == [client[c] EXCEPT !.login = "IN_PROGRESS"]
            new == [client |-> c, kind |-> "bootstrap", step |-> "MKCOL"]
<1>1. Typed /\ Fits(client[c]) /\ client[c] \in States
  BY DEF IInv, Typed
<1>2. /\ client' = [client EXCEPT ![c] = k] /\ jobs' = jobs \union {new}
      /\ UNCHANGED <<ops, server, clock, budget>>
  BY <1>1 DEF Login, Typed
<1>3. Follows(client[c], k)
  BY <1>1, LoginFollows
<1>. HIDE DEF k
<1>6. budget' \in Budgets
  BY <1>1, <1>2 DEF Typed, Budgets
<1>7. \A j \in {new} : JobOK(j, server.nodes) /\ j.kind \in Minor
  BY DEF Minor, JobOK, BootstrapOK
<1>. DEFINE more == {new}
<1>8. jobs' = jobs \union more /\ \A j \in more : JobOK(j, server.nodes) /\ j.kind \in Minor
  BY <1>2, <1>7
<1>. HIDE DEF more
<1>. QED  BY <1>2, <1>3, <1>6, <1>8, ClientAndJobs

LEMMA PollJobOK ==
    ASSUME NEW c \in Clients, NEW s, NEW nodes, NEW j \in Polled(s, c)
    PROVE  j \in s \/ (JobOK(j, nodes) /\ j.kind \in Minor)
BY DEF Polled, PollJob, JobOK, PollOK, Minor, Waiting

LEMMA PollStep ==
    ASSUME IInv, NEW c \in Clients, Poll(c)
    PROVE  StepOK
<1>1. /\ client' = client /\ jobs' = Polled(jobs, c) /\ UNCHANGED <<ops, server, clock>>
      /\ Spend("polls") /\ Typed
  BY DEF Poll, IInv
<1>2. budget' \in [{"events", "polls", "restarts"} -> Nat]
  BY <1>1, Spent DEF Budgets
<1>3. /\ client' \in [Clients -> States]
      /\ \A x \in Clients : Fits(client'[x]) /\ Follows(client[x], client'[x])
  BY <1>1, NoClientStep
<1>4. \A j \in jobs' : j \in jobs \/ (JobOK(j, server'.nodes) /\ j.kind \in Minor)
  BY <1>1, PollJobOK
<1>5. \A j \in jobs : j \in jobs'
  BY <1>1 DEF Polled
<1>6. ServerOK(server') /\ clock' \in Times /\ server.nodes \subseteq server'.nodes
  BY <1>1 DEF Typed
<1>. QED  BY <1>1, <1>2, <1>3, <1>4, <1>5, <1>6, MinorStep

-----------------------------------------------------------------------------
(* The server, and answers to requests of minor kinds. *)

LEMMA ServeStep ==
    ASSUME IInv, NEW j \in jobs, Serve(j)
    PROVE  StepOK
<1>1. /\ Typed /\ JobOK(j, server.nodes) /\ ServerOK(server)
      /\ UNCHANGED <<client, ops, server, clock, budget>>
  BY DEF IInv, Typed, Serve
<1>2. /\ client' \in [Clients -> States]
      /\ \A x \in Clients : Fits(client'[x]) /\ Follows(client[x], client'[x])
  BY <1>1, NoClientStep
<1>3. /\ ServerOK(server') /\ server.nodes \subseteq server'.nodes
      /\ server'.state = server.state /\ server'.writer = server.writer
      /\ clock' \in Times /\ budget' \in [{"events", "polls", "restarts"} -> Nat]
  BY <1>1 DEF Typed
<1>4. CASE j.kind = "poll"
  <2>. DEFINE r == IF server.index = NoIndex THEN NotFound
                   ELSE [status |-> "ok", body |-> server.index, known |-> server.nodes]
              new == [j EXCEPT !.result = r]
  <2>1. jobs' = (jobs \ {j}) \union {new}
    BY <1>4 DEF Serve
  <2>2. PollOK(j, server.nodes)
    BY <1>1, <1>4, Kinds
  <2>3. r = NotFound \/ (r.status = "ok" /\ IsIndex(r.body) /\ r.known \subseteq server.nodes)
    BY <1>1 DEF ServerOK
  <2>. HIDE DEF r
  <2>4. /\ new.client = j.client /\ new.kind = "poll" /\ new.result = r
        /\ new = [client |-> j.client, kind |-> "poll", result |-> r]
    BY <2>2 DEF PollOK
  <2>. HIDE DEF new
  <2>5. JobOK(new, server.nodes) /\ new.kind \in Minor
    BY <1>1, <2>3, <2>4 DEF JobOK, PollOK, Minor
  <2>6. \A x \in jobs' : x \in jobs \/ (JobOK(x, server'.nodes) /\ x.kind \in Minor)
    BY <1>1, <2>1, <2>5
  <2>7. \A x \in jobs : x \in jobs' \/ x.kind \in Minor
    BY <1>4, <2>1 DEF Minor
  <2>. QED  BY <1>1, <1>2, <1>3, <2>6, <2>7, MinorStep
<1>5. CASE j.kind = "getState"
  <2>. DEFINE r == IF j.feed \notin DOMAIN server.state THEN NotFound
                   ELSE [status |-> "ok", body |-> server.state[j.feed]]
              new == [j EXCEPT !.result = r]
  <2>1. jobs' = (jobs \ {j}) \union {new}
    BY <1>5 DEF Serve
  <2>2. GetOK(j)
    BY <1>1, <1>5, Kinds
  <2>3. r = NotFound \/ (r.status = "ok" /\ r.body \subseteq Items)
    BY <1>1 DEF ServerOK
  <2>. HIDE DEF r
  <2>4. /\ new.client = j.client /\ new.kind = j.kind /\ new.feed = j.feed /\ new.op = j.op
        /\ new.parent = j.parent /\ new.mtime = j.mtime /\ new.result = r
        /\ new = [client |-> j.client, kind |-> j.kind, feed |-> j.feed, op |-> j.op,
                  parent |-> j.parent, mtime |-> j.mtime, result |-> r]
    BY <2>2 DEF GetOK
  <2>. HIDE DEF new
  <2>5. JobOK(new, server.nodes)
    BY <1>1, <1>5, <2>2, <2>3, <2>4 DEF JobOK, GetOK
  <2>6. \A x \in jobs' : x \in jobs \/ JobOK(x, server'.nodes)
    BY <1>1, <2>1, <2>5
  <2>7. Typed'
    BY <1>1, <1>2, <1>3, <2>6, TypedKept
  <2>8. UploadsComplete' /\ MarksDone'
    <3>1. StateUploads(jobs') = StateUploads(jobs)
      BY <1>5, <2>1, <2>4 DEF StateUploads
    <3>. QED  BY <1>2, <1>3, <3>1, UploadsKept DEF IInv
  <2>9. Funded' /\ Covered' /\ MergesComplete
    <3>1. SameGet(j, new) /\ SameGet(new, j) /\ \A x : SameGet(x, x)
      BY <2>4 DEF SameGet
    <3>2. \A x \in jobs : x.kind \in Gets => \E y \in jobs' : SameGet(x, y)
      BY <2>1, <3>1
    <3>3. \A x \in jobs' : x.kind \in Gets => \E y \in jobs : SameGet(x, y)
      BY <2>1, <3>1
    <3>4. \A c \in Clients : Here(client[c]) \subseteq Here(client'[c])
      BY <1>2 DEF Follows
    <3>. QED  BY <1>1, <3>2, <3>3, <3>4, MergesKept DEF IInv
  <2>. QED  BY <2>7, <2>8, <2>9 DEF StepOK, IInv
<1>. QED  BY <1>4, <1>5 DEF Serve

LEMMA IndexPutStep ==
    ASSUME IInv, NEW j \in jobs, IndexPut(j)
    PROVE  StepOK
<1>1. /\ Typed /\ JobOK(j, server.nodes) /\ ServerOK(server) /\ PutIndexOK(j)
      /\ UNCHANGED <<client, ops, clock>> /\ jobs' = jobs \ {j} /\ j.kind = "putIndex"
  BY Kinds DEF IInv, Typed, IndexPut
<1>2. /\ client' \in [Clients -> States]
      /\ \A x \in Clients : Fits(client'[x]) /\ Follows(client[x], client'[x])
  BY <1>1, NoClientStep
<1>3. server' = server \/ server' = [server EXCEPT !.index = j.body]
  BY DEF IndexPut
<1>4. /\ ServerOK(server') /\ server.nodes \subseteq server'.nodes
      /\ server'.state = server.state /\ server'.writer = server.writer
  BY <1>1, <1>3 DEF ServerOK, PutIndexOK
<1>5. budget' \in [{"events", "polls", "restarts"} -> Nat]
  BY <1>1, Spent DEF IndexPut, Works, Fails, Budgets, Typed
<1>6. clock' \in Times
  BY <1>1 DEF Typed
<1>7. \A x \in jobs' : x \in jobs
  BY <1>1
<1>8. \A x \in jobs : x \in jobs' \/ x.kind \in Minor
  BY <1>1 DEF Minor
<1>. QED  BY <1>1, <1>2, <1>4, <1>5, <1>6, <1>7, <1>8, MinorStep

\* A job of a minor kind ends, with what it does to its client and the jobs it adds.
LEMMA MinorJobDone ==
    ASSUME IInv, NEW j \in jobs, j.kind \in Minor,
           client' \in [Clients -> States],
           \A c \in Clients : Fits(client'[c]) /\ Follows(client[c], client'[c]),
           \A x \in jobs' : x \in jobs \/ (JobOK(x, server.nodes) /\ x.kind \in Minor),
           \A x \in jobs \ {j} : x \in jobs',
           UNCHANGED <<ops, server, clock>>, budget' \in Budgets
    PROVE  StepOK
<1>1. /\ ServerOK(server') /\ server.nodes \subseteq server'.nodes
      /\ server'.state = server.state /\ server'.writer = server.writer
      /\ clock' \in Times /\ budget' \in [{"events", "polls", "restarts"} -> Nat]
  BY DEF IInv, Typed, Budgets
<1>2. \A x \in jobs' : x \in jobs \/ (JobOK(x, server'.nodes) /\ x.kind \in Minor)
  OBVIOUS
<1>3. \A x \in jobs : x \in jobs' \/ x.kind \in Minor
  OBVIOUS
<1>. QED  BY <1>1, <1>2, <1>3, MinorStep

LEMMA BootstrapMkcolStep ==
    ASSUME IInv, NEW j \in jobs, BootstrapMkcol(j)
    PROVE  StepOK
<1>. DEFINE new == [j EXCEPT !.step = "GET_INDEX"]
<1>1. /\ Typed /\ ServerOK(server) /\ BootstrapOK(j) /\ j.kind = "bootstrap"
      /\ UNCHANGED <<client, ops, clock, budget>> /\ jobs' = (jobs \ {j}) \union {new}
      /\ server' = [server EXCEPT !.collection = TRUE]
  BY Kinds DEF IInv, Typed, BootstrapMkcol
<1>2. /\ client' \in [Clients -> States]
      /\ \A x \in Clients : Fits(client'[x]) /\ Follows(client[x], client'[x])
  BY <1>1, NoClientStep
<1>3. new.client \in Clients /\ new.kind = "bootstrap" /\ BootstrapOK(new)
  BY <1>1 DEF BootstrapOK
<1>. HIDE DEF new
<1>4. /\ ServerOK(server') /\ server.nodes \subseteq server'.nodes
      /\ server'.state = server.state /\ server'.writer = server.writer
  BY <1>1 DEF ServerOK
<1>5. clock' \in Times /\ budget' \in [{"events", "polls", "restarts"} -> Nat]
  BY <1>1 DEF Typed
<1>6. \A x \in jobs' : x \in jobs \/ (JobOK(x, server'.nodes) /\ x.kind \in Minor)
  BY <1>1, <1>3 DEF JobOK, Minor
<1>7. \A x \in jobs : x \in jobs' \/ x.kind \in Minor
  BY <1>1 DEF Minor
<1>. QED  BY <1>1, <1>2, <1>4, <1>5, <1>6, <1>7, MinorStep

LEMMA BootstrapIndexStep ==
    ASSUME IInv, NEW j \in jobs, BootstrapIndex(j)
    PROVE  StepOK
<1>. DEFINE c == j.client
<1>1. /\ Typed /\ ServerOK(server) /\ j.kind = "bootstrap" /\ c \in Clients
      /\ UNCHANGED <<ops, server, clock, budget>> /\ jobs' = Polled(jobs \ {j}, c)
  BY Kinds DEF IInv, Typed, BootstrapIndex
<1>2. client' = client \/ (/\ IsIndex(server.index)
                           /\ client' = [client EXCEPT ![c] = MergeIndex(client[c], server.index)])
  BY <1>1 DEF BootstrapIndex, ServerOK
<1>3. Follows(client[c], MergeIndex(client[c], server.index)) \/ client' = client
  BY <1>1, <1>2, MergeIndexFollows DEF Typed
<1>4. /\ client' \in [Clients -> States]
      /\ \A x \in Clients : Fits(client'[x]) /\ Follows(client[x], client'[x])
  BY <1>1, <1>2, <1>3, NoClientStep, ClientStep
<1>5. \A x \in jobs' : x \in jobs \/ (JobOK(x, server.nodes) /\ x.kind \in Minor)
  BY <1>1, PollJobOK
<1>6. \A x \in jobs \ {j} : x \in jobs'
  BY <1>1 DEF Polled
<1>7. j.kind \in Minor /\ budget' \in Budgets
  BY <1>1 DEF Minor, Typed, Budgets
<1>. QED  BY <1>1, <1>4, <1>5, <1>6, <1>7, MinorJobDone

LEMMA LoginFailedOK ==
    ASSUME Typed, NEW c \in Clients, LoginFailed(c)
    PROVE  /\ client' \in [Clients -> States]
           /\ \A x \in Clients : Fits(client'[x]) /\ Follows(client[x], client'[x])
<1>. DEFINE l == IF client[c].login = "IN_PROGRESS" THEN "AUTH_FAILED" ELSE client[c].login
<1>1. Fits(client[c]) /\ client[c] \in States
  BY DEF Typed
<1>2. l \in {"OFF", "NONE", "IN_PROGRESS", "ACTIVE", "AUTH_FAILED"}
  BY <1>1 DEF States, StatesWith
<1>3. client' = [client EXCEPT ![c] = [client[c] EXCEPT !.login = l]]
  BY <1>1 DEF LoginFailed, Typed, States, StatesWith
<1>. HIDE DEF l
<1>4. Follows(client[c], [client[c] EXCEPT !.login = l])
  BY <1>1, <1>2, LoginFollows
<1>. QED  BY <1>3, <1>4, ClientStep

LEMMA DeniedOK ==
    ASSUME Typed, NEW c \in Clients, Denied(c)
    PROVE  /\ client' \in [Clients -> States]
           /\ \A x \in Clients : Fits(client'[x]) /\ Follows(client[x], client'[x])
<1>1. Fits(client[c]) /\ client[c] \in States
  BY DEF Typed
<1>2. client' = [client EXCEPT ![c] = [client[c] EXCEPT !.login = "AUTH_FAILED"]]
  BY <1>1 DEF Denied, Typed, States, StatesWith
<1>3. Follows(client[c], [client[c] EXCEPT !.login = "AUTH_FAILED"])
  BY <1>1, LoginFollows
<1>. QED  BY <1>2, <1>3, ClientStep

LEMMA EndsWithoutResultStep ==
    ASSUME IInv, NEW j \in jobs, BootstrapFails(j) \/ PollInvalid(j) \/ PollFails(j)
    PROVE  StepOK
<1>1. /\ Typed /\ j.client \in Clients /\ j.kind \in Minor
      /\ UNCHANGED <<ops, server, clock>> /\ jobs' = jobs \ {j}
  BY Kinds DEF IInv, Typed, BootstrapFails, PollInvalid, PollFails, Minor
<1>2. LoginFailed(j.client) \/ Denied(j.client) \/ client' = client
  BY DEF BootstrapFails, PollInvalid, PollFails
<1>3. /\ client' \in [Clients -> States]
      /\ \A x \in Clients : Fits(client'[x]) /\ Follows(client[x], client'[x])
  BY <1>1, <1>2, LoginFailedOK, DeniedOK, NoClientStep
<1>4. budget' \in Budgets
  BY <1>1, Spent DEF BootstrapFails, PollInvalid, PollFails, Works, Fails, Typed, Budgets
<1>5. \A x \in jobs' : x \in jobs
  BY <1>1
<1>6. \A x \in jobs \ {j} : x \in jobs'
  BY <1>1
<1>. QED  BY <1>1, <1>3, <1>4, <1>5, <1>6, MinorJobDone

-----------------------------------------------------------------------------
(* Uploads. *)

LEMMA ClientFits ==
    ASSUME Typed, NEW c \in Clients, NEW k, Fits(k), client' = [client EXCEPT ![c] = k]
    PROVE  /\ client' \in [Clients -> States]
           /\ \A x \in Clients : Fits(client'[x]) /\ client'[x] = IF x = c THEN k ELSE client[x]
<1>1. k \in States
  BY DEF Fits
<1>2. \A x \in Clients : client'[x] = IF x = c THEN k ELSE client[x]
  BY DEF Typed
<1>. QED  BY <1>1, <1>2 DEF Typed

\* No upload of states starts, and what was uploaded stays so for marks still due.
LEMMA UploadsFewer ==
    ASSUME Typed, UploadsComplete, MarksDone,
           \A c \in Clients : Follows(client[c], client'[c]),
           StateUploads(jobs') \subseteq StateUploads(jobs),
           \A c \in Clients : \A f \in Feeds : \A i \in client[c].marks[f] :
              Due(client'[c], f) /\ Due(client[c], f) /\ Uploaded(c, f, i) => Uploaded(c, f, i)'
    PROVE  UploadsComplete' /\ MarksDone'
<1>1. \A j \in StateUploads(jobs) : j.client \in Clients /\ j.feed \in Feeds
  <2>1. ASSUME NEW j \in StateUploads(jobs)  PROVE j.client \in Clients /\ UploadOK(j)
    BY Kinds DEF Typed, StateUploads
  <2>. QED  BY <2>1 DEF UploadOK
<1>2. UploadsComplete'
  <2>. SUFFICES ASSUME NEW j \in StateUploads(jobs'), Due(client'[j.client], j.feed),
                       NEW i \in client'[j.client].marks[j.feed]
       PROVE  i \in j.body
    BY DEF UploadsComplete, Due
  <2>1. Due(client[j.client], j.feed) /\ i \in client[j.client].marks[j.feed]
    BY <1>1 DEF Follows
  <2>. QED  BY <2>1 DEF UploadsComplete
<1>3. MarksDone'
  <2>. SUFFICES ASSUME NEW c \in Clients, NEW f \in Feeds, Due(client'[c], f),
                       NEW i \in client'[c].marks[f]
       PROVE  Uploaded(c, f, i)'
    BY DEF MarksDone, Due
  <2>1. Due(client[c], f) /\ i \in client[c].marks[f]
    BY DEF Follows
  <2>2. Uploaded(c, f, i)
    BY <2>1 DEF MarksDone
  <2>. QED  BY <2>1, <2>2
<1>. QED  BY <1>2, <1>3

\* Requests other than those of merges come and go.
LEMMA NoGetStep ==
    ASSUME Typed, Funded, Covered, UNCHANGED ops,
           \A c \in Clients : Here(client[c]) \subseteq Here(client'[c]),
           \A x \in jobs : x \in jobs' \/ x.kind \notin Gets,
           \A x \in jobs' : x \in jobs \/ x.kind \notin Gets
    PROVE  Funded' /\ Covered' /\ MergesComplete
<1>1. \A x : SameGet(x, x)
  BY DEF SameGet
<1>2. \A j \in jobs : j.kind \in Gets => \E j2 \in jobs' : SameGet(j, j2)
  BY <1>1
<1>3. \A j \in jobs' : j.kind \in Gets => \E j2 \in jobs : SameGet(j, j2)
  BY <1>1
<1>. QED  BY <1>2, <1>3, MergesKept

LEMMA UploadPutStep ==
    ASSUME IInv, NEW j \in jobs, UploadPut(j)
    PROVE  StepOK
<1>. DEFINE more == IF j.feed \in Local(client[j.client]) THEN {PutIndex(j.client, client[j.client])}
                    ELSE {}
<1>1. /\ Typed /\ ServerOK(server) /\ UploadOK(j) /\ j.kind = "upload" /\ j.client \in Clients
      /\ UNCHANGED <<client, ops, clock, budget>> /\ jobs' = (jobs \ {j}) \union more
      /\ server' = Written(j)
  BY Kinds DEF IInv, Typed, UploadPut
<1>2. /\ client' \in [Clients -> States]
      /\ \A x \in Clients : Fits(client'[x]) /\ Follows(client[x], client'[x])
  BY <1>1, NoClientStep
<1>3. \A x \in more : JobOK(x, server'.nodes) /\ x.kind = "putIndex"
  BY <1>1, <1>2, IndexWritten
<1>4. j.feed \in Feeds /\ j.what \in {"feed", "state"} /\ j.body \subseteq Items
  BY <1>1 DEF UploadOK
<1>. HIDE DEF more
<1>5. /\ ServerOK(server') /\ server.nodes \subseteq server'.nodes
      /\ j.what = "feed" => server'.state = server.state /\ server'.writer = server.writer
      /\ j.what = "state" =>
            /\ server'.state = Put(server.state, j.feed, j.body)
            /\ server'.writer = Put(server.writer, j.feed, j.client)
  <2>1. CASE j.what = "feed"
    <3>1. server' = [server EXCEPT !.nodes = server.nodes \union {j.feed}]
      BY <1>1, <2>1 DEF Written, ServerOK
    <3>. QED  BY <1>1, <1>4, <2>1, <3>1, SMTT(30) DEF ServerOK
  <2>2. CASE j.what = "state"
    <3>. DEFINE s == Put(server.state, j.feed, j.body)
                w == Put(server.writer, j.feed, j.client)
    <3>1. server' = [server EXCEPT !.state = s, !.writer = w]
      BY <1>1, <2>2 DEF Written, ServerOK
    <3>2. /\ DOMAIN s = DOMAIN w /\ DOMAIN s \subseteq Feeds
          /\ s \in [DOMAIN s -> SUBSET Items]
      BY <1>1, <1>4 DEF Put, ServerOK
    <3>. HIDE DEF s, w
    <3>3. /\ server'.state = s /\ server'.writer = w /\ server'.nodes = server.nodes
          /\ ServerOK(server')
      BY <1>1, <3>1, <3>2 DEF ServerOK
    <3>. QED  BY <2>2, <3>3 DEF s, w
  <2>. QED  BY <1>4, <2>1, <2>2
<1>6. Typed'
  <2>1. \A x \in jobs' : x \in jobs \/ JobOK(x, server'.nodes)
    BY <1>1, <1>3
  <2>2. clock' \in Times /\ budget' \in [{"events", "polls", "restarts"} -> Nat]
    BY <1>1 DEF Typed
  <2>. QED  BY <1>1, <1>2, <1>5, <2>1, <2>2, TypedKept
<1>7. Funded' /\ Covered' /\ MergesComplete
  <2>1. \A x \in jobs : x \in jobs' \/ x.kind \notin Gets
    BY <1>1 DEF Gets
  <2>2. \A x \in jobs' : x \in jobs \/ x.kind \notin Gets
    BY <1>1, <1>3 DEF Gets
  <2>3. \A c \in Clients : Here(client[c]) \subseteq Here(client'[c])
    BY <1>2 DEF Follows
  <2>. QED  BY <1>1, <2>1, <2>2, <2>3, NoGetStep DEF IInv
<1>8. StateUploads(jobs') = StateUploads(jobs) \ {j}
  BY <1>1, <1>3 DEF StateUploads
<1>9. UploadsComplete' /\ MarksDone'
  <2>1. CASE j.what = "feed"
    <3>1. StateUploads(jobs') = StateUploads(jobs)
      BY <1>8, <2>1 DEF StateUploads
    <3>. QED  BY <1>2, <1>5, <2>1, <3>1, UploadsKept DEF IInv
  <2>2. CASE j.what = "state"
    <3>0. j \in StateUploads(jobs)
      BY <1>1, <2>2 DEF StateUploads
    <3>1. ASSUME NEW c \in Clients, NEW f \in Feeds, NEW i \in client[c].marks[f],
                 Due(client[c], f), Uploaded(c, f, i)
          PROVE  Uploaded(c, f, i)'
      <4>1. CASE f = j.feed
        <5>1. /\ f \in DOMAIN server'.writer /\ server'.writer[f] = j.client
              /\ server'.state[f] = j.body
          BY <1>5, <2>2, <4>1 DEF Put
        <5>2. j.client = c => i \in j.body
          BY <3>0, <3>1, <4>1 DEF IInv, UploadsComplete
        <5>. QED  BY <5>1, <5>2 DEF Uploaded
      <4>2. CASE f # j.feed
        <5>1. /\ f \in DOMAIN server.writer => f \in DOMAIN server'.writer
              /\ f \in DOMAIN server.writer => server'.writer[f] = server.writer[f]
              /\ f \in DOMAIN server.writer => server'.state[f] = server.state[f]
          BY <1>1, <1>5, <2>2, <4>2 DEF Put, ServerOK
        <5>2. CASE f \in DOMAIN server.writer /\ (i \in server.state[f] \/ server.writer[f] # c)
          BY <5>1, <5>2 DEF Uploaded
        <5>3. ASSUME NEW x \in StateUploads(jobs), x.client = c, x.feed = f, i \in x.body
              PROVE  Uploaded(c, f, i)'
          <6>1. x \in StateUploads(jobs')
            BY <1>8, <4>2, <5>3
          <6>. QED  BY <5>3, <6>1 DEF Uploaded
        <5>. QED  BY <3>1, <5>2, <5>3 DEF Uploaded
      <4>. QED  BY <4>1, <4>2
    <3>2. \A c \in Clients : \A f \in Feeds : \A i \in client[c].marks[f] :
              Due(client'[c], f) /\ Due(client[c], f) /\ Uploaded(c, f, i) => Uploaded(c, f, i)'
      BY <3>1
    <3>3. StateUploads(jobs') \subseteq StateUploads(jobs)
      BY <1>8
    <3>. QED  BY <1>2, <3>2, <3>3, UploadsFewer DEF IInv
  <2>. QED  BY <1>4, <2>1, <2>2
<1>. QED  BY <1>6, <1>7, <1>9 DEF StepOK, IInv

Logins == {"OFF", "NONE", "IN_PROGRESS", "ACTIVE", "AUTH_FAILED"}

LEMMA UnsentFollows ==
    ASSUME NEW k, Fits(k), NEW f \in Feeds, NEW l \in LoginsAfterFailure(k)
    PROVE  Follows(k, Unsent(k, f, l)) /\ f \in Unsent(k, f, l).excused
<1>. DEFINE k2 == Unsent(k, f, l)
<1>1. k \in States /\ l \in Logins
  BY DEF Fits, States, StatesWith, LoginsAfterFailure, Logins
<1>2. /\ k2 \in States
      /\ k2.tree = k.tree /\ k2.loaded = k.loaded /\ k2.marks = k.marks
      /\ k2.removed = k.removed /\ k2.feedMtime = k.feedMtime
      /\ k2.excused = k.excused \union {f} /\ k2.stateTimer = k.stateTimer
  BY <1>1 DEF Unsent, States, StatesWith, Logins
<1>. HIDE DEF k2
<1>3. Follows(k, k2) /\ f \in k2.excused
  BY <1>2, BookKept
<1>. QED  BY <1>3 DEF k2

LEMMA UploadFailsStep ==
    ASSUME IInv, NEW j \in jobs, UploadFails(j)
    PROVE  StepOK
<1>. DEFINE c0 == j.client
<1>0. PICK l \in LoginsAfterFailure(client[c0]) :
          client' = [client EXCEPT ![c0] = Unsent(@, j.feed, l)]
  BY DEF UploadFails
<1>. DEFINE k2 == Unsent(client[c0], j.feed, l)
<1>1. /\ Typed /\ UploadOK(j) /\ j.kind = "upload" /\ c0 \in Clients /\ j.feed \in Feeds
      /\ UNCHANGED <<server, ops, clock>> /\ jobs' = jobs \ {j}
      /\ Fits(client[c0]) /\ client[c0] \in States
  BY Kinds DEF IInv, Typed, UploadFails, UploadOK
<1>2. client' = [client EXCEPT ![c0] = k2]
  BY <1>0, <1>1 DEF Typed
<1>3. Follows(client[c0], k2) /\ j.feed \in k2.excused
  BY <1>1, UnsentFollows
<1>. HIDE DEF k2
<1>4. /\ client' \in [Clients -> States] /\ client'[c0] = k2
      /\ \A x \in Clients : Fits(client'[x]) /\ Follows(client[x], client'[x])
  BY <1>1, <1>2, <1>3, ClientStep DEF Typed
<1>5. budget' \in [{"events", "polls", "restarts"} -> Nat]
  BY <1>1, Spent DEF UploadFails, Fails, Budgets
<1>6. Typed'
  <2>1. ServerOK(server') /\ server.nodes \subseteq server'.nodes /\ clock' \in Times
    BY <1>1 DEF Typed
  <2>2. \A x \in jobs' : x \in jobs \/ JobOK(x, server'.nodes)
    BY <1>1
  <2>. QED  BY <1>1, <1>4, <1>5, <2>1, <2>2, TypedKept
<1>7. Funded' /\ Covered' /\ MergesComplete
  <2>1. \A x \in jobs : x \in jobs' \/ x.kind \notin Gets
    BY <1>1 DEF Gets
  <2>2. \A x \in jobs' : x \in jobs \/ x.kind \notin Gets
    BY <1>1
  <2>3. \A c \in Clients : Here(client[c]) \subseteq Here(client'[c])
    BY <1>4 DEF Follows
  <2>. QED  BY <1>1, <2>1, <2>2, <2>3, NoGetStep DEF IInv
<1>8. UploadsComplete' /\ MarksDone'
  <2>1. ASSUME NEW c \in Clients, NEW f \in Feeds, NEW i \in client[c].marks[f],
               Due(client'[c], f), Uploaded(c, f, i)
        PROVE  Uploaded(c, f, i)'
    <3>1. c # c0 \/ f # j.feed
      BY <1>3, <1>4, <2>1 DEF Due
    <3>2. \A x \in StateUploads(jobs) : x.client = c /\ x.feed = f => x \in StateUploads(jobs')
      BY <1>1, <3>1 DEF StateUploads
    <3>. QED  BY <1>1, <2>1, <3>2 DEF Uploaded
  <2>2. \A c \in Clients : \A f \in Feeds : \A i \in client[c].marks[f] :
            Due(client'[c], f) /\ Due(client[c], f) /\ Uploaded(c, f, i) => Uploaded(c, f, i)'
    BY <2>1
  <2>3. StateUploads(jobs') \subseteq StateUploads(jobs)
    BY <1>1 DEF StateUploads
  <2>. QED  BY <1>4, <2>2, <2>3, UploadsFewer DEF IInv
<1>. QED  BY <1>6, <1>7, <1>8 DEF StepOK, IInv

LEMMA TickOK == clock \in Times => Tick \in Times /\ Tick > 0
BY WebDAVSyncAssumption DEF Tick, Times

LEMMA FeedTimerFollows ==
    ASSUME NEW k, Fits(k), NEW f
    PROVE  Follows(k, [k EXCEPT !.feedTimer = k.feedTimer \ {f}])
           /\ [k EXCEPT !.feedTimer = k.feedTimer \ {f}].tree = k.tree
<1>. DEFINE k2 == [k EXCEPT !.feedTimer = k.feedTimer \ {f}]
<1>1. k \in States
  BY DEF Fits
<1>2. /\ k2 \in States
      /\ k2.tree = k.tree /\ k2.loaded = k.loaded /\ k2.marks = k.marks
      /\ k2.removed = k.removed /\ k2.feedMtime = k.feedMtime
      /\ k2.excused = k.excused /\ k2.stateTimer = k.stateTimer
  BY <1>1 DEF States, StatesWith
<1>. HIDE DEF k2
<1>3. Follows(k, k2) /\ k2.tree = k.tree
  BY <1>2, BookKept
<1>. QED  BY <1>3 DEF k2

\* The node of a feed is sent, which must be in the tree: its time is known now.
LEMMA FeedSentFollows ==
    ASSUME NEW k, Fits(k), NEW f \in Local(k), NEW t \in Times
    PROVE  Follows(k, [k EXCEPT !.initial = k.initial \ {f}, !.feedMtime[f] = t])
<1>. DEFINE k2 == [k EXCEPT !.initial = k.initial \ {f}, !.feedMtime[f] = t]
<1>1. k \in States /\ f \in Feeds
  BY DEF Fits, Local
<1>2. /\ k2 \in States
      /\ k2.tree = k.tree /\ k2.loaded = k.loaded /\ k2.marks = k.marks
      /\ k2.removed = k.removed /\ k2.feedMtime = [k.feedMtime EXCEPT ![f] = t]
      /\ k2.excused = k.excused /\ k2.stateTimer = k.stateTimer
      /\ k.feedMtime \in [Feeds -> Times]
  BY <1>1 DEF States, StatesWith
<1>. HIDE DEF k2
<1>3. \A g \in Feeds : k2.feedMtime[g] > 0 => k.feedMtime[g] > 0 \/ g \in Local(k)
  BY <1>2
<1>4. Follows(k, k2)
  BY <1>2, <1>3, BookKept
<1>. QED  BY <1>4 DEF k2

LEMMA FlushFeedStep ==
    ASSUME IInv, NEW c \in Clients, NEW f \in Feeds, FlushFeed(c, f)
    PROVE  StepOK
<1>. DEFINE k == [client[c] EXCEPT !.feedTimer = client[c].feedTimer \ {f}]
            sent == SendFile(c, k, f, "feed", Tick)
<1>1. /\ Typed /\ Fits(client[c]) /\ client[c] \in States
      /\ StartUpload(c, k, f, "feed") /\ UNCHANGED <<ops, server>>
  BY DEF IInv, Typed, FlushFeed
<1>2. Follows(client[c], k)
  BY <1>1, FeedTimerFollows
<1>3. Fits(k) /\ k \in States
  BY <1>2 DEF Follows, Fits
<1>. HIDE DEF k
<1>4. CASE f \in Local(k) /\ Works /\ clock' = Tick /\ client' = [client EXCEPT ![c] = sent.k]
           /\ jobs' = jobs \union {sent.job}
  <2>1. Tick \in Times
    BY <1>1, TickOK DEF Typed
  <2>2. /\ sent.k = [k EXCEPT !.initial = k.initial \ {f}, !.feedMtime[f] = Tick]
        /\ sent.job = [client |-> c, kind |-> "upload", feed |-> f, what |-> "feed", body |-> {}]
    BY <1>3 DEF SendFile, States, StatesWith
  <2>. HIDE DEF sent
  <2>3. Follows(client[c], sent.k)
    BY <1>2, <1>3, <1>4, <2>1, <2>2, FeedSentFollows, FollowsTransitive
  <2>4. sent.job.kind = "upload" /\ sent.job.what = "feed" /\ JobOK(sent.job, server.nodes)
    BY <2>2 DEF JobOK, UploadOK
  <2>5. /\ client' \in [Clients -> States]
        /\ \A x \in Clients : Fits(client'[x]) /\ Follows(client[x], client'[x])
    BY <1>1, <1>4, <2>3, ClientStep
  <2>6. Typed'
    <3>1. ServerOK(server') /\ server.nodes \subseteq server'.nodes /\ clock' \in Times
          /\ budget' \in [{"events", "polls", "restarts"} -> Nat]
      BY <1>1, <1>4, <2>1 DEF Typed, Works
    <3>2. \A x \in jobs' : x \in jobs \/ JobOK(x, server'.nodes)
      BY <1>1, <1>4, <2>4
    <3>. QED  BY <1>1, <2>5, <3>1, <3>2, TypedKept
  <2>7. Funded' /\ Covered' /\ MergesComplete
    <3>1. \A x \in jobs : x \in jobs' \/ x.kind \notin Gets
      BY <1>4
    <3>2. \A x \in jobs' : x \in jobs \/ x.kind \notin Gets
      BY <1>4, <2>4 DEF Gets
    <3>3. \A x \in Clients : Here(client[x]) \subseteq Here(client'[x])
      BY <2>5 DEF Follows
    <3>. QED  BY <1>1, <3>1, <3>2, <3>3, NoGetStep DEF IInv
  <2>8. UploadsComplete' /\ MarksDone'
    <3>1. StateUploads(jobs') = StateUploads(jobs)
      BY <1>4, <2>4 DEF StateUploads
    <3>. QED  BY <1>1, <2>5, <3>1, UploadsKept DEF IInv
  <2>. QED  BY <2>6, <2>7, <2>8 DEF StepOK, IInv
<1>5. ASSUME NEW l \in LoginsAfterFailure(k), client' = [client EXCEPT ![c] = Unsent(k, f, l)],
             UNCHANGED <<jobs, clock>>, Works \/ Fails
      PROVE  StepOK
  <2>1. Follows(client[c], Unsent(k, f, l))
    BY <1>2, <1>3, UnsentFollows, FollowsTransitive
  <2>2. budget' \in Budgets
    BY <1>1, <1>5, Spent DEF Works, Fails, Typed, Budgets
  <2>. DEFINE more == {}
  <2>3. jobs' = jobs \union more /\ \A j \in more : JobOK(j, server.nodes) /\ j.kind \in Minor
    BY <1>5
  <2>. HIDE DEF more
  <2>. DEFINE k2 == Unsent(k, f, l)
  <2>4. client' = [client EXCEPT ![c] = k2] /\ Follows(client[c], k2)
    BY <1>5, <2>1
  <2>. HIDE DEF k2
  <2>. QED  BY <1>1, <1>5, <2>2, <2>3, <2>4, ClientAndJobs
<1>. QED  BY <1>1, <1>4, <1>5 DEF StartUpload

\* The states of a feed are about to be sent: it leaves the timer, and is excused if
\* another upload of them is under way.
StateSent(k, s, e, t) == [k EXCEPT !.stateTimer = s, !.excused = e, !.stateMtime = t]

LEMMA StateSentFits ==
    ASSUME NEW k, Fits(k), NEW s \in SUBSET Feeds, NEW e \in SUBSET Feeds,
           NEW t \in [Feeds -> Times]
    PROVE  /\ Fits(StateSent(k, s, e, t)) /\ Here(StateSent(k, s, e, t)) = Here(k)
           /\ StateSent(k, s, e, t).marks = k.marks
           /\ StateSent(k, s, e, t).stateTimer = s /\ StateSent(k, s, e, t).excused = e
<1>. DEFINE k2 == StateSent(k, s, e, t)
<1>1. k \in States
  BY DEF Fits
<1>2. /\ k2 \in States
      /\ k2.tree = k.tree /\ k2.loaded = k.loaded /\ k2.marks = k.marks
      /\ k2.removed = k.removed /\ k2.feedMtime = k.feedMtime
      /\ k2.excused = e /\ k2.stateTimer = s
  BY <1>1 DEF StateSent, States, StatesWith
<1>. HIDE DEF k2
<1>3. Local(k2) = Local(k) /\ Here(k2) = Here(k)
  BY <1>2 DEF Local, Here
<1>4. Fits(k2)
  BY <1>2, <1>3 DEF Fits
<1>. QED  BY <1>2, <1>3, <1>4 DEF k2

LEMMA FlushStateStep ==
    ASSUME IInv, NEW c \in Clients, NEW f \in Feeds, FlushState(c, f)
    PROVE  StepOK
<1>. DEFINE k0 == client[c]
            s == k0.stateTimer \ {f}
            e == IF Uploading(c, f) THEN k0.excused \union {f} ELSE k0.excused
            k == [k0 EXCEPT !.stateTimer = s, !.excused = e]
            sent == SendFile(c, k, f, "state", Tick)
<1>1. /\ Typed /\ Fits(k0) /\ k0 \in States /\ UNCHANGED <<ops, server>>
      /\ StartUpload(c, [k0 EXCEPT !.stateTimer = @ \ {f},
                            !.excused = IF Uploading(c, f) THEN @ \union {f} ELSE @], f, "state")
  BY DEF IInv, Typed, FlushState
<1>2. /\ [k0 EXCEPT !.stateTimer = @ \ {f},
                    !.excused = IF Uploading(c, f) THEN @ \union {f} ELSE @] = k
      /\ s \in SUBSET Feeds /\ e \in SUBSET Feeds /\ k0.excused \subseteq e
      /\ k0.marks \in [Feeds -> SUBSET Items] /\ k0.stateMtime \in [Feeds -> Times]
  BY <1>1 DEF States, StatesWith
<1>3. StartUpload(c, k, f, "state")
  BY <1>1, <1>2
<1>4. Uploading(c, f) => f \in e
  OBVIOUS
<1>5. \A g \in Feeds \ {f} : g \in s <=> g \in k0.stateTimer
  OBVIOUS
<1>6. \A g \in Feeds \ {f} : g \in e <=> g \in k0.excused
  OBVIOUS
<1>7. CASE Works /\ clock' = Tick /\ client' = [client EXCEPT ![c] = sent.k]
           /\ jobs' = jobs \union {sent.job}
  <2>. DEFINE t == [k0.stateMtime EXCEPT ![f] = Tick]
              k2 == StateSent(k0, s, e, t)
              new == [client |-> c, kind |-> "upload", feed |-> f, what |-> "state",
                      body |-> k0.marks[f]]
  <2>1. Tick \in Times /\ t \in [Feeds -> Times]
    BY <1>1, <1>2, TickOK DEF Typed
  <2>2. sent.k = k2 /\ sent.job = new
    BY <1>1 DEF SendFile, StateSent, States, StatesWith
  <2>3. /\ Fits(k2) /\ Here(k2) = Here(k0) /\ k2.marks = k0.marks
        /\ k2.stateTimer = s /\ k2.excused = e
    <3>. HIDE DEF s, e, t, k0
    <3>1. /\ Fits(k0) /\ s \in SUBSET Feeds /\ e \in SUBSET Feeds
          /\ t \in [Feeds -> Times]
      BY <1>1, <1>2, <2>1
    <3>. QED  BY <3>1, StateSentFits
  <2>4. /\ new.client = c /\ new.kind = "upload" /\ new.feed = f /\ new.what = "state"
        /\ new.body = k0.marks[f] /\ JobOK(new, server.nodes)
    BY <1>2 DEF JobOK, UploadOK
  <2>. HIDE DEF new, k2, sent, s, e, t
  <2>5. /\ client' \in [Clients -> States]
        /\ \A x \in Clients : Fits(client'[x]) /\ client'[x] = IF x = c THEN k2 ELSE client[x]
    BY <1>1, <1>7, <2>2, <2>3, ClientFits
  <2>6. Typed'
    <3>1. ServerOK(server') /\ server.nodes \subseteq server'.nodes /\ clock' \in Times
          /\ budget' \in [{"events", "polls", "restarts"} -> Nat]
      BY <1>1, <1>7, <2>1 DEF Typed, Works
    <3>2. \A x \in jobs' : x \in jobs \/ JobOK(x, server'.nodes)
      BY <1>1, <1>7, <2>2, <2>4
    <3>. QED  BY <1>1, <2>5, <3>1, <3>2, TypedKept
  <2>7. Funded' /\ Covered' /\ MergesComplete
    <3>1. \A x \in jobs : x \in jobs' \/ x.kind \notin Gets
      BY <1>7
    <3>2. \A x \in jobs' : x \in jobs \/ x.kind \notin Gets
      BY <1>7, <2>2, <2>4 DEF Gets
    <3>3. \A x \in Clients : Here(client[x]) \subseteq Here(client'[x])
      BY <2>3, <2>5
    <3>. QED  BY <1>1, <3>1, <3>2, <3>3, NoGetStep DEF IInv
  <2>8. ASSUME NEW x \in Clients, NEW g \in Feeds, x # c \/ g # f, Due(client'[x], g)
        PROVE  Due(client[x], g) /\ client'[x].marks = client[x].marks
    <3>1. CASE x # c
      BY <2>5, <2>8, <3>1
    <3>2. CASE x = c /\ g # f
      BY <1>5, <1>6, <2>3, <2>5, <2>8, <3>2 DEF Due
    <3>. QED  BY <2>8, <3>1, <3>2
  <2>9. StateUploads(jobs') = StateUploads(jobs) \union {new}
    BY <1>7, <2>2, <2>4 DEF StateUploads
  <2>10. UploadsComplete'
    <3>. SUFFICES ASSUME NEW j \in StateUploads(jobs'), Due(client'[j.client], j.feed)
         PROVE  client'[j.client].marks[j.feed] \subseteq j.body
      BY DEF UploadsComplete, Due
    <3>1. CASE j = new
      BY <2>3, <2>4, <2>5, <3>1
    <3>2. CASE j # new
      <4>1. j \in StateUploads(jobs) /\ j.client \in Clients /\ j.feed \in Feeds
        <5>1. j \in StateUploads(jobs)
          BY <2>9, <3>2
        <5>2. j.client \in Clients /\ UploadOK(j)
          BY <1>1, <5>1, Kinds DEF Typed, StateUploads
        <5>. QED  BY <5>1, <5>2 DEF UploadOK
      <4>2. j.client # c \/ j.feed # f
        <5>. SUFFICES ASSUME j.client = c, j.feed = f  PROVE FALSE
          OBVIOUS
        <5>1. Uploading(c, f)
          BY <4>1 DEF Uploading, StateUploads, JobsOf
        <5>. QED  BY <1>4, <2>3, <2>5, <5>1 DEF Due
      <4>3. Due(client[j.client], j.feed) /\ client'[j.client].marks = client[j.client].marks
        BY <2>8, <4>1, <4>2
      <4>. QED  BY <4>1, <4>3 DEF IInv, UploadsComplete
    <3>. QED  BY <3>1, <3>2
  <2>11. MarksDone'
    <3>. SUFFICES ASSUME NEW x \in Clients, NEW g \in Feeds, Due(client'[x], g),
                         NEW i \in client'[x].marks[g]
         PROVE  Uploaded(x, g, i)'
      BY DEF MarksDone, Due
    <3>1. CASE x = c /\ g = f
      <4>1. i \in new.body
        BY <2>3, <2>4, <2>5, <3>1
      <4>2. new \in StateUploads(jobs')
        BY <2>9
      <4>. QED  BY <2>4, <3>1, <4>1, <4>2 DEF Uploaded
    <3>2. CASE x # c \/ g # f
      <4>1. Due(client[x], g) /\ client'[x].marks = client[x].marks
        BY <2>8, <3>2
      <4>2. Uploaded(x, g, i)
        BY <4>1 DEF IInv, MarksDone
      <4>. QED  BY <1>1, <2>9, <4>2 DEF Uploaded
    <3>. QED  BY <3>1, <3>2
  <2>. QED  BY <2>6, <2>7, <2>10, <2>11 DEF StepOK, IInv
<1>8. ASSUME NEW l \in LoginsAfterFailure(k), client' = [client EXCEPT ![c] = Unsent(k, f, l)],
             UNCHANGED <<jobs, clock>>, Works \/ Fails
      PROVE  StepOK
  <2>. DEFINE e2 == e \union {f}
              k1 == StateSent(k0, s, e2, k0.stateMtime)
              k2 == [k1 EXCEPT !.login = l]
  <2>1. Unsent(k, f, l) = k2 /\ e2 \in SUBSET Feeds /\ l \in Logins
    BY <1>1, <1>2 DEF Unsent, StateSent, States, StatesWith, LoginsAfterFailure, Logins
  <2>2. /\ Fits(k2) /\ Here(k2) = Here(k0) /\ k2.marks = k0.marks
        /\ k2.stateTimer = s /\ k2.excused = e2
    <3>. DEFINE t == k0.stateMtime
    <3>. HIDE DEF s, e, e2, t, k0
    <3>1. /\ Fits(k0) /\ s \in SUBSET Feeds /\ e2 \in SUBSET Feeds
          /\ t \in [Feeds -> Times] /\ t = k0.stateMtime
      BY <1>1, <1>2, <2>1 DEF t
    <3>2. /\ Fits(k1) /\ Here(k1) = Here(k0) /\ k1.marks = k0.marks
          /\ k1.stateTimer = s /\ k1.excused = e2
      BY <3>1, StateSentFits
    <3>. HIDE DEF k1
    <3>3. /\ k1 \in States /\ k2 \in States
          /\ k2.tree = k1.tree /\ k2.loaded = k1.loaded /\ k2.marks = k1.marks
          /\ k2.removed = k1.removed /\ k2.excused = k1.excused
          /\ k2.stateTimer = k1.stateTimer
      BY <2>1, <3>2 DEF Fits, States, StatesWith, Logins
    <3>4. Fits(k2) /\ Here(k2) = Here(k1)
      BY <3>2, <3>3 DEF Fits, Here, Local
    <3>. QED  BY <3>2, <3>3, <3>4
  <2>3. f \in e2 /\ \A g \in Feeds \ {f} : g \in e2 <=> g \in k0.excused
    BY <1>6
  <2>4. client' = [client EXCEPT ![c] = k2]
    BY <1>8, <2>1
  <2>. HIDE DEF k2, s, e2, e
  <2>5. Follows(k0, k2)
    BY <1>5, <2>2, <2>3 DEF Follows, Due
  <2>6. budget' \in Budgets
    BY <1>1, <1>8, Spent DEF Works, Fails, Typed, Budgets
  <2>. DEFINE more == {}
  <2>7. jobs' = jobs \union more /\ \A j \in more : JobOK(j, server.nodes) /\ j.kind \in Minor
    BY <1>8
  <2>. HIDE DEF more
  <2>. QED  BY <1>1, <1>8, <2>4, <2>5, <2>6, <2>7, ClientAndJobs
<1>. QED  BY <1>3, <1>7, <1>8 DEF StartUpload

LEMMA RestartStep ==
    ASSUME IInv, NEW c \in Clients, Restart(c)
    PROVE  StepOK
<1>. DEFINE k == client[c]
            k2 == Started(k)
<1>1. /\ Typed /\ Fits(k) /\ k \in States /\ UNCHANGED <<server, clock>> /\ Spend("restarts")
      /\ client' = [client EXCEPT ![c] = k2]
      /\ jobs' = (jobs \ JobsOf(c)) \union StartJobs(c, k)
      /\ ops' = [ops EXCEPT ![c] = [n \in {} |-> 0]]
  BY DEF IInv, Typed, Restart
<1>2. /\ Fits(k2) /\ k2.tree = k.tree /\ k2.removed = k.removed /\ k2.loaded = k.loaded
      /\ k2.marks = k.marks /\ k2.stateTimer = k.loaded
  <2>1. /\ k \in StatesWith([Feeds -> Times]) /\ k.loaded \subseteq Local(k)
        /\ \A f \in Feeds : k.marks[f] # {} => f \in k.loaded
    BY <1>1 DEF Fits, States
  <2>. QED  BY <2>1, StartedFits
<1>3. \A j \in StartJobs(c, k) : JobOK(j, server.nodes) /\ j.kind = "putIndex"
  BY <1>2, StartJobsOK
<1>. HIDE DEF k2
<1>4. /\ client' \in [Clients -> States]
      /\ \A x \in Clients : Fits(client'[x]) /\ client'[x] = IF x = c THEN k2 ELSE client[x]
  BY <1>1, <1>2, ClientFits
<1>5. \A f \in Feeds : Due(client'[c], f) => client'[c].marks[f] = {}
  BY <1>1, <1>2, <1>4 DEF Due, Fits
<1>6. budget' \in [{"events", "polls", "restarts"} -> Nat] /\ budget' # budget
  BY <1>1, Spent DEF Budgets
<1>7. /\ ops' = [x \in Clients |-> ops'[x]] /\ DOMAIN ops'[c] = {}
      /\ ops'[c] = [n \in DOMAIN ops'[c] |-> ops'[c][n]]
      /\ \A x \in Clients \ {c} : ops'[x] = ops[x]
  BY <1>1 DEF Typed
<1>8. Typed'
  <2>1. \A j \in jobs' : JobOK(j, server'.nodes)
    BY <1>1, <1>3 DEF Typed
  <2>2. \A x \in Clients :
        /\ DOMAIN ops'[x] \subseteq 1..MaxOps
        /\ ops'[x] = [n \in DOMAIN ops'[x] |-> ops'[x][n]]
        /\ \A n \in DOMAIN ops'[x] : OpOK(ops'[x][n], server'.nodes)
    BY <1>1, <1>7 DEF Typed
  <2>. QED  BY <1>1, <1>4, <1>6, <1>7, <2>1, <2>2 DEF Typed
<1>9. \A x \in Clients \ {c} : \A n : JobsOfOp(x, n)' = JobsOfOp(x, n)
  <2>1. \A x \in Clients \ {c} : \A j : j.client = x /\ j.kind \in Gets => (j \in jobs' <=> j \in jobs)
    BY <1>1, <1>3 DEF JobsOf, Gets
  <2>. QED  BY <2>1 DEF JobsOfOp, JobsOf, Gets
<1>10. \A n : JobsOfOp(c, n)' = {}
  BY <1>1, <1>3 DEF JobsOfOp, JobsOf
<1>11. Funded'
  <2>. SUFFICES ASSUME NEW x \in Clients, NEW n
       PROVE  n \in DOMAIN ops'[x] <=> JobsOfOp(x, n)' # {}
    BY DEF Funded
  <2>1. CASE x = c
    BY <1>7, <1>10, <2>1
  <2>2. CASE x # c
    <3>1. n \in DOMAIN ops[x] <=> JobsOfOp(x, n) # {}
      BY DEF IInv, Funded
    <3>. QED  BY <1>7, <1>9, <2>2, <3>1
  <2>. QED  BY <2>1, <2>2
<1>12. Covered'
  <2>. SUFFICES ASSUME NEW x \in Clients, NEW n \in DOMAIN ops'[x], ~ops'[x][n].error,
                       NEW f \in DOMAIN ops'[x][n].index.feeds \intersect ops'[x][n].known
       PROVE  \/ f \in Here(client'[x])
              \/ \E j \in JobsOfOp(x, n)' : j.kind = "getFeed" /\ j.feed = f
    BY DEF Covered, Here, Local
  <2>1. x # c /\ ops'[x] = ops[x] /\ client'[x] = client[x] /\ JobsOfOp(x, n)' = JobsOfOp(x, n)
    BY <1>4, <1>7, <1>9
  <2>. QED  BY <2>1 DEF IInv, Covered
<1>13. MergesComplete
  BY <1>6 DEF MergesComplete
<1>14. StateUploads(jobs') = {j \in StateUploads(jobs) : j.client # c}
  BY <1>1, <1>3 DEF StateUploads, JobsOf
<1>15. \A j \in StateUploads(jobs') : j.client \in Clients \ {c}
  BY <1>1, <1>14, Kinds DEF StateUploads, Typed
<1>16. UploadsComplete'
  <2>. SUFFICES ASSUME NEW j \in StateUploads(jobs'), Due(client'[j.client], j.feed)
       PROVE  client'[j.client].marks[j.feed] \subseteq j.body
    BY DEF UploadsComplete, Due
  <2>1. client'[j.client] = client[j.client] /\ j \in StateUploads(jobs)
    BY <1>4, <1>14, <1>15
  <2>. QED  BY <2>1 DEF IInv, UploadsComplete
<1>17. MarksDone'
  <2>. SUFFICES ASSUME NEW x \in Clients, NEW f \in Feeds, Due(client'[x], f),
                       NEW i \in client'[x].marks[f]
       PROVE  Uploaded(x, f, i)'
    BY DEF MarksDone, Due
  <2>1. x # c /\ client'[x] = client[x]
    BY <1>4, <1>5
  <2>2. Uploaded(x, f, i)
    BY <2>1 DEF IInv, MarksDone
  <2>. QED  BY <1>1, <1>14, <2>1, <2>2 DEF Uploaded
<1>. QED  BY <1>8, <1>11, <1>12, <1>13, <1>16, <1>17 DEF StepOK, IInv
-----------------------------------------------------------------------------
(* Merges. *)

LEMMA RequestsOK ==
    ASSUME NEW c, NEW k, NEW ix, IsIndex(ix), NEW n \in 1..MaxOps, NEW x \in Requests(c, k, ix, n)
    PROVE  GetOK(x) /\ x.client = c /\ x.op = n /\ x.kind \in Gets
<1>1. PICK kind \in Gets, f \in DOMAIN ix.feeds, mtime \in Times :
        x = Request(c, kind, f, n, ix.feeds[f], mtime)
  BY DEF Requests, Gets, IsIndex, Entries
<1>2. f \in Feeds /\ ix.feeds[f].parent \in Places
  BY DEF IsIndex, Entries
<1>3. x = [client |-> c, kind |-> kind, feed |-> f, op |-> n, parent |-> ix.feeds[f].parent,
           mtime |-> mtime, result |-> Waiting]
  BY <1>1 DEF Request
<1>. QED  BY <1>2, <1>3 DEF GetOK, Gets

\* A feed of the index that is not asked for is here: its upload is scheduled, or its
\* time is known.
LEMMA RequestsCover ==
    ASSUME NEW c, NEW k, Fits(k), NEW ix, IsIndex(ix), NEW n, NEW f \in DOMAIN ix.feeds
    PROVE  \/ f \in Here(k)
           \/ \E x \in Requests(c, k, ix, n) : x.kind = "getFeed" /\ x.feed = f
<1>. DEFINE e == ix.feeds[f]
            x == Request(c, "getFeed", f, n, e, e.feedMtime)
<1>1. f \in Feeds /\ e.feedMtime \in Nat /\ k.feedMtime[f] \in Nat
  BY WebDAVSyncAssumption DEF IsIndex, Entries, Times, Fits, States, StatesWith
<1>2. CASE UploadPending(k, k.feedTimer, f)
  BY <1>2 DEF UploadPending, Here
<1>3. CASE ~Newer(e.feedMtime, k.feedMtime[f])
  <2>1. k.feedMtime[f] > 0
    BY <1>1, <1>3 DEF Newer
  <2>. QED  BY <1>1, <2>1 DEF Fits, Here
<1>4. CASE ~UploadPending(k, k.feedTimer, f) /\ Newer(e.feedMtime, k.feedMtime[f])
  <2>1. x \in Requests(c, k, ix, n)
    BY <1>4 DEF Requests
  <2>2. x.kind = "getFeed" /\ x.feed = f
    BY DEF Request
  <2>. QED  BY <2>1, <2>2
<1>. QED  BY <1>2, <1>3, <1>4

\* The end of a merge keeps the feeds and marks, and may write the index.
LEMMA FinalizeOK ==
    ASSUME NEW c \in Clients, NEW k, Fits(k), NEW s, NEW op, op.error \in BOOLEAN, NEW nodes,
           Typed, Finalize(c, k, s, op)
    PROVE  \E k2, more : /\ Follows(k, k2) /\ client' = [client EXCEPT ![c] = k2]
                         /\ jobs' = s \union more
                         /\ \A x \in more : JobOK(x, nodes) /\ x.kind = "putIndex"
<1>. DEFINE clean == CleanedUp(k, op.index)
            login == IF clean.login = "IN_PROGRESS" THEN "ACTIVE" ELSE clean.login
            active == [clean EXCEPT !.login = login]
            k2 == IF op.error THEN clean ELSE active
            more == IF op.error THEN {} ELSE {PutIndex(c, clean)}
<1>1. Follows(k, clean)
  BY CleanedUpFollows
<1>2. Fits(clean) /\ clean \in States
  BY <1>1 DEF Follows, Fits
<1>3. login \in {"OFF", "NONE", "IN_PROGRESS", "ACTIVE", "AUTH_FAILED"}
  BY <1>2 DEF States, StatesWith
<1>4. [clean EXCEPT !.login = IF @ = "IN_PROGRESS" THEN "ACTIVE" ELSE @] = active
  BY <1>2 DEF States, StatesWith
<1>5. client' = [client EXCEPT ![c] = k2] /\ jobs' = s \union more
  BY <1>4 DEF Finalize
<1>. HIDE DEF clean, login
<1>6. Follows(k, active)
  BY <1>1, <1>2, <1>3, LoginFollows, FollowsTransitive
<1>7. Follows(k, k2)
  BY <1>1, <1>6
<1>8. \A x \in more : JobOK(x, nodes) /\ x.kind = "putIndex"
  BY <1>2, IndexWritten
<1>. HIDE DEF k2, more
<1>. QED  BY <1>5, <1>7, <1>8

\* The requests of other merges stay as they are.
OthersKept(c, n) ==
    \A x \in Clients : \A m : x # c \/ m # n => JobsOfOp(x, m)' = JobsOfOp(x, m)

\* Job j ends that is no upload, and no other merge than n of client c is changed.
LEMMA MergeStep ==
    ASSUME IInv, NEW c \in Clients, NEW n \in 1..MaxOps, NEW j \in jobs, j.kind \in Gets \union Minor,
           \A x \in Clients : Fits(client'[x]) /\ Follows(client[x], client'[x]),
           client' \in [Clients -> States],
           NEW new, jobs' = (jobs \ {j}) \union new,
           \A x \in new : JobOK(x, server.nodes) /\ x.kind \in Gets \union Minor,
           OthersKept(c, n), UNCHANGED <<server, clock>>, budget' \in Budgets,
           NEW mine, ops' = [ops EXCEPT ![c] = mine],
           DOMAIN mine \ {n} = DOMAIN ops[c] \ {n},
           \A m \in DOMAIN mine \ {n} : mine[m] = ops[c][m],
           mine = [m \in DOMAIN mine |-> mine[m]],
           n \in DOMAIN mine <=> JobsOfOp(c, n)' # {},
           n \in DOMAIN mine =>
              /\ OpOK(mine[n], server.nodes)
              /\ ~mine[n].error =>
                    \A f \in DOMAIN mine[n].index.feeds \intersect mine[n].known :
                        \/ f \in Here(client'[c])
                        \/ \E x \in JobsOfOp(c, n)' : x.kind = "getFeed" /\ x.feed = f
    PROVE  IInv'
<1>1. Typed
  BY DEF IInv
<1>2. /\ ops' = [x \in Clients |-> ops'[x]] /\ ops'[c] = mine
      /\ \A x \in Clients \ {c} : ops'[x] = ops[x]
  BY <1>1 DEF Typed
<1>3. Typed'
  <2>1. \A x \in jobs' : JobOK(x, server'.nodes)
    BY <1>1 DEF Typed
  <2>2. \A x \in Clients \ {c} :
        /\ DOMAIN ops'[x] \subseteq 1..MaxOps
        /\ ops'[x] = [m \in DOMAIN ops'[x] |-> ops'[x][m]]
        /\ \A m \in DOMAIN ops'[x] : OpOK(ops'[x][m], server'.nodes)
    BY <1>1, <1>2 DEF Typed
  <2>3. DOMAIN mine \subseteq 1..MaxOps /\ \A m \in DOMAIN mine : OpOK(mine[m], server'.nodes)
    BY <1>1 DEF Typed
  <2>4. ServerOK(server') /\ clock' \in Times /\ budget' \in [{"events", "polls", "restarts"} -> Nat]
    BY <1>1 DEF Typed, Budgets
  <2>5. \A x \in Clients :
        /\ DOMAIN ops'[x] \subseteq 1..MaxOps
        /\ ops'[x] = [m \in DOMAIN ops'[x] |-> ops'[x][m]]
        /\ \A m \in DOMAIN ops'[x] : OpOK(ops'[x][m], server'.nodes)
    BY <1>2, <2>2, <2>3
  <2>. QED  BY <1>2, <2>1, <2>4, <2>5 DEF Typed
<1>4. Funded'
  <2>. SUFFICES ASSUME NEW x \in Clients, NEW m
       PROVE  m \in DOMAIN ops'[x] <=> JobsOfOp(x, m)' # {}
    BY DEF Funded
  <2>1. CASE x = c /\ m = n
    BY <1>2, <2>1
  <2>2. CASE x # c \/ m # n
    <3>1. m \in DOMAIN ops[x] <=> JobsOfOp(x, m) # {}
      BY DEF IInv, Funded
    <3>2. m \in DOMAIN ops'[x] <=> m \in DOMAIN ops[x]
      BY <1>2, <2>2
    <3>3. JobsOfOp(x, m)' = JobsOfOp(x, m)
      BY <2>2 DEF OthersKept
    <3>. QED  BY <3>1, <3>2, <3>3
  <2>. QED  BY <2>1, <2>2
<1>5. Covered'
  <2>. SUFFICES ASSUME NEW x \in Clients, NEW m \in DOMAIN ops'[x], ~ops'[x][m].error,
                       NEW f \in DOMAIN ops'[x][m].index.feeds \intersect ops'[x][m].known
       PROVE  \/ f \in Here(client'[x])
              \/ \E i \in JobsOfOp(x, m)' : i.kind = "getFeed" /\ i.feed = f
    BY DEF Covered, Here, Local
  <2>1. CASE x = c /\ m = n
    BY <1>2, <2>1
  <2>2. CASE x # c \/ m # n
    <3>1. m \in DOMAIN ops[x] /\ ops'[x][m] = ops[x][m]
      BY <1>2, <2>2
    <3>2. JobsOfOp(x, m)' = JobsOfOp(x, m)
      BY <2>2 DEF OthersKept
    <3>3. \/ f \in Here(client[x])
          \/ \E i \in JobsOfOp(x, m) : i.kind = "getFeed" /\ i.feed = f
      BY <3>1 DEF IInv, Covered
    <3>. QED  BY <3>2, <3>3 DEF Follows
  <2>. QED  BY <2>1, <2>2
<1>6. UploadsComplete' /\ MarksDone'
  <2>1. StateUploads(jobs') = StateUploads(jobs)
    BY DEF StateUploads, Gets, Minor
  <2>. QED  BY <2>1, UploadsKept DEF IInv
<1>. QED  BY <1>3, <1>4, <1>5, <1>6 DEF IInv

LEMMA PollResultStep ==
    ASSUME IInv, NEW j \in jobs, PollResult(j)
    PROVE  StepOK
<1>. DEFINE c == j.client
            k == client[c]
            ix == j.result.body
            k2 == Imported(k, ix)
<1>1. /\ Typed /\ c \in Clients /\ Fits(k) /\ IsIndex(ix) /\ j.result.known \subseteq server.nodes
      /\ j.kind = "poll" /\ UNCHANGED <<server, clock, budget>>
  <2>1. Typed /\ j.kind = "poll" /\ j.result.status = "ok" /\ UNCHANGED <<server, clock, budget>>
    BY DEF IInv, PollResult
  <2>2. c \in Clients /\ PollOK(j, server.nodes)
    BY <2>1, Kinds DEF Typed
  <2>3. Fits(k)
    BY <2>1, <2>2 DEF Typed
  <2>. QED  BY <2>1, <2>2, <2>3 DEF PollOK, Waiting, NotFound
<1>2. Follows(k, k2) /\ Fits(k2)
  BY <1>1, ImportedFollows DEF Follows
<1>3. PICK n \in 1..MaxOps :
         LET op == [index |-> ix, error |-> FALSE, known |-> j.result.known]
             asked == Requests(c, k, ix, n)
         IN  /\ n \notin DOMAIN ops[c]
             /\ IF asked = {}
                THEN Finalize(c, k2, jobs \ {j}, op) /\ UNCHANGED ops
                ELSE /\ client' = [client EXCEPT ![c] = k2]
                     /\ jobs' = (jobs \ {j}) \union asked
                     /\ ops' = [ops EXCEPT ![c] = Put(ops[c], n, op)]
  BY <1>1 DEF PollResult, Typed
<1>. DEFINE op == [index |-> ix, error |-> FALSE, known |-> j.result.known]
            asked == Requests(c, k, ix, n)
<1>. HIDE DEF k2
<1>4. budget' \in Budgets /\ j.kind \in Minor
  BY <1>1 DEF Typed, Budgets, Minor
<1>5. CASE asked = {}
  <2>. DEFINE left == jobs \ {j}
  <2>1. /\ op.error \in BOOLEAN /\ Finalize(c, k2, left, op) /\ UNCHANGED ops
        /\ Typed /\ c \in Clients /\ Fits(k2)
    BY <1>1, <1>2, <1>3, <1>5
  <2>. HIDE DEF op, left, c
  <2>2. PICK k3, more : /\ Follows(k2, k3) /\ client' = [client EXCEPT ![c] = k3]
                        /\ jobs' = left \union more
                        /\ \A x \in more : JobOK(x, server.nodes) /\ x.kind = "putIndex"
    BY <2>1, FinalizeOK
  <2>3. jobs' = (jobs \ {j}) \union more
    BY <2>2 DEF left
  <2>4. Follows(k, k3)
    BY <1>2, <2>2, FollowsTransitive
  <2>5. /\ client' \in [Clients -> States]
        /\ \A x \in Clients : Fits(client'[x]) /\ Follows(client[x], client'[x])
    BY <2>1, <2>2, <2>4, ClientStep
  <2>6. \A x \in jobs' : x \in jobs \/ (JobOK(x, server.nodes) /\ x.kind \in Minor)
    BY <2>2, <2>3 DEF Minor
  <2>7. \A x \in jobs \ {j} : x \in jobs'
    BY <2>3
  <2>. QED  BY <1>1, <1>4, <2>1, <2>5, <2>6, <2>7, MinorJobDone
<1>6. CASE asked # {}
  <2>. DEFINE mine == Put(ops[c], n, op)
  <2>1. /\ client' = [client EXCEPT ![c] = k2] /\ jobs' = (jobs \ {j}) \union asked
        /\ ops' = [ops EXCEPT ![c] = mine]
    BY <1>3, <1>6
  <2>2. /\ client' \in [Clients -> States]
        /\ \A x \in Clients : Fits(client'[x]) /\ Follows(client[x], client'[x])
        /\ Follows(client[c], client'[c])
    BY <1>1, <1>2, <2>1, ClientStep
  <2>3. \A x \in asked : /\ GetOK(x) /\ x.client = c /\ x.op = n /\ x.kind \in Gets
                         /\ JobOK(x, server.nodes)
    BY <1>1, RequestsOK DEF JobOK
  <2>4. n \notin DOMAIN ops[c] /\ JobsOfOp(c, n) = {}
    BY <1>1, <1>3 DEF IInv, Funded
  <2>5. /\ DOMAIN mine = DOMAIN ops[c] \union {n} /\ mine[n] = op
        /\ \A m \in DOMAIN mine \ {n} : mine[m] = ops[c][m]
        /\ mine = [m \in DOMAIN mine |-> mine[m]]
    BY <2>4 DEF Put
  <2>6. op.index = ix /\ op.known = j.result.known /\ OpOK(op, server.nodes)
    BY <1>1 DEF OpOK
  <2>. HIDE DEF mine, op
  <2>7. \A x \in asked : x \in JobsOfOp(c, n)'
    BY <2>1, <2>3 DEF JobsOfOp, JobsOf, Gets
  <2>8. ASSUME NEW f \in DOMAIN ix.feeds
        PROVE  \/ f \in Here(client'[c])
               \/ \E x \in JobsOfOp(c, n)' : x.kind = "getFeed" /\ x.feed = f
    <3>1. f \in Here(k) \/ \E x \in asked : x.kind = "getFeed" /\ x.feed = f
      BY <1>1, RequestsCover
    <3>2. f \in Here(k) => f \in Here(client'[c])
      BY <2>2 DEF Follows
    <3>. QED  BY <2>7, <3>1, <3>2
  <2>. HIDE DEF asked
  <2>9. OthersKept(c, n)
    <3>1. \A x, m, i : (x # c \/ m # n) /\ i.client = x /\ i.op = m /\ i.kind \in Gets
                       => (i \in jobs' <=> i \in jobs)
      BY <1>1, <2>1, <2>3 DEF Gets
    <3>. QED  BY <3>1 DEF OthersKept, JobsOfOp, JobsOf, Gets
  <2>10. JobsOfOp(c, n)' # {}
    BY <1>6, <2>7
  <2>11. \A x \in asked : JobOK(x, server.nodes) /\ x.kind \in Gets \union Minor
    BY <2>3
  <2>12. n \in DOMAIN mine /\ DOMAIN mine \ {n} = DOMAIN ops[c] \ {n}
    BY <2>5
  <2>13. j.kind \in Gets \union Minor
    BY <1>4
  <2>14. /\ OpOK(mine[n], server.nodes)
         /\ \A f \in DOMAIN mine[n].index.feeds \intersect mine[n].known :
               \/ f \in Here(client'[c])
               \/ \E x \in JobsOfOp(c, n)' : x.kind = "getFeed" /\ x.feed = f
    BY <2>5, <2>6, <2>8
  <2>15. UNCHANGED <<server, clock>> /\ c \in Clients
    BY <1>1
  <2>. HIDE DEF c
  <2>16. IInv'
    BY <1>4, <2>1, <2>2, <2>5, <2>9, <2>10, <2>11, <2>12, <2>13, <2>14, <2>15, MergeStep
  <2>17. MergesComplete
    <3>1. \A x \in Clients : DOMAIN ops[x] \subseteq DOMAIN ops'[x]
      BY <1>1, <2>1, <2>5, <2>15 DEF Typed
    <3>. QED  BY <3>1 DEF MergesComplete
  <2>. QED  BY <2>16, <2>17 DEF StepOK
<1>. QED  BY <1>5, <1>6

\* A request of a merge has been answered, or has failed.
LEMMA CompleteOneStep ==
    ASSUME IInv, NEW j \in jobs, j.kind \in Gets, NEW k, Follows(client[j.client], k),
           NEW more, \A x \in more : JobOK(x, server.nodes) /\ x.kind = "putIndex",
           NEW error \in BOOLEAN, CompleteOne(j, k, more, error),
           UNCHANGED <<server, clock>>, budget' \in Budgets,
           error => budget' # budget,
           error \/ j.kind = "getState" \/ j.feed \notin server.nodes \/ j.feed \in Here(k)
    PROVE  StepOK
<1>. DEFINE c == j.client
            n == j.op
            old == ops[c][n]
            op == [old EXCEPT !.error = old.error \/ error]
            left == (jobs \ {j}) \union more
<1>1. /\ Typed /\ c \in Clients /\ n \in 1..MaxOps /\ j \in JobsOfOp(c, n)
  <2>1. Typed /\ c \in Clients /\ GetOK(j)
    BY Kinds DEF IInv, Typed, Gets
  <2>2. j \in JobsOfOp(c, n)
    BY DEF JobsOfOp, JobsOf, Gets
  <2>. QED  BY <2>1, <2>2 DEF GetOK
<1>2. n \in DOMAIN ops[c]
  BY <1>1 DEF IInv, Funded
<1>3. OpOK(old, server.nodes)
  BY <1>1, <1>2 DEF Typed
<1>4. /\ OpOK(op, server.nodes) /\ op.index = old.index /\ op.known = old.known
      /\ (~op.error => ~error /\ ~old.error)
  <2>1. old = [index |-> old.index, error |-> old.error, known |-> old.known]
    BY <1>3 DEF OpOK
  <2>2. op = [index |-> old.index, error |-> old.error \/ error, known |-> old.known]
    BY <2>1
  <2>. QED  BY <1>3, <2>2 DEF OpOK
<1>5. /\ JobsOfOp(c, n) = {j} => /\ Finalize(c, k, left, op)
                                 /\ ops' = [ops EXCEPT ![c] = Without(ops[c], n)]
      /\ JobsOfOp(c, n) # {j} => /\ client' = [client EXCEPT ![c] = k] /\ jobs' = left
                                 /\ ops' = [ops EXCEPT ![c][n] = op]
  BY <1>1, <1>2 DEF CompleteOne, Typed
<1>. HIDE DEF op
\* What is listed and was there is here by now or asked for by another request.
<1>6. ASSUME ~error, ~old.error,
             NEW f \in DOMAIN old.index.feeds \intersect old.known
      PROVE  f \in Here(k) \/ \E x \in JobsOfOp(c, n) \ {j} : x.kind = "getFeed" /\ x.feed = f
  <2>1. f \in Here(client[c]) \/ \E x \in JobsOfOp(c, n) : x.kind = "getFeed" /\ x.feed = f
    BY <1>1, <1>2, <1>6 DEF IInv, Covered
  <2>2. f \in server.nodes
    BY <1>3 DEF OpOK
  <2>3. CASE f \in Here(client[c])
    BY <2>3 DEF Follows
  <2>4. CASE j.kind = "getFeed" /\ j.feed = f
    BY <1>6, <2>2, <2>4
  <2>. QED  BY <2>1, <2>3, <2>4
<1>. HIDE DEF c, n, left
<1>7. j.kind \in Gets \union Minor /\ UNCHANGED <<server, clock>> /\ budget' \in Budgets
  OBVIOUS
<1>8. CASE JobsOfOp(c, n) = {j}
  <2>. DEFINE mine == Without(ops[c], n)
  <2>1. ops' = [ops EXCEPT ![c] = mine]
    BY <1>5, <1>8
  <2>2. /\ DOMAIN mine = DOMAIN ops[c] \ {n} /\ \A m \in DOMAIN mine : mine[m] = ops[c][m]
        /\ mine = [m \in DOMAIN mine |-> mine[m]]
    BY DEF Without
  <2>. HIDE DEF mine
  <2>3. /\ Fits(k) /\ op.error \in BOOLEAN /\ Finalize(c, k, left, op) /\ Follows(client[c], k)
    BY <1>4, <1>5, <1>8 DEF OpOK, Follows, c
  <2>4. PICK k2, last : /\ Follows(k, k2) /\ client' = [client EXCEPT ![c] = k2]
                        /\ jobs' = left \union last
                        /\ \A x \in last : JobOK(x, server.nodes) /\ x.kind = "putIndex"
    BY <1>1, <2>3, FinalizeOK
  <2>5. Follows(client[c], k2)
    BY <2>3, <2>4, FollowsTransitive
  <2>6. /\ client' \in [Clients -> States]
        /\ \A x \in Clients : Fits(client'[x]) /\ Follows(client[x], client'[x])
        /\ client'[c] = k2
    BY <1>1, <2>4, <2>5, ClientStep DEF Typed
  <2>. DEFINE new == more \union last
  <2>7. /\ jobs' = (jobs \ {j}) \union new
        /\ \A x \in new : JobOK(x, server.nodes) /\ x.kind \in Gets \union Minor
        /\ \A x \in new : x.kind \notin Gets
    BY <2>4 DEF left, Minor, Gets
  <2>. HIDE DEF new
  <2>8. OthersKept(c, n)
    <3>1. \A x, m, i : (x # c \/ m # n) /\ i.client = x /\ i.op = m /\ i.kind \in Gets
                       => (i \in jobs' <=> i \in jobs)
      BY <2>7 DEF c, n
    <3>. QED  BY <3>1 DEF OthersKept, JobsOfOp, JobsOf, Gets
  <2>9. JobsOfOp(c, n)' = {}
    <3>1. \A i \in jobs' : i.kind \in Gets => i \in jobs \ {j}
      BY <2>7
    <3>2. \A i \in jobs \ {j} : ~(i.client = c /\ i.op = n /\ i.kind \in Gets)
      BY <1>8 DEF JobsOfOp, JobsOf, Gets
    <3>. QED  BY <3>1, <3>2 DEF JobsOfOp, JobsOf, Gets
  <2>10. /\ n \notin DOMAIN mine /\ DOMAIN mine \ {n} = DOMAIN ops[c] \ {n}
         /\ \A m \in DOMAIN mine \ {n} : mine[m] = ops[c][m]
    BY <2>2
  <2>11. IInv'
    BY <1>1, <1>7, <2>1, <2>2, <2>6, <2>7, <2>8, <2>9, <2>10, MergeStep
  <2>12. MergesComplete
    <3>. SUFFICES ASSUME NEW x \in Clients, NEW m \in DOMAIN ops[x], m \notin DOMAIN ops'[x],
                         budget' = budget, ~ops[x][m].error
         PROVE  DOMAIN ops[x][m].index.feeds \intersect ops[x][m].known \subseteq Here(client'[x])
      BY DEF MergesComplete
    <3>1. x = c /\ m = n
      BY <1>1, <2>1, <2>2 DEF Typed
    <3>2. Here(k) \subseteq Here(client'[c])
      BY <2>4, <2>6 DEF Follows
    <3>3. ~error /\ ~old.error
      BY <3>1
    <3>4. \A f \in DOMAIN old.index.feeds \intersect old.known : f \in Here(k)
      BY <1>6, <1>8, <3>3
    <3>. QED  BY <3>1, <3>2, <3>4
  <2>. QED  BY <2>11, <2>12 DEF StepOK
<1>9. CASE JobsOfOp(c, n) # {j}
  <2>. DEFINE mine == [ops[c] EXCEPT ![n] = op]
  <2>1. ops' = [ops EXCEPT ![c] = mine]
    BY <1>1, <1>5, <1>9 DEF Typed
  <2>2. /\ DOMAIN mine = DOMAIN ops[c] /\ mine[n] = op
        /\ \A m \in DOMAIN mine \ {n} : mine[m] = ops[c][m]
        /\ mine = [m \in DOMAIN mine |-> mine[m]]
    BY <1>2
  <2>. HIDE DEF mine
  <2>3. client' = [client EXCEPT ![c] = k] /\ Follows(client[c], k)
    BY <1>5, <1>9 DEF c
  <2>4. /\ client' \in [Clients -> States]
        /\ \A x \in Clients : Fits(client'[x]) /\ Follows(client[x], client'[x])
        /\ client'[c] = k
    BY <1>1, <2>3, ClientStep DEF Typed
  <2>5. /\ jobs' = (jobs \ {j}) \union more
        /\ \A x \in more : JobOK(x, server.nodes) /\ x.kind \in Gets \union Minor
        /\ \A x \in more : x.kind \notin Gets
    BY <1>5, <1>9 DEF left, Minor, Gets
  <2>6. OthersKept(c, n)
    <3>1. \A x, m, i : (x # c \/ m # n) /\ i.client = x /\ i.op = m /\ i.kind \in Gets
                       => (i \in jobs' <=> i \in jobs)
      BY <2>5 DEF c, n
    <3>. QED  BY <3>1 DEF OthersKept, JobsOfOp, JobsOf, Gets
  <2>7. JobsOfOp(c, n)' = JobsOfOp(c, n) \ {j}
    <3>1. \A i : i.kind \in Gets => (i \in jobs' <=> i \in jobs \ {j})
      BY <2>5
    <3>. QED  BY <3>1 DEF JobsOfOp, JobsOf, Gets
  <2>8. n \in DOMAIN mine /\ DOMAIN mine \ {n} = DOMAIN ops[c] \ {n} /\ JobsOfOp(c, n)' # {}
    BY <1>1, <1>2, <1>9, <2>2, <2>7
  <2>9. /\ OpOK(mine[n], server.nodes)
        /\ ~mine[n].error =>
              \A f \in DOMAIN mine[n].index.feeds \intersect mine[n].known :
                  \/ f \in Here(client'[c])
                  \/ \E x \in JobsOfOp(c, n)' : x.kind = "getFeed" /\ x.feed = f
    BY <1>4, <1>6, <2>2, <2>4, <2>7
  <2>10. IInv'
    BY <1>1, <1>7, <2>1, <2>2, <2>4, <2>5, <2>6, <2>8, <2>9, MergeStep
  <2>11. MergesComplete
    <3>1. \A x \in Clients : DOMAIN ops'[x] = DOMAIN ops[x]
      BY <1>1, <2>1, <2>2 DEF Typed
    <3>. QED  BY <3>1 DEF MergesComplete
  <2>. QED  BY <2>10, <2>11 DEF StepOK
<1>. QED  BY <1>8, <1>9

LEMMA FeedResultStep ==
    ASSUME IInv, NEW j \in jobs, FeedResult(j)
    PROVE  StepOK
<1>. DEFINE c == j.client
            k == client[c]
<1>1. /\ Typed /\ c \in Clients /\ Fits(k) /\ GetOK(j) /\ j.kind = "getFeed" /\ j.kind \in Gets
      /\ UNCHANGED <<server, clock>>
  <2>1. Typed /\ j.kind = "getFeed" /\ UNCHANGED <<server, clock>>
    BY DEF IInv, FeedResult
  <2>2. c \in Clients /\ GetOK(j)
    BY <2>1, Kinds DEF Typed
  <2>. QED  BY <2>1, <2>2 DEF Typed, Gets
<1>2. (Works \/ Fails) => budget' \in Budgets /\ (Fails => budget' # budget)
  BY <1>1, Spent DEF Works, Fails, Typed, Budgets
<1>3. Follows(k, k)
  BY <1>1, FollowsItself
<1>. DEFINE none == {}
<1>4. \A x \in none : JobOK(x, server.nodes) /\ x.kind = "putIndex"
  OBVIOUS
<1>5. ASSUME NEW place \in ResolvedParents(k, j), Works,
             CompleteOne(j, FeedMerged(k, j, place),
                         MoveJobs(c, k, FeedMerged(k, j, place), j.feed), FALSE)
      PROVE  StepOK
  <2>. DEFINE k2 == FeedMerged(k, j, place)
              more == MoveJobs(c, k, k2, j.feed)
  <2>1. place \in Places
    BY <1>1 DEF ResolvedParents, GetOK, Places
  <2>2. Follows(k, k2) /\ j.feed \in Local(k2)
    BY <1>1, <2>1, FeedMergedFollows
  <2>. HIDE DEF k2
  <2>3. Fits(k2) /\ j.feed \in Here(k2)
    BY <2>2 DEF Follows, Here
  <2>4. \A x \in more : x \in FolderUpdated(c, k2, j.feed) \/ x = PutIndex(c, k2)
    BY DEF MoveJobs
  <2>5. \A x \in more : JobOK(x, server.nodes) /\ x.kind = "putIndex"
    BY <1>1, <2>3, <2>4, FolderUpdatedOK, IndexWritten
  <2>6. CompleteOne(j, k2, more, FALSE)
    BY <1>5 DEF k2
  <2>. HIDE DEF more
  <2>7. budget' \in Budgets
    BY <1>2, <1>5
  <2>. QED  BY <1>1, <2>2, <2>3, <2>5, <2>6, <2>7, CompleteOneStep
<1>6. CASE Works /\ j.feed \notin server.nodes /\ CompleteOne(j, k, none, FALSE)
  <2>. HIDE DEF none
  <2>. QED  BY <1>1, <1>2, <1>3, <1>4, <1>6, CompleteOneStep
<1>7. CASE Fails /\ CompleteOne(j, k, none, TRUE)
  <2>. HIDE DEF none
  <2>. QED  BY <1>1, <1>2, <1>3, <1>4, <1>7, CompleteOneStep
<1>. QED  BY <1>5, <1>6, <1>7 DEF FeedResult, NotFoundMerged

LEMMA StateResultStep ==
    ASSUME IInv, NEW j \in jobs, StateResult(j)
    PROVE  StepOK
<1>. DEFINE c == j.client
            k == client[c]
<1>1. /\ Typed /\ c \in Clients /\ Fits(k) /\ GetOK(j) /\ j.kind = "getState" /\ j.kind \in Gets
      /\ UNCHANGED <<server, clock>>
  <2>1. Typed /\ j.kind = "getState" /\ UNCHANGED <<server, clock>>
    BY DEF IInv, StateResult
  <2>2. c \in Clients /\ GetOK(j)
    BY <2>1, Kinds DEF Typed
  <2>. QED  BY <2>1, <2>2 DEF Typed, Gets
<1>2. (Works \/ Fails) => budget' \in Budgets /\ (Fails => budget' # budget)
  BY <1>1, Spent DEF Works, Fails, Typed, Budgets
<1>3. Follows(k, k)
  BY <1>1, FollowsItself
<1>. DEFINE none == {}
<1>4. \A x \in none : JobOK(x, server.nodes) /\ x.kind = "putIndex"
  OBVIOUS
<1>5. CASE Works /\ j.result.status = "ok"
           /\ CompleteOne(j, StateMerged(k, j), StateJobs(c, k, j), FALSE)
  <2>. DEFINE k2 == StateMerged(k, j)
              more == StateJobs(c, k, j)
  <2>1. Follows(k, k2) /\ Fits(k2)
    BY <1>1, <1>5, StateMergedFollows DEF Follows
  <2>2. \A x \in more : x \in FolderUpdated(c, k2, j.feed)
    BY DEF StateJobs
  <2>. HIDE DEF k2
  <2>3. \A x \in more : JobOK(x, server.nodes) /\ x.kind = "putIndex"
    BY <1>1, <2>1, <2>2, FolderUpdatedOK
  <2>4. CompleteOne(j, k2, more, FALSE) /\ budget' \in Budgets
    BY <1>2, <1>5 DEF k2
  <2>. HIDE DEF more
  <2>. QED  BY <1>1, <2>1, <2>3, <2>4, CompleteOneStep
<1>6. CASE Works /\ CompleteOne(j, k, none, FALSE)
  <2>. HIDE DEF none
  <2>. QED  BY <1>1, <1>2, <1>3, <1>4, <1>6, CompleteOneStep
<1>7. CASE Fails /\ CompleteOne(j, k, none, TRUE)
  <2>. HIDE DEF none
  <2>. QED  BY <1>1, <1>2, <1>3, <1>4, <1>7, CompleteOneStep
<1>. QED  BY <1>5, <1>6, <1>7 DEF StateResult

-----------------------------------------------------------------------------
(* The initial states, and the theorems. *)

NoMarks == [f \in Feeds |-> {}]

LEMMA FirstStartFits ==
    ASSUME NEW tree \in [Feeds -> Places \union {Absent}]
    PROVE  Fits(FirstStart(tree)) /\ FirstStart(tree).marks = NoMarks
<1>. DEFINE local == {f \in Feeds : tree[f] # Absent}
            r == [tree |-> tree, folders |-> {d \in Folders : \E f \in local : tree[f] = d},
                  loaded |-> local, marks |-> [f \in Feeds |-> {}],
                  login |-> "NONE", initial |-> {}, feedTimer |-> {}, stateTimer |-> {},
                  feedMtime |-> <<>>, stateMtime |-> <<>>,
                  removed |-> {}, excused |-> {}]
<1>1. /\ r \in StatesWith({<<>>}) /\ r.loaded = local /\ r.tree = tree /\ r.marks = NoMarks
  BY DEF StatesWith, NoMarks
<1>2. FirstStart(tree) = Started(r)
  BY DEF FirstStart
<1>. HIDE DEF r
<1>3. r.loaded \subseteq Local(r) /\ \A f \in Feeds : r.marks[f] = {}
  BY <1>1 DEF Local, NoMarks
<1>4. Fits(Started(r)) /\ Started(r).marks = r.marks
  BY <1>1, <1>3, StartedFits
<1>. QED  BY <1>1, <1>2, <1>4

LEMMA UpToDateFits ==
    ASSUME NEW tree \in [Feeds -> Places \union {Absent}]
    PROVE  Fits(UpToDate(tree)) /\ UpToDate(tree).marks = NoMarks
<1>. DEFINE k == FirstStart(tree)
            once == [f \in Feeds |-> IF f \in Local(k) THEN 1 ELSE 0]
            k2 == UpToDate(tree)
<1>1. Fits(k) /\ k \in States /\ k.marks = NoMarks
  BY FirstStartFits DEF Fits
<1>2. once \in [Feeds -> Times] /\ \A f \in Feeds : once[f] > 0 => f \in Local(k)
  BY WebDAVSyncAssumption DEF Times
<1>3. k2 = [k EXCEPT !.login = "ACTIVE", !.initial = {}, !.feedTimer = {}, !.stateTimer = {},
                     !.feedMtime = once, !.stateMtime = once]
  BY DEF UpToDate
<1>. HIDE DEF k, once, k2
<1>4. /\ k2 \in States /\ k2.tree = k.tree /\ k2.loaded = k.loaded /\ k2.marks = k.marks
      /\ k2.removed = k.removed /\ k2.feedMtime = once
  BY <1>1, <1>2, <1>3 DEF States, StatesWith
<1>5. Local(k2) = Local(k)
  BY <1>4 DEF Local
<1>6. Fits(k2)
  BY <1>1, <1>2, <1>4, <1>5 DEF Fits
<1>. QED  BY <1>1, <1>4, <1>6 DEF k2

LEMMA AccountOfOK ==
    ASSUME NEW k, Fits(k)
    PROVE  ServerOK(AccountOf(k))
<1>. DEFINE s == AccountOf(k)
<1>1. IsIndex(IndexOf(k)) /\ Local(k) \subseteq Feeds
  BY IndexWritten, WebDAVSyncAssumption DEF Local
<1>2. /\ s.collection = TRUE /\ s.index = IndexOf(k) /\ s.nodes = Local(k)
      /\ s.state = [f \in Local(k) |-> {}] /\ s.writer = [f \in Local(k) |-> Owner]
      /\ s = [collection |-> s.collection, index |-> s.index, nodes |-> s.nodes,
              state |-> s.state, writer |-> s.writer]
  BY DEF AccountOf
<1>. HIDE DEF s
<1>3. /\ DOMAIN s.state = Local(k) /\ DOMAIN s.writer = Local(k)
      /\ s.state \in [Local(k) -> SUBSET Items]
  BY <1>2
<1>4. ServerOK(s)
  BY <1>1, <1>2, <1>3 DEF ServerOK
<1>. QED  BY <1>4 DEF s

LEMMA RestartedFits ==
    ASSUME NEW k, Fits(k)
    PROVE  Fits(Started(k))
<1>1. /\ k \in StatesWith([Feeds -> Times]) /\ k.loaded \subseteq Local(k)
      /\ \A f \in Feeds : k.marks[f] # {} => f \in k.loaded
  BY DEF Fits, States
<1>. QED  BY <1>1, StartedFits

LEMMA InitIInv == Init => IInv
<1>. SUFFICES ASSUME Init  PROVE IInv
  OBVIOUS
<1>1. PICK trees \in InitialTrees : NewAccount(trees) \/ JoinedAccount(trees) \/ SharedAccount(trees)
  BY DEF Init
<1>2. \A c \in Clients : trees[c] \in [Feeds -> Places \union {Absent}]
  BY WebDAVSyncAssumption DEF Places
<1>3. Owner \in Clients
  BY WebDAVSyncAssumption
<1>4. \A c \in Clients : /\ Fits(FirstStart(trees[c])) /\ FirstStart(trees[c]).marks = NoMarks
                         /\ Fits(UpToDate(trees[c])) /\ UpToDate(trees[c]).marks = NoMarks
  BY <1>2, FirstStartFits, UpToDateFits
<1>5. \A k : Fits(k) => Fits([k EXCEPT !.login = "OFF"]) /\ [k EXCEPT !.login = "OFF"].marks = k.marks
  <2>. SUFFICES ASSUME NEW k, Fits(k)
       PROVE  Fits([k EXCEPT !.login = "OFF"]) /\ [k EXCEPT !.login = "OFF"].marks = k.marks
    OBVIOUS
  <2>1. Follows(k, [k EXCEPT !.login = "OFF"])
    BY LoginFollows
  <2>2. k \in States
    BY DEF Fits
  <2>. QED  BY <2>1, <2>2 DEF Follows, States, StatesWith
<1>6. \A c \in Clients : Fits(client[c]) /\ client[c].marks = NoMarks
  <2>1. CASE NewAccount(trees)
    BY <1>4, <1>5, <2>1 DEF NewAccount
  <2>2. CASE JoinedAccount(trees)
    BY <1>4, <2>2 DEF JoinedAccount
  <2>3. CASE SharedAccount(trees)
    BY <1>3, <1>4, <2>3 DEF SharedAccount
  <2>. QED  BY <1>1, <2>1, <2>2, <2>3
<1>7. client \in [Clients -> States]
  <2>1. client = [c \in Clients |-> client[c]]
    BY <1>1 DEF NewAccount, JoinedAccount, SharedAccount
  <2>2. \A c \in Clients : client[c] \in States
    BY <1>6 DEF Fits
  <2>. QED  BY <2>1, <2>2
<1>8. \A j \in jobs : JobOK(j, server.nodes) /\ j.kind = "putIndex"
  <2>1. \A c \in Clients : Fits(Started(client[c]))
    BY <1>6, RestartedFits
  <2>2. \A c \in Clients : \A j \in StartJobs(c, client[c]) :
           JobOK(j, server.nodes) /\ j.kind = "putIndex"
    BY <2>1, StartJobsOK
  <2>3. \A j \in jobs : \E c \in Clients : j \in StartJobs(c, client[c])
    BY <1>1, <1>3 DEF NewAccount, JoinedAccount, SharedAccount
  <2>. QED  BY <2>2, <2>3
<1>9. ServerOK(server)
  <2>1. CASE NewAccount(trees)
    <3>1. server = [collection |-> FALSE, index |-> NoIndex, nodes |-> {},
                    state |-> [f \in {} |-> {}], writer |-> [f \in {} |-> 0]]
      BY <2>1 DEF NewAccount
    <3>2. /\ server.collection = FALSE /\ server.index = NoIndex /\ server.nodes = {}
          /\ DOMAIN server.state = {} /\ DOMAIN server.writer = {}
          /\ server.state \in [{} -> SUBSET Items]
      BY <3>1
    <3>3. server = [collection |-> server.collection, index |-> server.index, nodes |-> server.nodes,
                    state |-> server.state, writer |-> server.writer]
      BY <3>1
    <3>. QED  BY <3>2, <3>3 DEF ServerOK
  <2>2. CASE JoinedAccount(trees) \/ SharedAccount(trees)
    <3>1. server = AccountOf(UpToDate(trees[Owner]))
      BY <2>2 DEF JoinedAccount, SharedAccount
    <3>. QED  BY <1>3, <1>4, <3>1, AccountOfOK
  <2>. QED  BY <1>1, <2>1, <2>2
<1>10. budget \in [{"events", "polls", "restarts"} -> Nat]
  <2>1. /\ budget = [events |-> budget["events"], polls |-> budget["polls"],
                     restarts |-> budget["restarts"]]
        /\ budget["events"] \in Nat /\ budget["polls"] \in Nat /\ budget["restarts"] \in Nat
    BY <1>1, WebDAVSyncAssumption DEF NewAccount, JoinedAccount, SharedAccount
  <2>. QED  BY <2>1
<1>11. /\ clock \in Times /\ ops = [c \in Clients |-> ops[c]]
       /\ \A c \in Clients : ops[c] = [n \in {} |-> 0]
  BY WebDAVSyncAssumption DEF Init, Times
<1>12. \A c \in Clients : DOMAIN ops[c] = {} /\ ops[c] = [n \in DOMAIN ops[c] |-> ops[c][n]]
  BY <1>11
<1>13. Typed
  BY <1>6, <1>7, <1>8, <1>9, <1>10, <1>11, <1>12 DEF Typed
<1>14. Funded /\ Covered
  BY <1>8, <1>12 DEF Funded, Covered, JobsOfOp, JobsOf
<1>15. UploadsComplete /\ MarksDone
  BY <1>6, <1>8 DEF UploadsComplete, MarksDone, StateUploads, NoMarks
<1>. QED  BY <1>13, <1>14, <1>15 DEF IInv

LEMMA Stutter ==
    ASSUME IInv, UNCHANGED vars
    PROVE  StepOK
<1>. USE DEF vars
<1>1. Typed' /\ Funded' /\ Covered' /\ UploadsComplete' /\ MarksDone'
  BY DEF IInv, Typed, Funded, Covered, UploadsComplete, MarksDone, Here, Local, JobsOfOp, JobsOf,
         StateUploads, Due, Uploaded
<1>2. MergesComplete
  BY DEF MergesComplete
<1>. QED  BY <1>1, <1>2 DEF StepOK, IInv

LEMMA NextStep ==
    ASSUME IInv, [Next]_vars
    PROVE  StepOK
<1>1. ASSUME NEW c \in Clients, NEW f \in Feeds,
             \/ \E i \in Items : ItemChanged(c, f, i)
             \/ RemoveNode(c, f) \/ \E p \in Places : AddSubscription(c, f, p)
      PROVE  StepOK
  BY <1>1, ItemChangedStep, RemoveNodeStep, AddSubscriptionStep
<1>2. ASSUME NEW c \in Clients, NEW d \in Folders, AddFolder(c, d)
      PROVE  StepOK
  BY <1>2, AddFolderStep
<1>3. CASE User
  BY <1>1, <1>2, <1>3 DEF User
<1>4. ASSUME NEW c \in Clients, Login(c) \/ Poll(c) \/ Restart(c)
      PROVE  StepOK
  BY <1>4, LoginStep, PollStep, RestartStep
<1>5. ASSUME NEW c \in Clients, NEW f \in Feeds, Download(c, f) \/ FlushFeed(c, f) \/ FlushState(c, f)
      PROVE  StepOK
  BY <1>5, DownloadStep, FlushFeedStep, FlushStateStep
<1>6. CASE Own
  BY <1>4, <1>5, <1>6 DEF Own
<1>7. ASSUME NEW j \in jobs, UploadPut(j) \/ UploadFails(j) \/ IndexPut(j)
      PROVE  StepOK
  BY <1>7, UploadPutStep, UploadFailsStep, IndexPutStep
<1>8. ASSUME NEW j \in jobs,
             BootstrapMkcol(j) \/ BootstrapIndex(j) \/ BootstrapFails(j) \/ PollInvalid(j) \/ PollFails(j)
      PROVE  StepOK
  BY <1>8, BootstrapMkcolStep, BootstrapIndexStep, EndsWithoutResultStep
<1>9. ASSUME NEW j \in jobs, PollResult(j) \/ FeedResult(j) \/ StateResult(j)
      PROVE  StepOK
  BY <1>9, PollResultStep, FeedResultStep, StateResultStep
<1>10. CASE \E j \in jobs : Serve(j) \/ Process(j)
  BY <1>7, <1>8, <1>9, <1>10, ServeStep DEF Process
<1>11. CASE UNCHANGED vars
  BY <1>11, Stutter
<1>. QED  BY <1>3, <1>6, <1>10, <1>11 DEF Next

\* The invariant holds in every behaviour.
THEOREM Invariant == Spec => []IInv
<1>1. IInv /\ [Next]_vars => IInv'
  BY NextStep DEF StepOK
<1>. QED  BY <1>1, InitIInv, PTL DEF Spec

\* Every variable keeps its type: the trees, folders and times of the clients stay
\* within what the account can have, whatever the index that was merged said.
THEOREM TypeCorrect == Spec => []TypeOK
<1>1. IInv => TypeOK
  <2>. SUFFICES ASSUME IInv  PROVE TypeOK
    OBVIOUS
  <2>1. \A c \in Clients : client[c] \in States
    BY DEF IInv, Typed
  <2>2. server.nodes \subseteq Feeds /\ DOMAIN server.state = DOMAIN server.writer
    BY DEF IInv, Typed, ServerOK
  <2>3. \A j \in jobs : j.client \in Clients
    BY Kinds DEF IInv, Typed
  <2>4. \A c \in Clients :
          /\ client[c].tree \in [Feeds -> Places \union {Absent}]
          /\ client[c].folders \subseteq Folders /\ client[c].marks \in [Feeds -> SUBSET Items]
          /\ client[c].login \in {"OFF", "NONE", "IN_PROGRESS", "ACTIVE", "AUTH_FAILED"}
          /\ client[c].loaded \union client[c].initial \subseteq Feeds
          /\ client[c].feedMtime \in [Feeds -> 0..MaxClock]
          /\ client[c].stateMtime \in [Feeds -> 0..MaxClock]
    BY <2>1 DEF States, StatesWith, Times
  <2>. QED  BY <2>2, <2>3, <2>4 DEF TypeOK
<1>. QED  BY <1>1, Invariant, PTL

\* A merge that has not ended has a request under way whose answer, good or bad,
\* counts it down in webdav_merge_op_complete_one(): none is left over for ever.
THEOREM MergesHaveRequests == Spec => []MergesGoOn
<1>1. IInv => MergesGoOn
  BY DEF IInv, Funded, MergesGoOn
<1>. QED  BY <1>1, Invariant, PTL

\* What the user marked is on the server, in a file under way or about to be uploaded,
\* through merges, restarts and uploads in any order.
THEOREM MarksUploaded == Spec => []MarksAreUploaded
<1>1. IInv => MarksAreUploaded
  <2>. SUFFICES ASSUME IInv, NEW c \in Clients, NEW f \in Local(client[c]) \ client[c].excused,
                       NEW i \in client[c].marks[f], f \notin client[c].stateTimer
       PROVE  \/ f \in DOMAIN server.writer /\ (i \in server.state[f] \/ server.writer[f] # c)
              \/ \E j \in JobsOf(c) : /\ j.kind = "upload" /\ j.feed = f /\ j.what = "state"
                                      /\ i \in j.body
    BY DEF MarksAreUploaded
  <2>1. f \in Feeds /\ Due(client[c], f)
    BY DEF Local, Due
  <2>2. Uploaded(c, f, i)
    BY <2>1 DEF IInv, MarksDone
  <2>. QED  BY <2>2 DEF Uploaded, StateUploads, JobsOf
<1>. QED  BY <1>1, Invariant, PTL

\* When a merge ends without an error, each feed that the index listed and whose file
\* the server had is in the tree, or the user removed it in the meantime.
THEOREM NoFeedMissing == Spec => NothingMissing
<1>1. IInv /\ [Next]_vars => MergesComplete
  BY NextStep DEF StepOK
<1>2. MergesComplete =>
        \A c \in Clients : \A n \in DOMAIN ops[c] :
          (/\ n \notin DOMAIN ops'[c] /\ budget' = budget
           /\ ~ops[c][n].error)
          => DOMAIN ops[c][n].index.feeds \intersect ops[c][n].known
                 \subseteq Local(client'[c]) \union client'[c].removed
  BY DEF MergesComplete, Here
<1>. QED  BY <1>1, <1>2, Invariant, PTL DEF Spec, NothingMissing
=============================================================================
