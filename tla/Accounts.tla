------------------------------ MODULE Accounts ------------------------------
(***************************************************************************)
(* Accounts of online services and remote feed lists (src/node_source.c    *)
(* and, under src/node_sources, google_source*.c, reedah_source*.c,        *)
(* ttrss_source*.c and opml_source.c): login, polling and merging of the   *)
(* list of subscriptions, changes of the user that go to the server,       *)
(* conversion to local feeds and restarts.                                 *)
(*                                                                         *)
(* All accounts have the same type; WebDAVSync has the type that keeps its *)
(* list in files.  A feed of the tree has a place, which is a folder or    *)
(* the root of an account.  Folders are not nested.  The server has a      *)
(* folder if a feed is in it.  Two copies of a feed at the same place      *)
(* count as one.                                                           *)
(***************************************************************************)
EXTENDS Integers, FiniteSets

CONSTANTS
    Accounts, Urls,
    Names,              \* names of folders, the same on all servers
    Top,                \* where a feed is that is in no folder
    Absent,             \* where a feed is that the server does not have
    Types,              \* the types of node sources to look at
    InitialLists,       \* the lists the servers may have at first
    MaxLogins,          \* bound on login requests of an account under way
    MaxChanges,         \* bound on changes made on the servers
    MaxEvents,          \* bound on what the user does and on failed requests
    MaxRestarts

ASSUME AccountsAssumption ==
    /\ Types \subseteq {"google", "reedah", "ttrss", "opml"}
    /\ Top \notin Names /\ Absent \notin Names \union {Top}
    /\ InitialLists \subseteq [Urls -> Names \union {Top, Absent}]
    /\ MaxLogins \in Nat \ {0} /\ MaxChanges \in Nat
    /\ MaxEvents \in Nat /\ MaxRestarts \in Nat

VARIABLES
    type,           \* nodeSourceType of the accounts
    open,           \* the servers accept requests without a token, because of
                    \* a cookie or of the name and password of the account
    running,        \* the process has not crashed
    acct,           \* nodeSource, and the state of the account's subscription
    tree,           \* the feeds and folders of the feed list
    stored,         \* feeds whose id is in the table subscription_metadata
    saved,          \* the OPML files: the tree at the last export
    edits,          \* changes on their way to the servers
    remote,         \* the subscription lists of the servers
    budget          \* what is left of the bounds

vars == <<type, open, running, acct, tree, stored, saved, edits, remote, budget>>

\* type->capabilities
CanLogin == type \in {"reedah", "ttrss"}
Writable == type # "opml"

LoggedIn(k) == ~CanLogin \/ k.login = "ACTIVE"          \* node_source_is_logged_in()

NoPoll == [state |-> "none"]

\* node_source_new(), without the tree
NewAccount == [login |-> "NONE", token |-> FALSE, dialog |-> FALSE,
               poll |-> NoPoll, logins |-> [high \in BOOLEAN |-> 0]]

-----------------------------------------------------------------------------
(* The tree.                                                               *)

FeedsOf(t, a) == {f \in t.feeds : f.owner = a}
FoldersOf(t, a) == {d \in t.folders : d.owner = a}

\* node_from_id() of an id that has the type and the name of the folder in
\* it, but not the account; OPML folders are looked up below their account.
Folder(t, a, name) ==
    {d \in t.folders : d.name = name /\ (type = "opml" => d.owner = a)}

\* node_source_find_or_create_folder(): the folders of list, each made below
\* the account a if there is none
WithFolders(t, a, list) ==
    [t EXCEPT !.folders = @ \union
        {[owner |-> a, name |-> n] :
            n \in {m \in Names : Folder(t, a, m) = {} /\ \E u \in Urls : list[u] = m}}]

\* The account below which a feed from a's list is put.
OwnerAt(t, a, place) ==
    IF place = Top THEN a ELSE (CHOOSE d \in Folder(t, a, place) : TRUE).owner

\* feedlist_find_node(): any copy of u below the account a
Found(t, a, u) == {f \in FeedsOf(t, a) : f.url = u}

NewFeed(t, a, u, place) ==
    [owner |-> OwnerAt(t, a, place), place |-> place, url |-> u, id |-> TRUE, fetching |-> TRUE]

\* google_source_merge_feed(): a new feed in its folder, a known one moved, but by
\* node_source_update_folder(), which does nothing without a login
GoogleMergedFeed(t, a, u, place) ==
    IF Found(t, a, u) = {} THEN {NewFeed(t, a, u, place)}
    ELSE IF ~LoggedIn(acct[a]) THEN Found(t, a, u)
    ELSE LET first == CHOOSE f \in Found(t, a, u) : TRUE
         IN  (Found(t, a, u) \ {first}) \union
                {[first EXCEPT !.place = place, !.owner = OwnerAt(t, a, place)]}

\* reedah_source_merge_feed(): new feeds are put at the root, and moved by
\* the next poll.
ReedahMergedFeed(t, a, u, place) ==
    IF Found(t, a, u) = {} THEN {NewFeed(t, a, u, Top)} ELSE GoogleMergedFeed(t, a, u, place)

\* ttrss_source_merge_feed()
TtrssMergedFeed(t, a, u, place) == GoogleMergedFeed(t, a, u, place)

\* opml_source_merge_feed(): a feed that is somewhere in the old list stays.
OpmlMergedFeed(t, a, u, place) ==
    IF Found(t, a, u) = {} THEN {NewFeed(t, a, u, place)} ELSE Found(t, a, u)

\* What remains of the feeds below a that the list does not have
Unlisted(t, a, list) == {f \in FeedsOf(t, a) : list[f.url] = Absent}

WithFeeds(t, a, list, MergedFeed(_, _, _, _)) ==
    [t EXCEPT !.feeds = (@ \ FeedsOf(t, a)) \union Unlisted(t, a, list) \union
        UNION {MergedFeed(t, a, u, list[u]) : u \in {v \in Urls : list[v] # Absent}}]

\* The check for removal of a folder, which comes after the moves and before
\* the feeds in it are removed: its last feed leaves it to the next poll.
EmptyFolders(t, a) ==
    {d \in FoldersOf(t, a) : \A f \in t.feeds : f.place # d.name \/ f.owner # d.owner}

\* google_source_check_node_for_removal(): a feed without an id is kept.
GoogleCleanedUp(t, a, list) ==
    [feeds |-> t.feeds \ {f \in Unlisted(t, a, list) : f.id},
     folders |-> t.folders \ EmptyFolders(t, a)]

\* reedah_source_check_node_for_removal(): one without an id is dropped.
ReedahCleanedUp(t, a, list) ==
    [feeds |-> t.feeds \ (Unlisted(t, a, list) \union {f \in FeedsOf(t, a) : ~f.id}),
     folders |-> t.folders \ EmptyFolders(t, a)]

\* ttrss_source_check_node_for_removal()
TtrssCleanedUp(t, a, list) ==
    [feeds |-> t.feeds \ Unlisted(t, a, list),
     folders |-> t.folders \ EmptyFolders(t, a)]

\* opml_source_check_for_removal(): a folder is looked for by its title, and
\* goes with all its feeds.
OpmlCleanedUp(t, a, list) ==
    LET gone == {d \in FoldersOf(t, a) : \A u \in Urls : list[u] # d.name}
    IN  [feeds |-> t.feeds \ (Unlisted(t, a, list) \union
                              {f \in FeedsOf(t, a) : \E d \in gone : d.name = f.place}),
         folders |-> t.folders \ gone]

\* google_source_feed_list_subscription_process_update_result()
GoogleMerged(t, a, list) ==
    GoogleCleanedUp(WithFeeds(WithFolders(t, a, list), a, list, GoogleMergedFeed), a, list)

\* reedah_source_opml_subscription_process_update_result()
ReedahMerged(t, a, list) ==
    ReedahCleanedUp(WithFeeds(WithFolders(t, a, list), a, list, ReedahMergedFeed), a, list)

\* ttrss_source_subscription_list_cb()
TtrssMerged(t, a, list) ==
    TtrssCleanedUp(WithFeeds(WithFolders(t, a, list), a, list, TtrssMergedFeed), a, list)

\* opml_subscription_process_update_result(): removes first, then adds
OpmlMerged(t, a, list) ==
    WithFeeds(WithFolders(OpmlCleanedUp(t, a, list), a, list), a, list, OpmlMergedFeed)

Merged(t, a, list) ==
    CASE type = "google" -> GoogleMerged(t, a, list)
      [] type = "reedah" -> ReedahMerged(t, a, list)
      [] type = "ttrss" -> TtrssMerged(t, a, list)
      [] type = "opml" -> OpmlMerged(t, a, list)

\* The feeds that lose their id with their rows in the database
Forgotten(old, new) ==
    {[owner |-> f.owner, url |-> f.url] : f \in old.feeds} \ {[owner |-> f.owner, url |-> f.url] : f \in new.feeds}

StoredLater(old, new) == stored \ Forgotten(old, new)

\* reedah_source_merge_feed() and ttrss_source_merge_feed() write the id of a
\* new feed at once, and the row of a feed that moves stays its own; for google
\* it is written with the first answer.
StoredIds(old, new) ==
    (stored \ Forgotten(old, new)) \union
        {[owner |-> f.owner, url |-> f.url] :
            f \in {g \in new.feeds : g.id /\ type \in {"reedah", "ttrss"}
                                     /\ \A h \in old.feeds : h.owner # g.owner \/ h.url # g.url \/ ~h.id}}

-----------------------------------------------------------------------------
(* Requests.                                                               *)

Authorized(token) == open \/ type = "opml" \/ (type = "reedah" /\ token)

WithLogin(k, high) == [k EXCEPT !.logins[high] = @ + 1]
MayLogin(k) == k.logins[TRUE] + k.logins[FALSE] < MaxLogins

Asked(k, only) == [k EXCEPT !.poll = [state |-> "asked", only |-> only, token |-> k.token]]

\* ttrss_subscription_prepare_update_request(): a login comes first.
TtrssAsked(k, only) == IF k.login = "NONE" THEN WithLogin(k, FALSE) ELSE Asked(k, only)

\* subscription_update() of the account's own subscription
RootUpdated(k, only) ==
    IF k.poll.state # "none" THEN k
    ELSE IF type = "ttrss" THEN TtrssAsked(k, only) ELSE Asked(k, only)

\* RootUpdated() keeps to the bound on logins.
MayUpdate(k) == type = "ttrss" /\ k.login = "NONE" /\ k.poll.state = "none" => MayLogin(k)

Fetched(feeds) == {[f EXCEPT !.fetching = TRUE] : f \in feeds}

\* google_source_feed_subscription_prepare_ids_request(): skips feeds that
\* have no id
GooglePrepared(feeds, k) ==
    IF k.login = "NONE" THEN feeds
    ELSE {f \in feeds : ~f.id} \union Fetched({f \in feeds : f.id})

\* reedah_feed_subscription_prepare_update_request() and
\* ttrss_feed_subscription_prepare_update_request(): remove them
ReedahPrepared(feeds) == Fetched({f \in feeds : f.id})
TtrssPrepared(feeds) == Fetched({f \in feeds : f.id})

\* node_update_subscription() of the feeds of a
FeedsUpdated(t, a, k) ==
    LET feeds == FeedsOf(t, a)
    IN  [t EXCEPT !.feeds = (@ \ feeds) \union
            CASE type = "google" -> GooglePrepared(feeds, k)
              [] type = "reedah" -> IF LoggedIn(k) THEN ReedahPrepared(feeds) ELSE feeds
              [] type = "ttrss" -> IF LoggedIn(k) THEN TtrssPrepared(feeds) ELSE feeds
              [] type = "opml" -> Fetched(feeds)]

\* ... which, as long as google has not been polled by the timer, starts
\* another poll.
PollAgain(t, a, k) ==
    IF type = "google" /\ k.login = "NONE" /\ FeedsOf(t, a) # {} THEN RootUpdated(k, FALSE) ELSE k

Crash ==
    /\ running' = FALSE
    /\ UNCHANGED <<type, open, acct, tree, stored, saved, edits, remote, budget>>

Spend(b) == budget[b] > 0 /\ budget' = [budget EXCEPT ![b] = @ - 1]

Alone(a) == running /\ acct[a].login # "MIGRATE"
Changed(a, k) == acct' = [acct EXCEPT ![a] = k]

-----------------------------------------------------------------------------
(* Login and polling.                                                      *)

\* node_source_auto_update().  The timer passes no flags through
\* node_foreach_child(), so whether the login is taken for one that the user
\* waits for is not defined.
AutoUpdate(a) ==
    /\ Alone(a) /\ acct[a].login # "IN_PROGRESS"
    /\ IF acct[a].login = "NONE" /\ CanLogin
       THEN /\ MayLogin(acct[a])
            /\ \E high \in BOOLEAN : Changed(a, WithLogin([acct[a] EXCEPT !.login = "IN_PROGRESS"], high))
       ELSE Changed(a, RootUpdated(IF acct[a].login = "NONE" THEN [acct[a] EXCEPT !.login = "ACTIVE"]
                                                             ELSE acct[a], FALSE))
    /\ UNCHANGED <<type, open, running, tree, stored, saved, edits, remote, budget>>

\* node_source_update(): the user updates an account, or has just created it.
Update(a) ==
    /\ Alone(a) /\ MayUpdate(acct[a]) /\ Spend("events")
    /\ Changed(a, RootUpdated(acct[a], FALSE))
    /\ UNCHANGED <<type, open, running, tree, stored, saved, edits, remote>>

LoginAnswered(a, high) == [acct[a] EXCEPT !.logins[high] = @ - 1]

AuthFailedQuietly(k, challenge) == [k EXCEPT !.dialog = challenge \/ @]

\* node_source_set_auth_failed()
AuthFailed(k, challenge) ==
    [k EXCEPT !.login = IF challenge THEN "AUTH_CHALLENGE" ELSE "AUTH_FAILED", !.dialog = challenge \/ @]

\* node_source_set_auth_token()
WithToken(k) == [k EXCEPT !.token = TRUE, !.login = "ACTIVE"]

\* A login succeeds.  An assertion says that there was no token before.
LoggedInNow(a, high) ==
    /\ acct[a].logins[high] > 0
    /\ IF acct[a].token
       THEN Crash
       ELSE /\ Changed(a, RootUpdated(WithToken(LoginAnswered(a, high)), FALSE))
            /\ UNCHANGED <<type, open, running, tree, stored, saved, edits, remote, budget>>

\* ... or fails.
LoginRefused(a, high) ==
    /\ acct[a].logins[high] > 0 /\ Spend("events")
    /\ Changed(a, AuthFailed(LoginAnswered(a, high), high))
    /\ UNCHANGED <<type, open, running, tree, stored, saved, edits, remote>>

\* reedah_source_login_cb()
ReedahLogin(a, high) ==
    /\ running /\ type = "reedah"
    /\ LoggedInNow(a, high) \/ LoginRefused(a, high)

\* ttrss_source_login_cb(); there may be a second login, as only those of the
\* timer set the state to IN_PROGRESS.
TtrssLogin(a, high) ==
    /\ running /\ type = "ttrss"
    /\ LoggedInNow(a, high) \/ LoginRefused(a, high)

\* on_authdialog_response(): new credentials start a poll and no login.
AnswerDialog(a, ok) ==
    /\ Alone(a) /\ acct[a].dialog /\ MayUpdate(acct[a])
    /\ Changed(a, IF ok THEN RootUpdated([acct[a] EXCEPT !.dialog = FALSE], FALSE)
                        ELSE [acct[a] EXCEPT !.dialog = FALSE])
    /\ UNCHANGED <<type, open, running, tree, stored, saved, edits, remote, budget>>

\* The server answers with its list.
ListSent(a) ==
    /\ running /\ acct[a].poll.state = IF type = "ttrss" THEN "askedFeeds" ELSE "asked"
    /\ Authorized(acct[a].poll.token)
    /\ Changed(a, [acct[a] EXCEPT !.poll = [state |-> "sent", only |-> @.only, list |-> remote[a]]])
    /\ UNCHANGED <<type, open, running, tree, stored, saved, edits, remote, budget>>

\* ttrss_source_merge_categories()
WithCategories(t, a, list) == WithFolders(t, a, list)

\* ttrss_source_update_subscription_list(): this job is in updateJob too, and
\* nothing ever takes it out.
FeedsAsked(k) == [k EXCEPT !.poll = [@ EXCEPT !.state = "askedFeeds", !.only = FALSE]]

\* ttrss_subscription_process_update_result(): the server sends the tree of
\* its categories first.
CategoriesMerged(a) ==
    /\ running /\ type = "ttrss" /\ acct[a].poll.state = "asked" /\ Authorized(acct[a].poll.token)
    /\ tree' = WithCategories(tree, a, remote[a])
    /\ Changed(a, FeedsAsked(acct[a]))
    /\ UNCHANGED <<type, open, running, stored, saved, edits, remote, budget>>

\* 401 opens a dialog; TinyTinyRSS tells the error in a valid answer.
ListDenied(a) ==
    /\ running /\ acct[a].poll.state \in {"asked", "askedFeeds"} /\ ~Authorized(acct[a].poll.token)
    /\ Changed(a, [acct[a] EXCEPT !.poll = NoPoll, !.dialog = @ \/ type # "ttrss"])
    /\ UNCHANGED <<type, open, running, tree, stored, saved, edits, remote, budget>>

\* subscription_process_update_result() with an error, or an answer that is
\* no list.  Some of these errors do not keep the feeds from being updated.
ListFails(a) ==
    /\ running /\ acct[a].poll.state \in {"asked", "askedFeeds"} /\ Spend("events")
    /\ \/ UNCHANGED tree
       \/ /\ type # "google" /\ ~(type = "ttrss" /\ acct[a].poll.state = "asked")
          /\ tree' = FeedsUpdated(tree, a, acct[a])
    /\ Changed(a, [acct[a] EXCEPT !.poll = IF @.state = "askedFeeds" THEN [state |-> "stuck"] ELSE NoPoll])
    /\ UNCHANGED <<type, open, running, stored, saved, edits, remote>>

PollKept(k) == [k EXCEPT !.poll = [state |-> "stuck"]]
PollDone(k) == [k EXCEPT !.poll = IF type = "ttrss" THEN [state |-> "stuck"] ELSE NoPoll]

\* *_process_update_result() and ttrss_source_subscription_list_cb() with a
\* list, and opml_source_export() at the end
ListMerged(a) ==
    /\ running /\ acct[a].poll.state = "sent"
    /\ LET list == acct[a].poll.list
           only == acct[a].poll.only
           merged == Merged(tree, a, list)
           updated == IF only THEN merged ELSE FeedsUpdated(merged, a, acct[a])
           k == PollDone(acct[a])
       IN  /\ tree' = updated
           /\ stored' = StoredIds(tree, updated)
           /\ saved' = [saved EXCEPT ![a] = [feeds |-> FeedsOf(merged, a), folders |-> FoldersOf(merged, a)]]
           /\ Changed(a, IF only THEN k ELSE PollAgain(merged, a, k))
    /\ UNCHANGED <<type, open, running, edits, remote, budget>>

\* reedah_source_check_node_for_removal() and the one of TinyTinyRSS go on to
\* the children of a folder they have just freed.
FolderUsedAfterFree(a) ==
    /\ running /\ acct[a].poll.state = "sent" /\ CanLogin
    /\ LET list == acct[a].poll.list
           merged == IF type = "reedah"
                     THEN WithFeeds(WithFolders(tree, a, list), a, list, ReedahMergedFeed)
                     ELSE WithFeeds(WithFolders(tree, a, list), a, list, TtrssMergedFeed)
       IN  EmptyFolders(merged, a) # {}
    /\ Crash

\* db_subscription_update() after the answer to a request of feed f
Answered(f) ==
    /\ tree' = [tree EXCEPT !.feeds = (@ \ {f}) \union {[f EXCEPT !.fetching = FALSE]}]
    /\ stored' = IF f.id THEN stored \union {[owner |-> f.owner, url |-> f.url]} ELSE stored
    /\ UNCHANGED <<type, open, running, acct, saved, edits, remote, budget>>

\* google_source_feed_subscription_process_ids_result() reads past the token
\* of the account, which never gets one as it has no login: the first ids
\* end the process.  Requests may be denied or fail as well.
GoogleIds(f) ==
    /\ running /\ f.fetching /\ type = "google"
    /\ Answered(f) \/ (open /\ Crash)

\* reedah_feed_subscription_process_update_result()
ReedahItems(f) == running /\ f.fetching /\ type = "reedah" /\ Answered(f)

\* ttrss_feed_subscription_process_update_result()
TtrssItems(f) == running /\ f.fetching /\ type = "ttrss" /\ Answered(f)

\* feed_process_update_result()
OpmlItems(f) == running /\ f.fetching /\ type = "opml" /\ Answered(f)

-----------------------------------------------------------------------------
(* Changes by the user and on the servers.                                 *)

Subscribe(a, u) == [acc |-> a, what |-> "subscribe", url |-> u]
Unsubscribe(a, u) == [acc |-> a, what |-> "unsubscribe", url |-> u]

\* node_source_add_subscription()
AddFeed(a, u) ==
    /\ Alone(a) /\ Writable /\ LoggedIn(acct[a]) /\ Spend("events")
    /\ edits' = edits \union {Subscribe(a, u)}
    /\ UNCHANGED <<type, open, running, acct, tree, stored, saved, remote>>

\* google_source_remove_node(): removed at once; the server is told if there
\* is no other copy.
GoogleRemoves(f) ==
    LET t == [tree EXCEPT !.feeds = @ \ {f}]
    IN  /\ type = "google"
        /\ edits' = IF f.id /\ Found(t, f.owner, f.url) = {} THEN edits \union {Unsubscribe(f.owner, f.url)} ELSE edits
        /\ tree' = t /\ stored' = stored \ Forgotten(tree, t)

\* reedah_source_remove_node(): the same, but the id is made from the url
ReedahRemoves(f) ==
    LET t == [tree EXCEPT !.feeds = @ \ {f}]
    IN  /\ type = "reedah"
        /\ edits' = IF Found(t, f.owner, f.url) = {} THEN edits \union {Unsubscribe(f.owner, f.url)} ELSE edits
        /\ tree' = t /\ stored' = stored \ Forgotten(tree, t)

\* ttrss_source_remove_node(): removed when the server has done it
TtrssRemoves(f) ==
    /\ type = "ttrss" /\ f.id
    /\ edits' = edits \union {Unsubscribe(f.owner, f.url)}
    /\ UNCHANGED <<tree, stored>>

\* node_source_remove_node()
RemoveFeed(f) ==
    /\ Alone(f.owner) /\ LoggedIn(acct[f.owner]) /\ Spend("events")
    /\ GoogleRemoves(f) \/ ReedahRemoves(f) \/ TtrssRemoves(f)
    /\ UNCHANGED <<type, open, running, acct, saved, remote>>

\* google_reader_api_edit_add_subscription_complete(): the list is polled.
Subscribed(e) ==
    /\ e.what = "subscribe" /\ type # "ttrss"
    /\ remote' = [remote EXCEPT ![e.acc][e.url] = IF @ = Absent THEN Top ELSE @]
    /\ Changed(e.acc, RootUpdated(acct[e.acc], TRUE))
    /\ UNCHANGED <<running, tree, stored>>

\* ttrss_source_subscribe_cb() takes the node of the account for a
\* subscription and follows what it finds there.
TtrssSubscribed(e) ==
    /\ e.what = "subscribe" /\ type = "ttrss"
    /\ remote' = [remote EXCEPT ![e.acc][e.url] = IF @ = Absent THEN Top ELSE @]
    /\ running' = FALSE
    /\ UNCHANGED <<acct, tree, stored>>

\* google_reader_api_edit_remove_callback(): a feed that came back with a
\* poll is removed once more, if it is at the root.
Unsubscribed(e) ==
    LET again == {f \in Found(tree, e.acc, e.url) : f.place = Top /\ (type = "google" => f.id)}
        t == [tree EXCEPT !.feeds = @ \ again]
    IN  /\ e.what = "unsubscribe" /\ type # "ttrss"
        /\ remote' = [remote EXCEPT ![e.acc][e.url] = Absent]
        /\ tree' = t /\ stored' = stored \ Forgotten(tree, t)
        /\ UNCHANGED <<running, acct>>

\* ttrss_source_remove_node_cb(): the node may have been freed by a poll.
TtrssUnsubscribed(e) ==
    LET found == Found(tree, e.acc, e.url)
        t == [tree EXCEPT !.feeds = @ \ found]
    IN  /\ e.what = "unsubscribe" /\ type = "ttrss"
        /\ remote' = [remote EXCEPT ![e.acc][e.url] = Absent]
        /\ running' = (found # {})
        /\ tree' = t /\ stored' = stored \ Forgotten(tree, t)
        /\ UNCHANGED acct

\* A change has arrived at the server.
EditDone(e) ==
    /\ running /\ Authorized(acct[e.acc].token)
    /\ Subscribed(e) \/ TtrssSubscribed(e) \/ Unsubscribed(e) \/ TtrssUnsubscribed(e)
    /\ edits' = edits \ {e}
    /\ UNCHANGED <<type, open, saved, budget>>

EditLost(e) ==
    /\ running /\ edits' = edits \ {e}
    /\ UNCHANGED <<type, open, running, acct, tree, stored, saved, remote, budget>>

\* Another client changes the list of the server.
ServerChanges(a, u, place) ==
    /\ Spend("changes") /\ remote[a][u] # place
    /\ remote' = [remote EXCEPT ![a][u] = place]
    /\ UNCHANGED <<type, open, running, acct, tree, stored, saved, edits>>

ReleasedRunning(k) == [k EXCEPT !.login = "MIGRATE"]
Released(k) == [NewAccount EXCEPT !.login = "MIGRATE"]

\* node_source_convert_to_local(): all requests of the account and of its
\* feeds are cancelled.  The dialog for the credentials is modal, so it has been
\* answered by then.  (A feed whose request was under way keeps its updateJob,
\* which keeps it from being updated until the next start; here fetching is about
\* requests only, and converted feeds are not followed any further.)
ConvertToLocal(a) ==
    /\ Alone(a) /\ Writable /\ ~acct[a].dialog /\ Spend("events")
    /\ Changed(a, Released(acct[a]))
    /\ tree' = [tree EXCEPT !.feeds = {[f EXCEPT !.fetching = @ /\ f.owner # a] : f \in @}]
    /\ edits' = {e \in edits : e.acc # a}
    /\ UNCHANGED <<type, open, running, stored, saved, remote>>

\* The feed list is saved, with the OPML file of each account.
Save ==
    /\ running /\ \A a \in Accounts : acct[a].login # "MIGRATE"
    /\ saved' = [a \in Accounts |-> [feeds |-> FeedsOf(tree, a), folders |-> FoldersOf(tree, a)]]
    /\ UNCHANGED <<type, open, running, acct, tree, stored, edits, remote, budget>>

\* Exit or crash, and the next start: feedlist_init_node() loads the ids.  An
\* account that was converted is not followed over a restart.
Restart ==
    /\ \A a \in Accounts : acct[a].login # "MIGRATE"
    /\ Spend("restarts") /\ running' = TRUE
    /\ acct' = [a \in Accounts |-> NewAccount]
    /\ tree' = [feeds |-> {[f EXCEPT !.fetching = FALSE,
                                     !.id = [owner |-> f.owner, url |-> f.url] \in stored] :
                              f \in UNION {saved[a].feeds : a \in Accounts}},
                folders |-> UNION {saved[a].folders : a \in Accounts}]
    /\ edits' = {}
    /\ UNCHANGED <<type, open, stored, saved, remote>>

-----------------------------------------------------------------------------
Init ==
    /\ type \in Types /\ open \in BOOLEAN /\ running = TRUE
    /\ acct = [a \in Accounts |-> NewAccount]
    /\ tree = [feeds |-> {}, folders |-> {}]
    /\ stored = {}
    /\ saved = [a \in Accounts |-> [feeds |-> {}, folders |-> {}]]
    /\ edits = {}
    /\ remote \in [Accounts -> InitialLists]
    /\ budget = [changes |-> MaxChanges, events |-> MaxEvents, restarts |-> MaxRestarts]

Next ==
    \/ \E a \in Accounts :
        \/ AutoUpdate(a) \/ Update(a)
        \/ \E high \in BOOLEAN : ReedahLogin(a, high) \/ TtrssLogin(a, high)
        \/ \E ok \in BOOLEAN : AnswerDialog(a, ok)
        \/ ListSent(a) \/ CategoriesMerged(a) \/ ListDenied(a) \/ ListFails(a) \/ ListMerged(a) \/ FolderUsedAfterFree(a)
        \/ \E u \in Urls : AddFeed(a, u)
        \/ \E u \in Urls, place \in Names \union {Top, Absent} : ServerChanges(a, u, place)
        \/ ConvertToLocal(a)
    \/ \E f \in tree.feeds : GoogleIds(f) \/ ReedahItems(f) \/ TtrssItems(f) \/ OpmlItems(f)
                             \/ RemoveFeed(f)
    \/ \E e \in edits : EditDone(e) \/ EditLost(e)
    \/ Save \/ Restart

\* The timer goes off every ten seconds, and every request is answered.
Fairness ==
    \A a \in Accounts :
        /\ WF_vars(AutoUpdate(a))
        /\ \A high \in BOOLEAN : WF_vars(ReedahLogin(a, high) \/ TtrssLogin(a, high))
        /\ WF_vars(ListSent(a) \/ CategoriesMerged(a) \/ ListDenied(a) \/ ListFails(a))
        /\ WF_vars(ListMerged(a))

Spec == Init /\ [][Next]_vars /\ Fairness

-----------------------------------------------------------------------------
(* Properties.                                                             *)

\* The feeds below a are the ones of its server, in the same folders.  OPML
\* feeds stay in the folder where they were first.
Agrees(a) ==
    LET listed == {u \in Urls : remote[a][u] # Absent}
    IN  /\ {f.url : f \in FeedsOf(tree, a)} = listed
        /\ type # "opml" =>
              /\ \A f \in FeedsOf(tree, a) : f.place = remote[a][f.url]
              /\ FoldersOf(tree, a) = {[owner |-> a, name |-> remote[a][u]] :
                                         u \in {v \in listed : remote[a][v] # Top}}

\* Whatever users, servers and requests do in what order, and whatever was
\* lost in a crash: once an account stays logged in, its part of the feed
\* list becomes the list of the server and remains so.  (Neither google nor
\* TinyTinyRSS accounts do this.)
Settles ==
    \A a \in Accounts :
        <>[](running /\ acct[a].login = "ACTIVE" /\ type \in {"reedah", "opml"}) => <>[]Agrees(a)

\* A login never stays in progress, which would stop all updates of the
\* account (node_source_auto_update()).
LoginsEnd == \A a \in Accounts : acct[a].login = "IN_PROGRESS" ~> (acct[a].login # "IN_PROGRESS" \/ ~running)

\* "we must not loose the feed id!": an id that requests need is in the
\* database as soon as it is known, so that no crash can part it from its
\* feed.  (For google it is stored with the first answer about the feed.)
IdsAreStored ==
    type \in {"reedah", "ttrss"} =>
        \A f \in tree.feeds : f.id => [owner |-> f.owner, url |-> f.url] \in stored

\* After the conversion no answer that was under way brings an account back
\* or touches the feeds that are local now: none is lost or moved, and none
\* loses its id.
ConvertedIsLeftAlone ==
    [][\A a \in Accounts : acct[a].login = "MIGRATE" =>
          /\ acct'[a].login = "MIGRATE"
          /\ \A f \in FeedsOf(tree, a) :
                \E g \in FeedsOf(tree', a) : g.place = f.place /\ g.url = f.url /\ g.id = f.id]_vars

\* "Find a folder by the name under parent or create it" (node_source.h:367):
\* when the list of an account has been merged its feeds are in its part of
\* the feed list.
MergeIsComplete ==
    [][\A a \in Accounts : ListMerged(a) =>
          \A u \in Urls : acct[a].poll.list[u] # Absent => Found(tree', a, u) # {}]_vars
=============================================================================
