----------------------------- MODULE ReaderEdit -----------------------------
(***************************************************************************)
(* The edit queue of an online account that speaks the Google Reader API   *)
(* (src/node_sources/google_reader_api_edit.c), with the account that uses *)
(* most of it, TheOldReader.                                               *)
(*                                                                         *)
(* What the user does to items and subscriptions is applied locally and    *)
(* queued.  Each edit costs two requests: one for a token, whose answer    *)
(* takes whatever edit is at the head of the queue and posts it, and the   *)
(* post itself.  Both are jobs of the update machinery (JobQueue), so      *)
(* several may be on their way at the same time.  Meanwhile the account is *)
(* polled, and what the polls return is merged into the local state.       *)
(***************************************************************************)
EXTENDS Naturals, Sequences, SequencesExt

CONSTANTS
    Items,      \* guids
    Feeds,      \* feed URLs
    MaxEdits    \* bound on the edits ever made

ASSUME ReaderEditAssumption ==
    /\ Items \intersect Feeds = {}
    /\ MaxEdits \in Nat

VARIABLES
    login,      \* node->source->loginState
    queue,      \* node->source->actionQueue
    tokens,     \* token requests on their way
    posts,      \* posted edits the server has not processed, in sending order
    answers,    \* answers on their way back: [edit, ok] records
    remote,     \* what the server holds
    local,      \* what the program shows
    wanted,     \* what the user asked for last
    snapshot,   \* polls the server has answered: <<>> or <<remote>> by kind
    made,       \* number of edits so far
    broken,     \* a request failed and no token was requested since
    trouble     \* history: what has ever gone wrong between here and the server

vars == <<login, queue, tokens, posts, answers, remote, local, wanted, snapshot,
          made, broken, trouble>>

\* The attributes that edits are about.
Targets == (Items \X {"read", "star"}) \union (Feeds \X {"subscribed"})

\* The value an edit gives to an attribute; the other kinds of edits ("tracking",
\* "label") are about attributes that are only ever written.
Sets ==
    [read        |-> <<"read", TRUE>>,
     unread      |-> <<"read", FALSE>>,
     starred     |-> <<"star", TRUE>>,
     unstarred   |-> <<"star", FALSE>>,
     subscribe   |-> <<"subscribed", TRUE>>,
     subscribeIn |-> <<"subscribed", TRUE>>,   \* ... with a label to be added
     unsubscribe |-> <<"subscribed", FALSE>>]

Kinds == DOMAIN Sets \union {"tracking", "label"}

Edits == [n : 1..MaxEdits, kind : Kinds, id : Items \union Feeds]

Polls == {"status", "list"}

TypeOK ==
    /\ login \in {"none", "progress", "active", "failed"}
    /\ queue \in Seq(Edits)
    /\ tokens \in 0..MaxEdits
    /\ posts \in Seq(Edits)
    /\ answers \subseteq [edit : Edits, ok : BOOLEAN]
    /\ {remote, local, wanted} \subseteq [Targets -> BOOLEAN]
    /\ snapshot \in [Polls -> Seq([Targets -> BOOLEAN])]
    /\ made \in 0..MaxEdits
    /\ broken \in BOOLEAN
    /\ trouble \subseteq {"failed", "overtaken"}

Init ==
    /\ login = "none"
    /\ queue = <<>>
    /\ tokens = 0
    /\ posts = <<>>
    /\ answers = {}
    /\ local \in [Targets -> BOOLEAN]
    /\ remote = local
    /\ wanted = local
    /\ snapshot = [p \in Polls |-> <<>>]
    /\ made = 0
    /\ broken = FALSE
    /\ trouble = {}

Active == login = "active"

-----------------------------------------------------------------------------
(***************************************************************************)
(* Pushing.  google_reader_api_edit_push() ends in a token request if the  *)
(* account is logged in.                                                   *)
(***************************************************************************)
Pushed ==
    IF Active
    THEN tokens' = tokens + (made' - made) /\ broken' = FALSE
    ELSE UNCHANGED <<tokens, broken>>

\* Mutant of ItemQueue: they go to the head, like edits of subscriptions do.
ItemQueueHead(q, new) == new \o q

\* Edits of items go to the end ...
ItemQueue(q, new) == q \o new

PushItem(i, kinds) ==
    /\ made + Len(kinds) <= MaxEdits
    /\ queue' = ItemQueue(queue, [k \in 1..Len(kinds) |->
                            [n |-> made + k, kind |-> kinds[k], id |-> i]])
    /\ made' = made + Len(kinds)
    /\ Pushed

\* ... and edits of subscriptions to the head.
PushFeed(f, k) ==
    /\ made < MaxEdits
    /\ made' = made + 1
    /\ queue' = <<[n |-> made', kind |-> k, id |-> f]>> \o queue
    /\ Pushed

\* The user toggles the read state.  Marking unread takes two edits.
MarkRead(i, newStatus) ==
    /\ local[<<i, "read">>] # newStatus
    /\ PushItem(i, IF newStatus THEN <<"read">> ELSE <<"unread", "tracking">>)
    /\ local' = [local EXCEPT ![<<i, "read">>] = newStatus]
    /\ wanted' = [wanted EXCEPT ![<<i, "read">>] = newStatus]
    /\ UNCHANGED <<login, posts, answers, remote, snapshot, trouble>>

MarkStarred(i, newStatus) ==
    /\ local[<<i, "star">>] # newStatus
    /\ PushItem(i, IF newStatus THEN <<"starred">> ELSE <<"unstarred">>)
    /\ local' = [local EXCEPT ![<<i, "star">>] = newStatus]
    /\ wanted' = [wanted EXCEPT ![<<i, "star">>] = newStatus]
    /\ UNCHANGED <<login, posts, answers, remote, snapshot, trouble>>

\* Subscribing and unsubscribing are refused unless logged in.  A new feed shows
\* up with the next list; a removed one is gone at once.
AddSubscription(f, k) ==
    /\ Active
    /\ ~local[<<f, "subscribed">>]
    /\ PushFeed(f, k)
    /\ wanted' = [wanted EXCEPT ![<<f, "subscribed">>] = TRUE]
    /\ UNCHANGED <<login, posts, answers, remote, local, snapshot, trouble>>

RemoveSubscription(f) ==
    /\ Active
    /\ local[<<f, "subscribed">>]
    /\ PushFeed(f, "unsubscribe")
    /\ local' = [local EXCEPT ![<<f, "subscribed">>] = FALSE]
    /\ wanted' = [wanted EXCEPT ![<<f, "subscribed">>] = FALSE]
    /\ UNCHANGED <<login, posts, answers, remote, snapshot, trouble>>

-----------------------------------------------------------------------------
(***************************************************************************)
(* Login, and the two answers.                                             *)
(***************************************************************************)

\* Tokens requested by google_reader_api_edit_process() for this queue.
ProcessQueue(q) == IF q = <<>> THEN 0 ELSE 1

LoginStart ==
    /\ login = "none"
    /\ login' = "progress"
    /\ UNCHANGED <<queue, tokens, posts, answers, remote, local, wanted, snapshot,
                   made, broken, trouble>>

\* Mutant of AfterLogin: edits made before the login are not thought of.
AfterLoginNothing(q) == 0

AfterLogin(q) == ProcessQueue(q)

LoginDone ==
    /\ login = "progress"
    /\ \/ login' = "active" /\ tokens' = tokens + AfterLogin(queue)
       \/ login' = "failed" /\ UNCHANGED tokens
    /\ UNCHANGED <<queue, posts, answers, remote, local, wanted, snapshot, made,
                   broken, trouble>>

\* Mutant of AfterPost: the edit stays in the queue until it is answered.
AfterPostKept(q) == q

TokensLeft == tokens - 1

Trouble(what) == trouble' = trouble \union {what}

AfterPost(q) == Tail(q)

\* google_reader_api_edit_token_cb(): a token is good for the edit that is at the
\* head by now.
TokenAnswer ==
    /\ tokens > 0
    /\ tokens' = TokensLeft
    /\ \/ /\ queue # <<>>
          /\ posts' = Append(posts, Head(queue))
          /\ queue' = AfterPost(queue)
          /\ UNCHANGED <<broken, trouble>>
       \/ /\ queue = <<>>
          /\ UNCHANGED <<queue, posts, broken, trouble>>
       \/ /\ broken' = TRUE
          /\ Trouble("failed")
          /\ UNCHANGED <<queue, posts>>
    /\ UNCHANGED <<login, answers, remote, local, wanted, snapshot, made>>

\* The server processes a post, refuses it, or processes it and the answer is lost.
\* Posts are requests of their own, so a later one may overtake it.
Server(k) ==
    LET e == posts[k] IN
    /\ k \in 1..Len(posts)
    /\ posts' = RemoveAt(posts, k)
    /\ \E applied, ok \in BOOLEAN :
        /\ ok => applied
        /\ trouble' = trouble \union (IF k > 1 THEN {"overtaken"} ELSE {})
                              \union (IF ok THEN {} ELSE {"failed"})
        /\ answers' = answers \union {[edit |-> e, ok |-> ok]}
        /\ remote' = IF applied /\ e.kind \in DOMAIN Sets
                     THEN [remote EXCEPT ![<<e.id, Sets[e.kind][1]>>] =
                                            Sets[e.kind][2]]
                     ELSE remote
    /\ UNCHANGED <<login, queue, tokens, local, wanted, snapshot, made, broken>>

AfterAnswer(q) == ProcessQueue(q)

\* google_reader_api_edit_action_complete() with the edit's callback: a feed that
\* was to go into a folder gets its label next.  A removed feed that has come back is
\* removed again if it is a direct child of the account; one that came back in a
\* folder is not found (google_reader_api_edit.c:547-553).  A failed edit is dropped,
\* and nothing else is started.
ActionComplete(a) ==
    /\ a \in answers
    /\ answers' = answers \ {a}
    /\ \/ /\ a.ok
          /\ a.edit.kind = "subscribeIn"
          /\ made < MaxEdits
          /\ made' = made + 1
          /\ queue' = <<[n |-> made', kind |-> "label", id |-> a.edit.id]>> \o queue
          /\ tokens' = tokens + (IF Active THEN 1 ELSE 0) + AfterAnswer(queue')
          /\ broken' = FALSE
          /\ UNCHANGED local
       \/ /\ a.ok
          /\ tokens' = tokens + AfterAnswer(queue)
          /\ broken' = (broken /\ queue = <<>>)
          /\ \/ /\ a.edit.kind = "unsubscribe"
                /\ local' = [local EXCEPT ![<<a.edit.id, "subscribed">>] = FALSE]
             \/ UNCHANGED local
          /\ UNCHANGED <<queue, made>>
       \/ /\ ~a.ok
          /\ broken' = TRUE
          /\ UNCHANGED <<queue, tokens, local, made>>
    /\ UNCHANGED <<login, posts, remote, wanted, snapshot, trouble>>

-----------------------------------------------------------------------------
(***************************************************************************)
(* Polling: the status of the items of a feed, and the feed list.          *)
(***************************************************************************)
Poll(p) ==
    /\ Active
    /\ snapshot[p] = <<>>
    /\ snapshot' = [snapshot EXCEPT ![p] = <<remote>>]
    /\ UNCHANGED <<login, queue, tokens, posts, answers, remote, local, wanted, made,
                   broken, trouble>>

\* google_reader_api_edit_is_in_queue()
IsInQueue(i) == \E k \in 1..Len(queue) : queue[k].id = i

\* Mutant of MergedStatus: as for duplicates, only the transition to read counts.
MergedStatusReadOnly(old, new) == old \/ new

MergedStatus(old, new) == new

MergeStatus ==
    LET seen == snapshot["status"][1] IN
    /\ snapshot["status"] # <<>>
    /\ snapshot' = [snapshot EXCEPT !["status"] = <<>>]
    /\ local' = [t \in Targets |->
                    IF t[2] = "read" /\ ~IsInQueue(t[1])
                    THEN MergedStatus(local[t], seen[t])
                    ELSE local[t]]
    /\ UNCHANGED <<login, queue, tokens, posts, answers, remote, wanted, made,
                   broken, trouble>>

MergeList ==
    LET seen == snapshot["list"][1] IN
    /\ snapshot["list"] # <<>>
    /\ snapshot' = [snapshot EXCEPT !["list"] = <<>>]
    /\ local' = [t \in Targets |-> IF t[2] = "subscribed" THEN seen[t] ELSE local[t]]
    /\ UNCHANGED <<login, queue, tokens, posts, answers, remote, wanted, made,
                   broken, trouble>>

User ==
    \/ \E i \in Items, newStatus \in BOOLEAN :
        MarkRead(i, newStatus) \/ MarkStarred(i, newStatus)
    \/ \E f \in Feeds :
        \/ \E k \in {"subscribe", "subscribeIn"} : AddSubscription(f, k)
        \/ RemoveSubscription(f)

Next ==
    \/ User
    \/ LoginStart
    \/ LoginDone
    \/ TokenAnswer
    \/ \E k \in 1..MaxEdits : Server(k)
    \/ \E a \in answers : ActionComplete(a)
    \/ \E p \in Polls : Poll(p)
    \/ MergeStatus
    \/ MergeList

Spec == Init /\ [][Next]_vars

\* Requests are answered, answers are dispatched, and feeds are updated from time
\* to time.
Fairness ==
    /\ WF_vars(TokenAnswer)
    /\ WF_vars(Server(1))
    /\ WF_vars(\E a \in answers : ActionComplete(a))
    /\ \A p \in Polls : WF_vars(Poll(p))
    /\ WF_vars(MergeStatus)
    /\ WF_vars(MergeList)

FairSpec == Spec /\ Fairness

-----------------------------------------------------------------------------
(***************************************************************************)
(* Properties.                                                             *)
(***************************************************************************)

\* An edit is in one place only: still queued, on its way, or answered.  However
\* many tokens come back, no two of them post the same edit.
EditsAreSentOnce ==
    LET waiting == queue \o posts IN
    /\ \A k, l \in 1..Len(waiting) : waiting[k].n = waiting[l].n => k = l
    /\ \A a, b \in answers : a.edit.n = b.edit.n => a = b
    /\ \A a \in answers, k \in 1..Len(waiting) : a.edit.n # waiting[k].n

\* All edits have been sent and answered, none failed and none was overtaken.
Settled == queue = <<>> /\ posts = <<>> /\ answers = {} /\ trouble = {}

\* Then the server holds the item states the user asked for last, although several
\* edits of one item may have been queued, and posted, at the same time.
ItemsAsWanted ==
    Settled => \A i \in Items, what \in {"read", "star"} :
        remote[<<i, what>>] = wanted[<<i, what>>]

\* ... and the subscriptions.  ("Processed in sequential order", says the comment
\* on the edits.)
SubscriptionsAsWanted ==
    Settled => \A f \in Feeds :
        remote[<<f, "subscribed">>] = wanted[<<f, "subscribed">>]

\* A logged in account gets to send every edit, also those made before the login,
\* until a request fails.
EditsAreSent == Active /\ queue # <<>> ~> queue = <<>> \/ broken

\* Polls may be older than the edits they meet; in the end the read states agree
\* all the same, except for items with edits in a queue that is stuck.
StatusAgrees ==
    <>[](Active => \A i \in Items :
            local[<<i, "read">>] = remote[<<i, "read">>] \/ IsInQueue(i))
=============================================================================
