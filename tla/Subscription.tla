---------------------------- MODULE Subscription ----------------------------
(***************************************************************************)
(* One subscription and the documents the web serves at its URLs           *)
(* (src/subscription.c, src/feed_parser.c, src/node_providers/feed.c and   *)
(* the request and answer handling of src/net.c).                          *)
(*                                                                         *)
(* An update is a job of the update machinery (JobQueue): the request is   *)
(* made from the state of the subscription now, the answer is processed    *)
(* later, and in between the user may edit the subscription, the site may  *)
(* change and the program may be restarted.  Between updates the           *)
(* subscription keeps the validators (ETag and Last-Modified) of the last  *)
(* answer, and the server answers "not modified" to those it recognises.   *)
(* Items are never dropped from the cache here.                            *)
(***************************************************************************)
EXTENDS Naturals

CONSTANTS
    Urls,
    NoUrl,
    Docs,                           \* what can be served: records of Document
    InitialUrl,                     \* the URL the user subscribes to
    AUTO_DISCOVERY_MAX_REDIRECTS,
    MaxUpsets,                      \* bound on what happens from outside
    MaxJobs                         \* bound on the update jobs at a time

VARIABLES
    source,             \* subscription->source
    updateJob,          \* subscription->updateJob: an id, 0 for NULL
    validators,         \* subscription->updateState->etag and lastModified
    error,              \* subscription->error
    discontinued,       \* subscription->discontinued
    autoDiscoveryTries, \* subscription->autoDiscoveryTries, up to "too many"
    fhp,                \* is a feed handler known (subscription->fhp)?
    available,          \* node->available
    items,              \* the items merged into the node's item set
    saved,              \* the source and the type, which names the handler, in
                        \* the feed list file
    jobs,               \* the update jobs of the subscription
    site,               \* what is served at each URL
    upsets,             \* number of interventions from outside
    forgotten,          \* history: was the error flag cleared while content was lost?
    hops                \* history: links followed in this run of the program before
                        \* a handler was known, up to "too many"

state == <<source, updateJob, validators, error, discontinued,
           autoDiscoveryTries, fhp, available, items>>

vars == <<state, saved, jobs, site, upsets, forgotten, hops>>

-----------------------------------------------------------------------------
Kinds == {"feed", "page", "junk", "moved", "gone", "auth", "down"}

\* A page may have a link to a feed and items of its own; link is also the
\* target of a URL that moved permanently.
Document == [kind : Kinds, link : Urls \union {NoUrl}, items : SUBSET Nat]

ASSUME SubscriptionAssumption ==
    /\ NoUrl \notin Urls
    /\ InitialUrl \in Urls
    /\ Docs \subseteq Document
    /\ \A d \in Docs : d.kind = "moved" => d.link \in Urls
    /\ AUTO_DISCOVERY_MAX_REDIRECTS \in Nat
    /\ MaxUpsets \in Nat
    /\ MaxJobs \in Nat \ {0}

NoDoc == [kind |-> "down", link |-> NoUrl, items |-> {}]

\* The validators of a document identify the URL it came from and its content.
NoTag == [url |-> NoUrl, doc |-> NoDoc]
Tag(u, d) == [url |-> u, doc |-> d]
Tags == {NoTag} \union [url : Urls, doc : Docs]

Errors == {"NONE", "AUTH", "NET", "DISCOVER", "XML"}

\* url is where the answer came from in the end; permanent says that a 301 or
\* 308 was seen on the way; spoiled that the filter or the transfer reported an
\* error although there is data.
Answers == [status : {0, 200, 301, 304, 401, 410}, url : Urls, data : BOOLEAN,
            tag : Tags, permanent : BOOLEAN, spoiled : BOOLEAN]

NoAnswer == [status |-> 0, url |-> NoUrl, data |-> FALSE, tag |-> NoTag,
             permanent |-> FALSE, spoiled |-> FALSE]

Jobs == [id : 1..MaxJobs, url : Urls, tag : Tags, answer : {NoAnswer} \union Answers]

TooMany == AUTO_DISCOVERY_MAX_REDIRECTS + 1

OneMore(n) == IF n < TooMany THEN n + 1 ELSE n

TypeOK ==
    /\ source \in Urls
    /\ saved \in [source : Urls, fhp : BOOLEAN]
    /\ updateJob \in 0..MaxJobs
    /\ validators \in Tags
    /\ error \in Errors
    /\ {discontinued, fhp, available, forgotten} \subseteq BOOLEAN
    /\ {autoDiscoveryTries, hops} \subseteq 0..TooMany
    /\ items \subseteq UNION {d.items : d \in Docs}
    /\ jobs \subseteq Jobs
    /\ site \in [Urls -> Docs]
    /\ upsets \in 0..MaxUpsets

Init ==
    /\ source = InitialUrl /\ saved = [source |-> InitialUrl, fhp |-> FALSE]
    /\ updateJob = 0 /\ jobs = {}
    /\ validators = NoTag
    /\ error = "NONE" /\ available = TRUE /\ discontinued = FALSE
    /\ autoDiscoveryTries = 0 /\ fhp = FALSE
    /\ items = {}
    /\ site \in [Urls -> Docs]
    /\ upsets = 0 /\ forgotten = FALSE /\ hops = 0

-----------------------------------------------------------------------------
(* The web.                                                                *)

\* libsoup follows one redirect after the other; a second one stands for
\* more of them than it follows.
Target(u) == IF site[u].kind = "moved" THEN site[u].link ELSE u

Reply(u, status, data, tag) ==
    [status |-> status, url |-> Target(u), data |-> data, tag |-> tag,
     permanent |-> Target(u) # u, spoiled |-> FALSE]

\* What can come back for a request for u made with validators t.  The status
\* and the source that were noted at the redirect are overwritten when the last
\* answer is in.  A server that compares dates may recognise the validators
\* of another document.
Served(u, t) ==
    LET w == Target(u)
        d == site[w]
        fresh == Reply(u, 200, TRUE, Tag(w, d))
        same == Reply(u, 304, FALSE, t)
    IN  CASE d.kind = "gone" -> {Reply(u, 410, FALSE, NoTag)}
          [] d.kind = "auth" -> {Reply(u, 401, FALSE, NoTag)}
          [] d.kind \in {"down", "moved"} -> {Reply(u, 0, FALSE, NoTag)}
          [] OTHER -> IF t = Tag(w, d) THEN {same}
                      ELSE IF t = NoTag \/ t.url = w THEN {fresh}
                      ELSE {fresh, same}

\* What goes wrong with a document on its way: the connection breaks after the
\* headers, or the filter command fails on it.
Damaged(a) ==
    IF a.data THEN {[a EXCEPT !.data = FALSE], [a EXCEPT !.spoiled = TRUE]} ELSE {}

\* A handler recognises the document: a feed, or a page that items can be
\* extracted from.
Recognised(d) == d.kind = "feed" \/ (d.kind = "page" /\ d.items # {})

\* The items of the document that the validators stand for were merged, if a
\* handler exists for it.
Stored(t) == Recognised(t.doc) => t.doc.items \subseteq items

-----------------------------------------------------------------------------
(* Updates.                                                                *)

CanAlwaysBeUpdated(job, gone) == ~gone
CanBeUpdatedUntilGivenUp(job, gone) ==
    job = 0 /\ ~gone /\ autoDiscoveryTries <= AUTO_DISCOVERY_MAX_REDIRECTS

\* Whether an update of the subscription in state [updateJob, discontinued] makes
\* sense; every source of the model is a valid URI.
CanBeUpdated(job, gone) == job = 0 /\ ~gone

\* update_job_new(): the request holds copies of the source and the validators.
FreeIds == {i \in 1..MaxJobs : \A j \in jobs : j.id # i}

NewJob(i, url, tag) == [id |-> i, url |-> url, tag |-> tag, answer |-> NoAnswer]

\* subscription_update() by one who then sees source s, job u and mark g, with
\* the jobs in rest still on their way.
SubscriptionUpdate(s, u, g, rest) ==
    IF CanBeUpdated(u, g)
    THEN \E i \in FreeIds :
            /\ updateJob' = i
            /\ jobs' = rest \union {NewJob(i, s, validators)}
    ELSE updateJob' = u /\ jobs' = rest

\* The update timer finds that the interval has passed, the user asks for an
\* update or answers the authentication dialog.
UpdateDue ==
    /\ CanBeUpdated(updateJob, discontinued)
    /\ SubscriptionUpdate(source, updateJob, discontinued, jobs)
    /\ UNCHANGED <<source, validators, error, discontinued, autoDiscoveryTries,
                   fhp, available, items, saved, site, upsets, forgotten, hops>>

\* The job is executed: the answer is complete and waits for its callback.
Download(j) ==
    /\ j.answer = NoAnswer
    /\ \E a \in Served(j.url, j.tag) :
        \/ /\ jobs' = (jobs \ {j}) \union {[j EXCEPT !.answer = a]}
           /\ UNCHANGED upsets
        \/ /\ upsets < MaxUpsets
           /\ upsets' = upsets + 1
           /\ \E b \in Damaged(a) : jobs' = (jobs \ {j}) \union {[j EXCEPT !.answer = b]}
    /\ UNCHANGED <<state, saved, site, forgotten, hops>>

-----------------------------------------------------------------------------
(* The callback, subscription_process_update_result(): one action for each *)
(* outcome.                                                                *)

\* A permanent redirect gives the subscription a new source.
SourceAfter(j) ==
    IF j.answer.status = 301 /\ j.answer.url # j.url THEN j.answer.url ELSE source

\* What every outcome ends with: the validators of the answer are kept, and
\* with everything else they go to the database.
Postprocess(j) == validators' = j.answer.tag

\* The callback of j begins; the subscription has a job, which is asserted.
Answered(j) ==
    /\ j.answer # NoAnswer
    /\ updateJob # 0

Finished(j) ==
    /\ updateJob' = 0
    /\ jobs' = jobs \ {j}
    /\ source' = SourceAfter(j)
    /\ Postprocess(j)
    /\ UNCHANGED <<saved, site, upsets, forgotten>>

ErrorCleared == "NONE"

\* What the error flag is after an answer that leaves it alone.
ErrorKept == error

NotModified(j) ==
    /\ Answered(j)
    /\ j.answer.status = 304
    /\ Finished(j)
    /\ available' = TRUE
    /\ error' = ErrorKept
    /\ UNCHANGED <<discontinued, autoDiscoveryTries, fhp, items, hops>>

\* An HTTP error, or no data.
Refused(j) ==
    /\ Answered(j)
    /\ j.answer.status # 304
    /\ j.answer.status >= 400 \/ ~j.answer.data
    /\ Finished(j)
    /\ available' = FALSE
    /\ error' = IF j.answer.status = 401 THEN "AUTH" ELSE "NET"
    /\ discontinued' = (discontinued \/ j.answer.status = 410)
    /\ UNCHANGED <<autoDiscoveryTries, fhp, items, hops>>

\* The filter command or the transfer failed, whatever came.
Spoiled(j) ==
    /\ Answered(j)
    /\ j.answer.data /\ j.answer.spoiled
    /\ Finished(j)
    /\ available' = FALSE
    /\ error' = "NET"
    /\ UNCHANGED <<discontinued, autoDiscoveryTries, fhp, items, hops>>

-----------------------------------------------------------------------------
(* feed_parse() and feed_process_update_result(), for an answer with data. *)

Usable(j) == Answered(j) /\ j.answer.data /\ ~j.answer.spoiled

Content(j) == j.answer.tag.doc

TriesUncounted(d) == autoDiscoveryTries

TriesAfter(d) ==
    IF d.kind = "feed" THEN autoDiscoveryTries ELSE OneMore(autoDiscoveryTries)

\* Discovery is tried on whatever is not a feed, until it was tried too often,
\* and follows a link that leads elsewhere.
Discovers(d) ==
    /\ d.kind # "feed"
    /\ TriesAfter(d) <= AUTO_DISCOVERY_MAX_REDIRECTS
    /\ d.kind = "page" /\ d.link \notin {NoUrl, source}

\* With a handler, from this document or from an earlier one, the items found
\* are merged and the counter of tries starts again.
Processed(d) ==
    LET known == fhp \/ Recognised(d)
    IN  /\ fhp' = known
        /\ error' = "NONE"
        /\ autoDiscoveryTries' = IF known THEN 0 ELSE TriesAfter(d)
        /\ available' = (known \/ available)
        /\ items' = items \union (IF Recognised(d) THEN d.items ELSE {})

\* A feed, or a page with items and no link to follow.
FeedFound(j) ==
    /\ Usable(j)
    /\ Recognised(Content(j)) /\ ~Discovers(Content(j))
    /\ Finished(j)
    /\ Processed(Content(j))
    /\ UNCHANGED <<discontinued, hops>>

\* A link was found.  The subscription gets it as its source and is updated
\* at once, before the rest of this callback: the job it cancels first is the
\* one being processed, which updateJob no longer names.
LinkFound(j) ==
    /\ Usable(j)
    /\ Discovers(Content(j))
    /\ source' = Content(j).link
    /\ SubscriptionUpdate(Content(j).link, 0, discontinued, jobs \ {j})
    /\ hops' = IF fhp THEN hops ELSE OneMore(hops)
    /\ Processed(Content(j))
    /\ Postprocess(j)
    /\ forgotten' = (forgotten \/ ~Stored(validators))
    /\ UNCHANGED <<discontinued, saved, site, upsets>>

\* Neither a feed nor a link.
NothingFound(j) ==
    /\ Usable(j)
    /\ ~Recognised(Content(j)) /\ ~Discovers(Content(j))
    /\ Finished(j)
    /\ available' = FALSE
    /\ error' = IF Content(j).kind = "page" THEN "DISCOVER" ELSE "XML"
    /\ autoDiscoveryTries' = TriesAfter(Content(j))
    /\ UNCHANGED <<discontinued, fhp, items, hops>>

ProcessUpdateResult(j) ==
    \/ NotModified(j) \/ Refused(j) \/ Spoiled(j)
    \/ FeedFound(j) \/ LinkFound(j) \/ NothingFound(j)

-----------------------------------------------------------------------------
(* The user, the file, the site.                                           *)

\* The properties dialog: another URL.  An update that is on its way stays.
EditSource(u) ==
    /\ u # source
    /\ upsets < MaxUpsets
    /\ upsets' = upsets + 1
    /\ source' = u
    /\ discontinued' = FALSE
    /\ SubscriptionUpdate(u, updateJob, FALSE, jobs)
    /\ UNCHANGED <<validators, error, autoDiscoveryTries, fhp, available, items,
                   saved, site, forgotten, hops>>

\* The feed list is written a few seconds after a source was set or an update of
\* this or another subscription brought something new.
SaveFeedList ==
    /\ saved # [source |-> source, fhp |-> fhp]
    /\ saved' = [source |-> source, fhp |-> fhp]
    /\ UNCHANGED <<state, jobs, site, upsets, forgotten, hops>>

\* The program ends, orderly or not, and starts again: the source and the handler
\* come from the feed list file, the validators, the items and the discontinued
\* mark from the database, the rest is new.
Restart ==
    /\ upsets < MaxUpsets
    /\ upsets' = upsets + 1
    /\ source' = saved.source /\ fhp' = saved.fhp
    /\ updateJob' = 0 /\ jobs' = {}
    /\ error' = "NONE" /\ available' = TRUE
    /\ autoDiscoveryTries' = 0
    /\ forgotten' = (forgotten \/ ~Stored(validators))
    /\ hops' = 0
    /\ UNCHANGED <<validators, discontinued, items, saved, site>>

SiteChange(u, d) ==
    /\ d # site[u]
    /\ upsets < MaxUpsets
    /\ upsets' = upsets + 1
    /\ site' = [site EXCEPT ![u] = d]
    /\ UNCHANGED <<state, saved, jobs, forgotten, hops>>

Next ==
    \/ UpdateDue
    \/ \E j \in jobs : Download(j) \/ ProcessUpdateResult(j)
    \/ \E u \in Urls : EditSource(u)
    \/ SaveFeedList \/ Restart
    \/ \E u \in Urls, d \in Docs : SiteChange(u, d)

Spec == Init /\ [][Next]_vars

\* The update timer is periodic and finds every subscription whose interval has
\* passed; requests end, and their callbacks are dispatched (JobQueue).  Nobody
\* is obliged to write the feed list.
FairSpec ==
    /\ Spec
    /\ WF_vars(UpdateDue)
    /\ WF_vars(\E j \in jobs : Download(j))
    /\ WF_vars(\E j \in jobs : ProcessUpdateResult(j))

-----------------------------------------------------------------------------
(* Properties.                                                             *)

\* The subscription knows of every update that is on its way and of no other:
\* no two downloads of a feed at a time, the assertion at the start of the
\* callback holds, and updateJob never blocks updating for good.
OneUpdateInFlight == {j.id : j \in jobs} = {updateJob} \ {0}

\* Validators outlive content: an answer that broke off or that the filter
\* rejected leaves its validators behind, and the server says "not modified"
\* from then on.  The error flag tells of it until a restart clears it, or a
\* discovery, whose request carries the validators on.
LostContentIsFlagged == Stored(validators) \/ error # "NONE" \/ forgotten

\* In one run of the program discovery follows at most
\* AUTO_DISCOVERY_MAX_REDIRECTS links before a handler is known: neither the
\* callbacks that follow each other in a circle of pages, nor errors in between,
\* other URLs, nor any number of requests by the user and the timer start the
\* counter again.
FreshDiscoveryEnds == hops <= AUTO_DISCOVERY_MAX_REDIRECTS

\* After a 410 the subscription is not downloaded any more, over restarts too,
\* unless its source changes.
GoneStaysGone ==
    [][discontinued /\ source' = source => discontinued' /\ jobs' = {}]_vars

\* What is served at the source now; the validators that let the server claim
\* that it is known already.
Serving == site[Target(source)]

Misled ==
    /\ validators # NoTag
    /\ validators.url # Target(source) \/ ~Stored(validators)

\* A feed that stays where it is gets shown in the end, after any number of
\* errors, circles of discovery, restarts and edits, if it did not answer 410
\* and the validators are not those of content that was lost or of another URL.
FeedIsShown ==
    []<>(\/ Serving.kind = "feed" => Serving.items \subseteq items
         \/ discontinued
         \/ Misled)

\* "Counter to break auto discovery redirect circles" (subscription.h): the
\* subscription comes to rest again and again, as no circle of links keeps
\* discovery going for ever.
DiscoveryEnds == []<>(updateJob = 0)

\* "To be called when ... retriggering the update upon user request"
\* (subscription.h): once the user gave another URL, no answer from the former
\* one is processed.
AnswersAreCurrent ==
    [][\A j \in jobs : j \notin jobs' /\ upsets' = upsets /\ j.answer # NoAnswer
            => j.url = source]_vars

\* "FRB130: permanent HTTP 301" (net.c): the answer of a URL that moved
\* permanently takes the subscription away from that URL.
MovedForGood ==
    [][\A j \in jobs : j \notin jobs' /\ upsets' = upsets
                        /\ j.answer.permanent /\ j.answer.status = 200
            => source' # j.url]_vars
=============================================================================
