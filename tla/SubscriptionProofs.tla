------------------------- MODULE SubscriptionProofs -------------------------
(***************************************************************************)
(* Proofs about Subscription, for any URLs, documents and bounds.          *)
(***************************************************************************)
EXTENDS Subscription, TLAPS

-----------------------------------------------------------------------------
(* Types.                                                                  *)

LEMMA OneMoreType ==
    ASSUME NEW n \in 0..TooMany
    PROVE  OneMore(n) \in 0..TooMany
BY SubscriptionAssumption DEF OneMore, TooMany

\* Redirects lead to URLs, and every answer carries the validators of a document,
\* of the request or none.
LEMMA ServedType ==
    ASSUME site \in [Urls -> Docs], NEW u \in Urls, NEW t \in Tags,
           NEW a \in Served(u, t)
    PROVE  /\ a \in Answers
           /\ a.status = 304 => a.tag = t /\ ~a.data
           /\ ~a.spoiled
<1>1. Target(u) \in Urls
  BY SubscriptionAssumption DEF Target
<1>2. Tag(Target(u), site[Target(u)]) \in Tags /\ NoTag \in Tags
  BY <1>1 DEF Tag, Tags
<1>3. CASE site[Target(u)].kind = "gone"
  <2>1. a = Reply(u, 410, FALSE, NoTag)
    BY <1>3 DEF Served
  <2>. QED  BY <2>1, <1>1, <1>2 DEF Reply, Answers
<1>4. CASE site[Target(u)].kind = "auth"
  <2>1. a = Reply(u, 401, FALSE, NoTag)
    BY <1>4 DEF Served
  <2>. QED  BY <2>1, <1>1, <1>2 DEF Reply, Answers
<1>5. CASE site[Target(u)].kind \in {"down", "moved"}
  <2>1. a = Reply(u, 0, FALSE, NoTag)
    BY <1>5 DEF Served
  <2>. QED  BY <2>1, <1>1, <1>2 DEF Reply, Answers
<1>6. CASE site[Target(u)].kind \notin {"gone", "auth", "down", "moved"}
  <2>1. \/ a = Reply(u, 200, TRUE, Tag(Target(u), site[Target(u)]))
        \/ a = Reply(u, 304, FALSE, t)
    BY <1>6 DEF Served
  <2>2. CASE a = Reply(u, 200, TRUE, Tag(Target(u), site[Target(u)]))
    BY <2>2, <1>1, <1>2 DEF Reply, Answers
  <2>3. CASE a = Reply(u, 304, FALSE, t)
    BY <2>3, <1>1 DEF Reply, Answers
  <2>. QED  BY <2>1, <2>2, <2>3
<1>. QED  BY <1>3, <1>4, <1>5, <1>6

LEMMA DamagedType ==
    ASSUME NEW a \in Answers, NEW b \in Damaged(a)
    PROVE  /\ b \in Answers
           /\ a.data /\ b.status = a.status /\ b.tag = a.tag
           /\ ~b.data \/ b.spoiled
<1>1. /\ a.data
      /\ b = [a EXCEPT !.data = FALSE] \/ b = [a EXCEPT !.spoiled = TRUE]
  BY DEF Damaged
<1>2. CASE b = [a EXCEPT !.data = FALSE]
  <2>1. b \in Answers
    <3>1. b = [status |-> a.status, url |-> a.url, data |-> FALSE, tag |-> a.tag,
               permanent |-> a.permanent, spoiled |-> a.spoiled]
      BY <1>2, ZenonT(60) DEF Answers
    <3>. QED  BY <3>1 DEF Answers
  <2>2. b.status = a.status /\ b.tag = a.tag
    BY <1>2 DEF Answers
  <2>3. b.data = FALSE
    BY <1>2 DEF Answers
  <2>. QED  BY <1>1, <2>1, <2>2, <2>3
<1>3. CASE b = [a EXCEPT !.spoiled = TRUE]
  <2>1. b \in Answers
    <3>1. b = [status |-> a.status, url |-> a.url, data |-> a.data, tag |-> a.tag,
               permanent |-> a.permanent, spoiled |-> TRUE]
      BY <1>3 DEF Answers
    <3>. QED  BY <3>1 DEF Answers
  <2>2. b.status = a.status /\ b.tag = a.tag
    BY <1>3 DEF Answers
  <2>3. b.spoiled = TRUE
    BY <1>3 DEF Answers
  <2>. QED  BY <1>1, <2>1, <2>2, <2>3
<1>. QED  BY <1>1, <1>2, <1>3

\* What Download can leave in the place of a job.
LEMMA DownloadCases ==
    ASSUME TypeOK, NEW j \in jobs, Download(j)
    PROVE  \E a \in Answers :
            /\ jobs' = (jobs \ {j}) \union {[j EXCEPT !.answer = a]}
            /\ a.status = 304 => a.tag = j.tag
            /\ a # NoAnswer
<1>1. j \in Jobs /\ j.url \in Urls /\ j.tag \in Tags /\ site \in [Urls -> Docs]
  BY DEF TypeOK, Jobs
<1>2. NoAnswer \notin Answers
  BY SubscriptionAssumption DEF NoAnswer, Answers
<1>3. PICK a \in Served(j.url, j.tag) :
        \/ jobs' = (jobs \ {j}) \union {[j EXCEPT !.answer = a]}
        \/ \E b \in Damaged(a) : jobs' = (jobs \ {j}) \union {[j EXCEPT !.answer = b]}
  BY DEF Download
<1>4. a \in Answers /\ (a.status = 304 => a.tag = j.tag)
  BY <1>1, ServedType
<1>5. \A b \in Damaged(a) : b \in Answers /\ b.status = a.status /\ b.tag = a.tag
  BY <1>4, DamagedType
<1>. QED  BY <1>2, <1>3, <1>4, <1>5

\* A new job, or none, keeps the types.
LEMMA UpdateType ==
    ASSUME TypeOK, NEW s \in Urls, NEW u \in 0..MaxJobs, NEW g,
           NEW rest \in SUBSET Jobs, SubscriptionUpdate(s, u, g, rest)
    PROVE  updateJob' \in 0..MaxJobs /\ jobs' \subseteq Jobs
<1>1. CASE CanBeUpdated(u, g)
  <2>1. PICK i \in FreeIds : /\ updateJob' = i
                             /\ jobs' = rest \union {NewJob(i, s, validators)}
    BY <1>1 DEF SubscriptionUpdate
  <2>2. i \in 1..MaxJobs
    BY DEF FreeIds
  <2>3. NewJob(i, s, validators) \in Jobs
    BY <2>2 DEF NewJob, Jobs, TypeOK
  <2>. QED  BY <2>1, <2>2, <2>3, SubscriptionAssumption
<1>2. CASE ~CanBeUpdated(u, g)
  BY <1>2 DEF SubscriptionUpdate
<1>. QED  BY <1>1, <1>2

LEMMA DownloadType ==
    ASSUME TypeOK, NEW j \in jobs, Download(j)
    PROVE  jobs' \subseteq Jobs
<1>1. PICK a \in Answers : jobs' = (jobs \ {j}) \union {[j EXCEPT !.answer = a]}
  BY DownloadCases
<1>2. j \in Jobs
  BY DEF TypeOK
<1>3. [j EXCEPT !.answer = a] = [id |-> j.id, url |-> j.url, tag |-> j.tag, answer |-> a]
  BY <1>2 DEF Jobs
<1>4. [j EXCEPT !.answer = a] \in Jobs
  BY <1>2, <1>3 DEF Jobs
<1>. QED  BY <1>1, <1>4 DEF TypeOK

LEMMA AnswerType ==
    ASSUME TypeOK, NEW j \in jobs, Answered(j)
    PROVE  /\ j \in Jobs
           /\ j.answer \in Answers
           /\ j.answer.tag \in Tags
           /\ Content(j) \in Docs \union {NoDoc}
<1>1. j \in Jobs /\ j.answer \in Answers
  BY DEF TypeOK, Jobs, Answered
<1>2. j.answer.tag \in Tags
  BY <1>1 DEF Answers
<1>3. Content(j) \in Docs \union {NoDoc}
  BY <1>2 DEF Content, Tags, NoTag
<1>. QED  BY <1>1, <1>2, <1>3

LEMMA FinishedType ==
    ASSUME TypeOK, NEW j \in jobs, Answered(j), Finished(j)
    PROVE  /\ source' \in Urls /\ saved' \in [source : Urls, fhp : BOOLEAN]
           /\ updateJob' \in 0..MaxJobs
           /\ validators' \in Tags
           /\ jobs' \subseteq Jobs
           /\ site' \in [Urls -> Docs] /\ upsets' \in 0..MaxUpsets
           /\ forgotten' \in BOOLEAN
<1>1. source' \in Urls
  <2>1. j.answer.url \in Urls
    BY AnswerType DEF Answers
  <2>. QED  BY <2>1 DEF Finished, SourceAfter, TypeOK
<1>2. validators' \in Tags
  BY AnswerType DEF Finished, Postprocess
<1>. QED  BY <1>1, <1>2, SubscriptionAssumption DEF Finished, TypeOK

LEMMA ProcessedType ==
    ASSUME TypeOK, NEW d \in Docs \union {NoDoc}, Processed(d)
    PROVE  /\ {fhp', available'} \subseteq BOOLEAN
           /\ error' \in Errors
           /\ autoDiscoveryTries' \in 0..TooMany
           /\ items' \subseteq UNION {e.items : e \in Docs}
<1>1. autoDiscoveryTries' \in 0..TooMany
  <2>1. TriesAfter(d) \in 0..TooMany
    BY OneMoreType DEF TriesAfter, TypeOK
  <2>. QED  BY <2>1, SubscriptionAssumption DEF Processed, TooMany
<1>2. fhp' \in BOOLEAN
  <2>1. Recognised(d) \in BOOLEAN
    BY DEF Recognised
  <2>. QED  BY <2>1 DEF Processed, TypeOK
<1>3. available' \in BOOLEAN
  BY DEF Processed, TypeOK, Recognised
<1>4. items' \subseteq UNION {e.items : e \in Docs}
  <2>1. d.items \subseteq UNION {e.items : e \in Docs}
    BY DEF NoDoc
  <2>. QED  BY <2>1 DEF Processed, TypeOK
<1>. QED  BY <1>1, <1>2, <1>3, <1>4 DEF Processed, Errors

LEMMA Zeroes == 0 \in 0..TooMany /\ 0 \in 0..MaxUpsets /\ 0 \in 0..MaxJobs
BY SubscriptionAssumption DEF TooMany

LEMMA UpsetType ==
    ASSUME upsets \in 0..MaxUpsets, upsets < MaxUpsets
    PROVE  upsets + 1 \in 0..MaxUpsets
BY SubscriptionAssumption

LEMMA InitTypeOK == Init => TypeOK
<1>. SUFFICES ASSUME Init PROVE TypeOK
  OBVIOUS
<1>1. /\ source \in Urls /\ saved \in [source : Urls, fhp : BOOLEAN]
      /\ site \in [Urls -> Docs]
  BY SubscriptionAssumption DEF Init
<1>2. validators \in Tags /\ error \in Errors
  BY DEF Init, Tags, Errors
<1>3. {discontinued, fhp, available, forgotten} \subseteq BOOLEAN
  BY DEF Init
<1>4. items \subseteq UNION {d.items : d \in Docs} /\ jobs \subseteq Jobs
  BY DEF Init
<1>. QED  BY <1>1, <1>2, <1>3, <1>4, Zeroes DEF Init, TypeOK

LEMMA NextTypeOK == TypeOK /\ [Next]_vars => TypeOK'
<1>. SUFFICES ASSUME TypeOK, [Next]_vars PROVE TypeOK'
  OBVIOUS
<1>1. CASE UpdateDue
  <2>1. updateJob' \in 0..MaxJobs /\ jobs' \subseteq Jobs
    BY <1>1, UpdateType DEF UpdateDue, TypeOK
  <2>. QED  BY <1>1, <2>1 DEF UpdateDue, TypeOK
<1>2. ASSUME NEW j \in jobs, Download(j) PROVE TypeOK'
  <2>1. jobs' \subseteq Jobs
    BY <1>2, DownloadType
  <2>2. upsets' \in 0..MaxUpsets
    BY <1>2, SubscriptionAssumption DEF Download, TypeOK
  <2>. QED  BY <1>2, <2>1, <2>2 DEF Download, TypeOK, state
<1>3. ASSUME NEW j \in jobs, NotModified(j) PROVE TypeOK'
  BY <1>3, FinishedType DEF NotModified, ErrorKept, TypeOK
<1>4. ASSUME NEW j \in jobs, Refused(j) PROVE TypeOK'
  <2>1. error' \in Errors /\ {discontinued', available'} \subseteq BOOLEAN
    BY <1>4 DEF Refused, Errors, TypeOK
  <2>. QED  BY <1>4, <2>1, FinishedType DEF Refused, TypeOK
<1>5. ASSUME NEW j \in jobs, Spoiled(j) PROVE TypeOK'
  BY <1>5, FinishedType DEF Spoiled, Errors, TypeOK
<1>6. ASSUME NEW j \in jobs, FeedFound(j) PROVE TypeOK'
  <2>1. Answered(j) /\ Finished(j) /\ Processed(Content(j))
    BY <1>6 DEF FeedFound, Usable
  <2>2. Content(j) \in Docs \union {NoDoc}
    BY <2>1, AnswerType
  <2>. QED  BY <1>6, <2>1, <2>2, FinishedType, ProcessedType DEF FeedFound, TypeOK
<1>7. ASSUME NEW j \in jobs, LinkFound(j) PROVE TypeOK'
  <2>1. Answered(j) /\ Processed(Content(j)) /\ Postprocess(j)
    BY <1>7 DEF LinkFound, Usable
  <2>2. Content(j) \in Docs \union {NoDoc} /\ j.answer.tag \in Tags
    BY <2>1, AnswerType
  <2>3. Content(j).link \in Urls
    BY <1>7, <2>2, SubscriptionAssumption DEF LinkFound, Discovers, NoDoc, Document
  <2>4. updateJob' \in 0..MaxJobs /\ jobs' \subseteq Jobs
    <3>1. jobs \ {j} \in SUBSET Jobs /\ 0 \in 0..MaxJobs
      BY SubscriptionAssumption DEF TypeOK
    <3>2. SubscriptionUpdate(Content(j).link, 0, discontinued, jobs \ {j})
      BY <1>7 DEF LinkFound
    <3>. QED  BY <2>3, <3>1, <3>2, UpdateType
  <2>5. hops' \in 0..TooMany
    BY <1>7, OneMoreType, Zeroes DEF LinkFound, TypeOK
  <2>6. forgotten' \in BOOLEAN
    BY <1>7 DEF LinkFound, TypeOK, Stored
  <2>. QED
    BY <1>7, <2>1, <2>2, <2>3, <2>4, <2>5, <2>6, ProcessedType
       DEF LinkFound, Postprocess, TypeOK
<1>8. ASSUME NEW j \in jobs, NothingFound(j) PROVE TypeOK'
  <2>1. Answered(j) /\ Finished(j)
    BY <1>8 DEF NothingFound, Usable
  <2>2. TriesAfter(Content(j)) \in 0..TooMany
    BY OneMoreType DEF TriesAfter, TypeOK
  <2>. QED  BY <1>8, <2>1, <2>2, FinishedType DEF NothingFound, Errors, TypeOK
<1>9. ASSUME NEW u \in Urls, EditSource(u) PROVE TypeOK'
  <2>1. updateJob' \in 0..MaxJobs /\ jobs' \subseteq Jobs
    BY <1>9, UpdateType DEF EditSource, TypeOK
  <2>2. upsets' \in 0..MaxUpsets
    BY <1>9, UpsetType DEF EditSource, TypeOK
  <2>. QED  BY <1>9, <2>1, <2>2, Zeroes DEF EditSource, TypeOK
<1>10. CASE SaveFeedList
  BY <1>10 DEF SaveFeedList, TypeOK, state
<1>11. CASE Restart
  <2>1. forgotten' \in BOOLEAN
    BY <1>11 DEF Restart, TypeOK, Stored
  <2>2. upsets' \in 0..MaxUpsets
    BY <1>11, UpsetType DEF Restart, TypeOK
  <2>. QED
    BY <1>11, <2>1, <2>2, Zeroes DEF Restart, TypeOK, Errors
<1>12. ASSUME NEW u \in Urls, NEW d \in Docs, SiteChange(u, d) PROVE TypeOK'
  BY <1>12, SubscriptionAssumption DEF SiteChange, TypeOK, state
<1>13. CASE UNCHANGED vars
  BY <1>13 DEF vars, state, TypeOK
<1>. QED
  BY <1>1, <1>2, <1>3, <1>4, <1>5, <1>6, <1>7, <1>8, <1>9, <1>10, <1>11, <1>12, <1>13
     DEF Next, ProcessUpdateResult

-----------------------------------------------------------------------------
(* The inductive invariant.  One update at a time is what the rest leans   *)
(* on: with the job in hand gone, nothing is left on its way.              *)

OneJob ==
    /\ updateJob # 0 => jobs # {}
    /\ \A j \in jobs : j.id = updateJob /\ jobs = {j}

GoneIsIdle == discontinued => jobs = {}

\* Without a handler every link followed has counted as a try, tries are limited,
\* and nothing but a handler sets them back.
HopsAreTries ==
    /\ hops <= AUTO_DISCOVERY_MAX_REDIRECTS
    /\ ~fhp => hops <= autoDiscoveryTries

\* What the validators stand for is stored, or the loss is known.
Accounted(t) == Stored(t) \/ error # "NONE" \/ forgotten

\* A request carries validators that may come back with its answer.
ValidatorsAccounted ==
    /\ Accounted(validators)
    /\ \A j \in jobs : /\ Accounted(j.tag)
                       /\ j.answer.status = 304 => j.answer.tag = j.tag

IInv == TypeOK /\ OneJob /\ GoneIsIdle /\ HopsAreTries /\ ValidatorsAccounted

LEMMA InitIInv == Init => IInv
<1>. SUFFICES ASSUME Init PROVE IInv
  OBVIOUS
<1>1. OneJob /\ GoneIsIdle
  BY DEF Init, OneJob, GoneIsIdle
<1>2. HopsAreTries
  BY SubscriptionAssumption DEF Init, HopsAreTries
<1>3. ValidatorsAccounted
  BY DEF Init, ValidatorsAccounted, Accounted, Stored, NoTag, NoDoc, Recognised
<1>. QED  BY <1>1, <1>2, <1>3, InitTypeOK DEF IInv

-----------------------------------------------------------------------------
(* What the actions do to the job.                                         *)

LEMMA LastJob ==
    ASSUME OneJob, NEW j \in jobs
    PROVE  jobs \ {j} = {}
BY DEF OneJob

LEMMA IdleJobs ==
    ASSUME OneJob, updateJob = 0, TypeOK
    PROVE  jobs = {}
BY DEF OneJob, TypeOK, Jobs

\* A new job carries the validators of the subscription.
LEMMA StartedJob ==
    ASSUME TypeOK, NEW s \in Urls, NEW g, SubscriptionUpdate(s, 0, g, {})
    PROVE  \/ updateJob' = 0 /\ jobs' = {}
           \/ /\ ~g
              /\ \E k \in Jobs : /\ updateJob' = k.id /\ jobs' = {k}
                                 /\ k.tag = validators /\ k.answer = NoAnswer
<1>1. CASE CanBeUpdated(0, g)
  <2>1. PICK i \in FreeIds : updateJob' = i /\ jobs' = {NewJob(i, s, validators)}
    BY <1>1 DEF SubscriptionUpdate
  <2>2. NewJob(i, s, validators) \in Jobs
    BY <2>1 DEF NewJob, Jobs, FreeIds, TypeOK
  <2>3. /\ NewJob(i, s, validators).id = i
        /\ NewJob(i, s, validators).tag = validators
        /\ NewJob(i, s, validators).answer = NoAnswer
    BY DEF NewJob
  <2>. QED  BY <1>1, <2>1, <2>2, <2>3 DEF CanBeUpdated
<1>2. CASE ~CanBeUpdated(0, g)
  BY <1>2 DEF SubscriptionUpdate
<1>. QED  BY <1>1, <1>2

\* Whoever asks for an update leaves the job that is there or starts one.
LEMMA AskedJob ==
    ASSUME TypeOK, OneJob, NEW s \in Urls, NEW g,
           SubscriptionUpdate(s, updateJob, g, jobs)
    PROVE  \/ UNCHANGED <<updateJob, jobs>>
           \/ updateJob' = 0 /\ jobs' = {}
           \/ /\ ~g
              /\ \E k \in Jobs : /\ updateJob' = k.id /\ jobs' = {k}
                                 /\ k.tag = validators /\ k.answer = NoAnswer
<1>1. CASE updateJob = 0
  BY <1>1, IdleJobs, StartedJob
<1>2. CASE updateJob # 0
  BY <1>2 DEF SubscriptionUpdate, CanBeUpdated
<1>. QED  BY <1>1, <1>2

LEMMA DownloadedJob ==
    ASSUME TypeOK, OneJob, NEW j \in jobs, Download(j)
    PROVE  \E k \in Jobs : /\ jobs' = {k}
                           /\ k.id = j.id /\ k.tag = j.tag
                           /\ k.answer.status = 304 => k.answer.tag = k.tag
<1>1. PICK a \in Answers : /\ jobs' = (jobs \ {j}) \union {[j EXCEPT !.answer = a]}
                           /\ a.status = 304 => a.tag = j.tag
  BY DownloadCases
<1>2. j \in Jobs
  BY DEF TypeOK
<1>3. DEFINE k == [id |-> j.id, url |-> j.url, tag |-> j.tag, answer |-> a]
<1>4. [j EXCEPT !.answer = a] = k /\ k \in Jobs
  BY <1>2 DEF Jobs
<1>5. jobs' = {k}
  BY <1>1, <1>4, LastJob
<1>. QED  BY <1>1, <1>4, <1>5

LEMMA FinishedJob ==
    ASSUME OneJob, NEW j \in jobs, Finished(j)
    PROVE  updateJob' = 0 /\ jobs' = {}
BY LastJob DEF Finished

\* Discovery's update begins where the job that found the link ended.
LEMMA FollowedJob ==
    ASSUME TypeOK, OneJob, NEW j \in jobs, LinkFound(j)
    PROVE  \/ updateJob' = 0 /\ jobs' = {}
           \/ /\ ~discontinued
              /\ \E k \in Jobs : /\ updateJob' = k.id /\ jobs' = {k}
                                 /\ k.tag = validators /\ k.answer = NoAnswer
<1>1. Content(j).link \in Urls
  <2>1. Content(j) \in Docs \union {NoDoc}
    BY AnswerType DEF LinkFound, Usable
  <2>2. \A d \in Docs : d.link \in Urls \union {NoUrl}
    BY SubscriptionAssumption DEF Document
  <2>. QED  BY <2>1, <2>2 DEF LinkFound, Discovers, NoDoc
<1>. QED  BY <1>1, LastJob, StartedJob DEF LinkFound

-----------------------------------------------------------------------------
(* The parts of the inductive invariant, one after the other.              *)

LEMMA OneJobAfter ==
    ASSUME TypeOK', \/ updateJob' = 0 /\ jobs' = {}
                    \/ \E k \in Jobs : updateJob' = k.id /\ jobs' = {k}
    PROVE  OneJob'
BY DEF OneJob, Jobs

LEMMA NextOneJob ==
    ASSUME TypeOK, OneJob, TypeOK', [Next]_vars
    PROVE  OneJob'
<1>1. CASE UpdateDue
  <2>1. SubscriptionUpdate(source, updateJob, discontinued, jobs) /\ source \in Urls
    BY <1>1 DEF UpdateDue, TypeOK
  <2>. QED  BY <2>1, AskedJob, OneJobAfter DEF OneJob
<1>2. ASSUME NEW j \in jobs, Download(j) PROVE OneJob'
  <2>1. j.id = updateJob /\ updateJob' = updateJob
    BY <1>2 DEF OneJob, Download, state
  <2>. QED  BY <1>2, <2>1, DownloadedJob, OneJobAfter
<1>3. ASSUME NEW j \in jobs, ProcessUpdateResult(j) PROVE OneJob'
  <2>1. Finished(j) \/ LinkFound(j)
    BY <1>3 DEF ProcessUpdateResult, NotModified, Refused, Spoiled, FeedFound, NothingFound
  <2>. QED  BY <2>1, FinishedJob, FollowedJob, OneJobAfter
<1>4. ASSUME NEW u \in Urls, EditSource(u) PROVE OneJob'
  <2>1. SubscriptionUpdate(u, updateJob, FALSE, jobs)
    BY <1>4 DEF EditSource
  <2>. QED  BY <2>1, AskedJob, OneJobAfter DEF OneJob
<1>5. CASE Restart
  BY <1>5, OneJobAfter DEF Restart
<1>6. CASE SaveFeedList \/ UNCHANGED vars
  BY <1>6 DEF SaveFeedList, OneJob, state, vars
<1>7. ASSUME NEW u \in Urls, NEW d \in Docs, SiteChange(u, d) PROVE OneJob'
  BY <1>7 DEF SiteChange, OneJob, state
<1>. QED  BY <1>1, <1>2, <1>3, <1>4, <1>5, <1>6, <1>7 DEF Next

LEMMA NextGoneIsIdle ==
    ASSUME TypeOK, OneJob, GoneIsIdle, [Next]_vars
    PROVE  GoneIsIdle' /\ (discontinued /\ source' = source => discontinued')
<1>1. CASE UpdateDue
  BY <1>1 DEF UpdateDue, CanBeUpdated, GoneIsIdle
<1>2. ASSUME NEW j \in jobs, Download(j)
      PROVE  GoneIsIdle' /\ (discontinued => discontinued')
  BY <1>2 DEF Download, state, GoneIsIdle
<1>3. ASSUME NEW j \in jobs, ProcessUpdateResult(j)
      PROVE  GoneIsIdle' /\ (discontinued => discontinued')
  <2>1. CASE Finished(j)
    BY <2>1, FinishedJob DEF GoneIsIdle
  <2>2. CASE LinkFound(j)
    <3>1. discontinued' = discontinued
      BY <2>2 DEF LinkFound
    <3>. QED  BY <2>2, <3>1, FollowedJob DEF GoneIsIdle
  <2>3. Finished(j) \/ LinkFound(j)
    BY <1>3 DEF ProcessUpdateResult, NotModified, Refused, Spoiled, FeedFound, NothingFound
  <2>. QED  BY <2>1, <2>2, <2>3 DEF GoneIsIdle
<1>4. ASSUME NEW u \in Urls, EditSource(u)
      PROVE  GoneIsIdle' /\ source' # source
  BY <1>4 DEF EditSource, GoneIsIdle
<1>5. CASE Restart
  BY <1>5 DEF Restart, GoneIsIdle
<1>6. CASE SaveFeedList \/ UNCHANGED vars
  BY <1>6 DEF SaveFeedList, GoneIsIdle, state, vars
<1>7. ASSUME NEW u \in Urls, NEW d \in Docs, SiteChange(u, d)
      PROVE  GoneIsIdle' /\ (discontinued => discontinued')
  BY <1>7 DEF SiteChange, GoneIsIdle, state
<1>. QED  BY <1>1, <1>2, <1>3, <1>4, <1>5, <1>6, <1>7 DEF Next

\* Hops are counted no faster than tries.
LEMMA OneMoreMonotonic ==
    ASSUME NEW m \in 0..TooMany, NEW n \in 0..TooMany, m <= n
    PROVE  OneMore(m) <= OneMore(n) /\ n <= OneMore(n)
BY SubscriptionAssumption DEF OneMore, TooMany

LEMMA NextHopsAreTries ==
    ASSUME TypeOK, HopsAreTries, [Next]_vars
    PROVE  HopsAreTries'
<1>. USE SubscriptionAssumption
<1>1. /\ hops \in 0..TooMany /\ autoDiscoveryTries \in 0..TooMany
      /\ TooMany \in Nat
  BY DEF TypeOK, TooMany
<1>2. CASE UNCHANGED <<fhp, hops, autoDiscoveryTries>>
  BY <1>2 DEF HopsAreTries
<1>3. ASSUME NEW j \in jobs, FeedFound(j) PROVE HopsAreTries'
  <2>1. fhp' = TRUE /\ hops' = hops
    BY <1>3 DEF FeedFound, Processed, Recognised
  <2>. QED  BY <2>1 DEF HopsAreTries
<1>4. ASSUME NEW j \in jobs, LinkFound(j) PROVE HopsAreTries'
  <2>1. CASE fhp
    <3>1. fhp' /\ hops' = hops
      BY <1>4, <2>1 DEF LinkFound, Processed
    <3>. QED  BY <3>1 DEF HopsAreTries
  <2>2. CASE ~fhp
    <3>1. /\ TriesAfter(Content(j)) = OneMore(autoDiscoveryTries)
          /\ TriesAfter(Content(j)) <= AUTO_DISCOVERY_MAX_REDIRECTS
      BY <1>4 DEF LinkFound, Discovers, TriesAfter
    <3>2. hops' = OneMore(hops) /\ hops <= autoDiscoveryTries
      BY <1>4, <2>2 DEF LinkFound, HopsAreTries
    <3>3. hops' <= OneMore(autoDiscoveryTries)
      BY <1>1, <3>2, OneMoreMonotonic
    <3>4. ~fhp' => autoDiscoveryTries' = OneMore(autoDiscoveryTries)
      BY <1>4, <3>1 DEF LinkFound, Processed
    <3>5. OneMore(hops) \in 0..TooMany /\ OneMore(autoDiscoveryTries) \in 0..TooMany
      BY <1>1, OneMoreType
    <3>. QED  BY <1>1, <3>1, <3>2, <3>3, <3>4, <3>5 DEF HopsAreTries
  <2>. QED  BY <2>1, <2>2
<1>5. ASSUME NEW j \in jobs, NothingFound(j) PROVE HopsAreTries'
  <2>1. /\ UNCHANGED <<fhp, hops>>
        /\ \/ autoDiscoveryTries' = autoDiscoveryTries
           \/ autoDiscoveryTries' = OneMore(autoDiscoveryTries)
    BY <1>5 DEF NothingFound, TriesAfter
  <2>2. autoDiscoveryTries <= OneMore(autoDiscoveryTries)
    BY <1>1, OneMoreMonotonic
  <2>3. OneMore(autoDiscoveryTries) \in 0..TooMany
    BY <1>1, OneMoreType
  <2>. QED  BY <1>1, <2>1, <2>2, <2>3 DEF HopsAreTries
<1>6. CASE Restart
  BY <1>1, <1>6 DEF Restart, HopsAreTries
<1>. QED
  BY <1>2, <1>3, <1>4, <1>5, <1>6
     DEF Next, ProcessUpdateResult, UpdateDue, Download, NotModified, Refused, Spoiled,
         EditSource, SaveFeedList, SiteChange, state, vars

\* What is accounted for stays so while items are only added.
LEMMA StaysAccounted ==
    ASSUME NEW t, Accounted(t), items \subseteq items',
           error # "NONE" => error' # "NONE", forgotten => forgotten'
    PROVE  Accounted(t)'
BY DEF Accounted, Stored

LEMMA AccountedAfter ==
    ASSUME Accounted(validators)',
           \/ jobs' = {}
           \/ \E k \in Jobs : /\ jobs' = {k} /\ Accounted(k.tag)'
                              /\ k.answer.status = 304 => k.answer.tag = k.tag
    PROVE  ValidatorsAccounted'
BY DEF ValidatorsAccounted

\* An idle subscription that has processed a document has stored its items.
LEMMA ProcessedIsStored ==
    ASSUME NEW d, Processed(d), NEW t, t.doc = d
    PROVE  Stored(t)' /\ items \subseteq items'
BY DEF Processed, Stored

LEMMA AskedAccounted ==
    ASSUME TypeOK, OneJob, ValidatorsAccounted, NEW s \in Urls, NEW g,
           SubscriptionUpdate(s, updateJob, g, jobs),
           UNCHANGED <<validators, error, items, forgotten>>
    PROVE  ValidatorsAccounted'
<1>1. Accounted(validators)'
  BY DEF ValidatorsAccounted, Accounted, Stored
<1>2. CASE UNCHANGED jobs
  BY <1>2 DEF ValidatorsAccounted, Accounted, Stored
<1>3. CASE jobs' = {}
  BY <1>1, <1>3, AccountedAfter
<1>4. ASSUME NEW k \in Jobs, jobs' = {k}, k.tag = validators, k.answer = NoAnswer
      PROVE  ValidatorsAccounted'
  <2>1. k.answer.status # 304
    BY <1>4 DEF NoAnswer
  <2>2. Accounted(k.tag)'
    BY <1>1, <1>4
  <2>. QED  BY <1>1, <1>4, <2>1, <2>2, AccountedAfter
<1>. QED  BY <1>2, <1>3, <1>4, AskedJob

LEMMA FinishedAccounted ==
    ASSUME OneJob, NEW j \in jobs, Finished(j), Accounted(j.answer.tag)'
    PROVE  ValidatorsAccounted'
<1>1. validators' = j.answer.tag
  BY DEF Finished, Postprocess
<1>2. Accounted(validators)'
  BY <1>1 DEF Accounted, Stored
<1>. QED  BY <1>2, FinishedJob, AccountedAfter

LEMMA NextValidatorsAccounted ==
    ASSUME TypeOK, OneJob, ValidatorsAccounted, [Next]_vars
    PROVE  ValidatorsAccounted'
<1>1. CASE UpdateDue
  <2>1. SubscriptionUpdate(source, updateJob, discontinued, jobs) /\ source \in Urls
    BY <1>1 DEF UpdateDue, TypeOK
  <2>. QED  BY <1>1, <2>1, AskedAccounted DEF UpdateDue
<1>2. ASSUME NEW j \in jobs, Download(j) PROVE ValidatorsAccounted'
  <2>1. UNCHANGED <<validators, items, error, forgotten>>
    BY <1>2 DEF Download, state
  <2>2. Accounted(validators)' /\ Accounted(j.tag)'
    BY <2>1 DEF ValidatorsAccounted, Accounted, Stored
  <2>3. PICK k \in Jobs : /\ jobs' = {k} /\ k.tag = j.tag
                          /\ k.answer.status = 304 => k.answer.tag = k.tag
    BY <1>2, DownloadedJob
  <2>4. Accounted(k.tag)'
    BY <2>2, <2>3
  <2>. QED  BY <2>2, <2>3, <2>4, AccountedAfter
<1>3. ASSUME NEW j \in jobs, NotModified(j) PROVE ValidatorsAccounted'
  <2>1. j.answer.tag = j.tag /\ Accounted(j.tag)
    BY <1>3 DEF NotModified, ValidatorsAccounted
  <2>2. Finished(j) /\ UNCHANGED <<items, error, forgotten>>
    BY <1>3 DEF NotModified, ErrorKept, Finished
  <2>3. Accounted(j.answer.tag)'
    BY <2>1, <2>2 DEF Accounted, Stored
  <2>. QED  BY <2>2, <2>3, FinishedAccounted
<1>4. ASSUME NEW j \in jobs, Refused(j) \/ Spoiled(j) PROVE ValidatorsAccounted'
  <2>1. Finished(j) /\ error' # "NONE"
    BY <1>4 DEF Refused, Spoiled
  <2>. QED  BY <2>1, FinishedAccounted DEF Accounted
<1>5. ASSUME NEW j \in jobs, FeedFound(j) \/ NothingFound(j) PROVE ValidatorsAccounted'
  <2>1. Finished(j)
    BY <1>5 DEF FeedFound, NothingFound
  <2>2. Stored(j.answer.tag)'
    BY <1>5, ProcessedIsStored DEF FeedFound, NothingFound, Stored, Content
  <2>. QED  BY <2>1, <2>2, FinishedAccounted DEF Accounted
<1>6. ASSUME NEW j \in jobs, LinkFound(j) PROVE ValidatorsAccounted'
  <2>1. validators' = j.answer.tag /\ Processed(Content(j))
    BY <1>6 DEF LinkFound, Postprocess
  <2>2. Stored(j.answer.tag)' /\ items \subseteq items'
    BY <2>1, ProcessedIsStored DEF Content
  <2>3. Accounted(validators)'
    BY <2>1, <2>2 DEF Accounted, Stored
  <2>4. Stored(validators) \/ forgotten'
    BY <1>6 DEF LinkFound
  <2>5. \A k \in Jobs : k.tag = validators => Accounted(k.tag)'
    BY <2>2, <2>4 DEF Accounted, Stored
  <2>6. \A k \in Jobs : k.answer = NoAnswer => k.answer.status # 304
    BY DEF NoAnswer
  <2>. QED  BY <1>6, <2>3, <2>5, <2>6, FollowedJob, AccountedAfter
<1>7. ASSUME NEW u \in Urls, EditSource(u) PROVE ValidatorsAccounted'
  <2>1. SubscriptionUpdate(u, updateJob, FALSE, jobs)
    BY <1>7 DEF EditSource
  <2>. QED  BY <1>7, <2>1, AskedAccounted DEF EditSource
<1>8. CASE Restart
  <2>1. Accounted(validators)'
    BY <1>8 DEF Restart, Accounted, Stored
  <2>. QED  BY <1>8, <2>1, AccountedAfter DEF Restart
<1>9. CASE SaveFeedList \/ UNCHANGED vars
  BY <1>9 DEF SaveFeedList, ValidatorsAccounted, Accounted, Stored, state, vars
<1>10. ASSUME NEW u \in Urls, NEW d \in Docs, SiteChange(u, d) PROVE ValidatorsAccounted'
  BY <1>10 DEF SiteChange, ValidatorsAccounted, Accounted, Stored, state
<1>. QED
  BY <1>1, <1>2, <1>3, <1>4, <1>5, <1>6, <1>7, <1>8, <1>9, <1>10
     DEF Next, ProcessUpdateResult

-----------------------------------------------------------------------------
(* The theorems.                                                           *)

LEMMA NextIInv == IInv /\ [Next]_vars => IInv'
BY NextTypeOK, NextOneJob, NextGoneIsIdle, NextHopsAreTries, NextValidatorsAccounted
   DEF IInv

\* The inductive invariant holds for any documents and any bounds.
THEOREM Invariance == Spec => []IInv
BY InitIInv, NextIInv, PTL DEF Spec

\* Every variable keeps to its type.
THEOREM TypeCorrect == Spec => []TypeOK
BY InitTypeOK, NextTypeOK, PTL DEF Spec

\* The subscription names the one update that is on its way, if there is any.
THEOREM OneUpdate == Spec => []OneUpdateInFlight
<1>1. IInv => OneUpdateInFlight
  <2>. SUFFICES ASSUME IInv PROVE OneUpdateInFlight
    OBVIOUS
  <2>1. \A j \in jobs : j.id = updateJob /\ jobs = {j} /\ j.id # 0
    BY DEF IInv, OneJob, TypeOK, Jobs
  <2>2. CASE jobs = {}
    BY <2>2 DEF IInv, OneJob, OneUpdateInFlight
  <2>3. CASE jobs # {}
    BY <2>1, <2>3 DEF OneUpdateInFlight
  <2>. QED  BY <2>2, <2>3
<1>. QED  BY <1>1, Invariance, PTL

\* Validators never outlive lost content without a trace.
THEOREM LossIsFlagged == Spec => []LostContentIsFlagged
<1>1. IInv => LostContentIsFlagged
  BY DEF IInv, ValidatorsAccounted, Accounted, LostContentIsFlagged
<1>. QED  BY <1>1, Invariance, PTL

\* Before a handler is known a run of the program follows no more links than the
\* limit says, for any documents and links between them, and whatever the user, the
\* timer and the site do in between.  (What a handler that is known does to the
\* counter is shown by the violation of DiscoveryEnds.)
THEOREM DiscoveryBounded == Spec => []FreshDiscoveryEnds
<1>1. IInv => FreshDiscoveryEnds
  BY DEF IInv, HopsAreTries, FreshDiscoveryEnds
<1>. QED  BY <1>1, Invariance, PTL

\* A discontinued subscription stays idle until its source changes.
THEOREM GoneForGood == Spec => GoneStaysGone
<1>1. IInv /\ IInv' /\ [Next]_vars =>
        (discontinued /\ source' = source => discontinued' /\ jobs' = {})
  BY NextGoneIsIdle DEF IInv, GoneIsIdle
<1>2. IInv /\ IInv' /\ [Next]_vars =>
        [discontinued /\ source' = source => discontinued' /\ jobs' = {}]_vars
  BY <1>1
<1>. QED  BY <1>2, Invariance, PTL DEF Spec, GoneStaysGone
=============================================================================
