---------------------------- MODULE QueryService ----------------------------
(***************************************************************************)
(* The GUI's one dispatcher of worker requests (neverd-gui/QueryService).  *)
(* Subscribers share the job of an equal read, jobs wait in one queue, one *)
(* job at a time is active, and results of pure reads are cached.  All of  *)
(* it runs on the GUI thread, so a handler is one step; but a handler that *)
(* calls out (a completion, contextChanged) may be re-entered by anything, *)
(* a nested event loop included.  `frames' is the stack of handlers that   *)
(* are inside such a call, and only its top can go on.                     *)
(***************************************************************************)
EXTENDS EngineClient, FiniteSets, SequencesExt, FiniteSetsExt, Functions

CONSTANTS
    Query,              \* what is asked: see the fields below
    Owner,              \* the objects that own subscriptions
    MaxJobs, MaxSubscriptions, MaxQueuedBytes, MaxRequestBytes,     \* Limits
    MaxAsks             \* bound on the requests made of the service

\* kind: "read", "graph" or "command"; op: the operation with its payload;
\* cached: cacheable(op); exact: the expected revision of an Exact query, or
\* 0 for Latest; visible: its priority; bytes: its size; layout: the layout
\* whose pages a graph query continues, or 0.  Only detach sends a cancel, and
\* the sets `readable' and `command' tell reads from what changes the worker.
ASSUME QueryAssumption ==
    /\ Query \subseteq [kind : {"read", "graph", "command"}, op : STRING, cached : BOOLEAN,
                        exact : Nat, visible : BOOLEAN, bytes : Nat \ {0}, layout : Nat]
    /\ \A query \in Query : /\ query.cached => query.kind = "read"
                            /\ query.visible => query.kind # "command"
                            /\ query.op # "cancel"
                            /\ query.op \in {"open", "edit", "section", "save"} =>
                                  query.kind = "command"
    /\ {MaxJobs, MaxSubscriptions, MaxQueuedBytes, MaxRequestBytes} \subseteq Nat \ {0}
    /\ MaxAsks \in Nat

VARIABLES
    available, epoch, fence, listing, project, revision, analysisComplete,
    queuedBytes,
    jobs,           \* job id -> Job; a job is named by the ask that made it
    subscriptions,  \* ask -> [owner, epoch, job]
    queue, active,  \* active = 0 when no job is
    cache,          \* a set of [key, result]
    deferred,       \* zero timers: what the event loop will run, in any order
    frames,
    owners          \* those not destroyed yet

table == <<jobs, subscriptions, queue, active, queuedBytes>>
context == <<project, revision>>
session == <<available, epoch, fence, analysisComplete>>
serviceVars == <<table, context, session, listing, cache, deferred, frames, owners>>

\* Ghosts: what was asked and what was told; none of it is read by the code.
VARIABLES
    asked,      \* the queries, with the state the asker could know of
    answered,   \* asks whose completion ran
    answers,    \* how many completions ran
    left,       \* asks withdrawn before an answer
    last,       \* the last completion: the ask and what it was told
    announced   \* the epoch for which analysisCompleted was last emitted

ghosts == <<asked, answered, answers, left, last, announced>>
told == <<answered, answers, last>>

NoSnapshot == [of |-> <<0, 0>>, gen |-> 0]
NoSummary == [layout |-> 0, revision |-> 0, done |-> <<>>]
Nothing == [code |-> "", project |-> 0, revision |-> 0, done |-> <<>>, gen |-> 0,
            layout |-> 0, summary |-> NoSummary]
Error(code) == [Nothing EXCEPT !.code = code, !.project = project, !.revision = revision]

\* f with the value v at x.
Extended(f, x, v) == [y \in DOMAIN f \union {x} |-> IF y = x THEN v ELSE f[y]]

ServiceInit ==
    /\ available = FALSE /\ analysisComplete = FALSE
    /\ epoch = 1 /\ fence = 0 /\ listing = 0 /\ project = 0 /\ revision = 0
    /\ jobs = <<>> /\ subscriptions = <<>> /\ queue = <<>> /\ active = 0 /\ queuedBytes = 0
    /\ cache = {} /\ deferred = {} /\ frames = <<>> /\ owners = Owner
    /\ asked = <<>> /\ answered = {} /\ answers = 0 /\ left = {}
    /\ last = Extended(Nothing, "ask", 0) /\ announced = 0

Pumping == [task |-> "pump"]
Kind(j) == jobs[j].query.kind
Without(f, S) == Restrict(f, DOMAIN f \ S)
Bytes(S) == MapThenSumSet(LAMBDA j : jobs[j].bytes, S)

\* subscription.complete(result): the asker learns `result'.
Complete(ask, result) ==
    /\ answered' = answered \union {ask}
    /\ answers' = answers + 1
    /\ last' = Extended(result, "ask", ask)

\* QList::removeAll of each of S.
Unqueued(q, S) ==
    LET kept[n \in 0..Len(q)] ==
            IF n = 0 THEN <<>>
            ELSE IF q[n] \in S THEN kept[n - 1] ELSE Append(kept[n - 1], q[n])
    IN kept[Len(q)]

\* Slip: the bytes of a job stay charged.
RemoveJobsCharged(S) ==
    /\ queue' = Unqueued(queue, S)
    /\ active' = IF active \in S THEN 0 ELSE active
    /\ UNCHANGED queuedBytes

\* State::removeJob, of each of S; jobs' is left to the caller.
RemoveJobs(S) ==
    /\ queue' = Unqueued(queue, S)
    /\ queuedBytes' = queuedBytes - Bytes(S)
    /\ active' = IF active \in S THEN 0 ELSE active

-----------------------------------------------------------------------------
(* Asking.                                                                 *)

\* State::key for coalescing: everything that tells two answers apart, and
\* not the priority.
CoalescingKey(query) ==
    [epoch |-> epoch, project |-> project, fence |-> fence, listing |-> listing,
     query |-> [query EXCEPT !.visible = FALSE]]
\* State::key for the cache.
CacheKey(job) ==
    [epoch |-> epoch, project |-> project, revision |-> revision,
     listing |-> job.listing, op |-> job.query.op]

\* The jobs a new subscriber may join.
Shared(query) ==
    {j \in DOMAIN jobs :
        /\ query.kind # "command"
        /\ jobs[j].epoch = epoch
        /\ ~jobs[j].cancelRequested
        /\ jobs[j].phase # "delivering"
        /\ jobs[j].key = CoalescingKey(query)}

Refusal(query) ==
    CASE ~available -> "transport_unavailable"
      [] query.bytes > MaxRequestBytes -> "budget_exceeded"
      [] Cardinality(DOMAIN subscriptions) >= MaxSubscriptions -> "queue_full"
      [] Shared(query) = {} /\ \/ Cardinality(DOMAIN jobs) >= MaxJobs
                               \/ query.bytes > MaxQueuedBytes - queuedBytes -> "queue_full"
      [] OTHER -> ""

NewJob(query, ask) ==
    [epoch |-> epoch, fence |-> fence, listing |-> listing, query |-> query,
     key |-> CoalescingKey(query), bytes |-> query.bytes, subscribers |-> {ask},
     phase |-> "queued", wire |-> 0, wireOp |-> "", wireProject |-> 0,
     cancelRequested |-> FALSE, retried |-> FALSE, summary |-> NoSummary,
     snapshot |-> NoSnapshot, discovered |-> FALSE, result |-> Nothing]

\* Reads asked for after a command may not join a flight from before it.
FenceAfter(query) == IF query.kind = "command" THEN fence + 1 ELSE fence

\* State::add.  `knows' is what the asker may know of the worker's listing.
Ask(query, owner, knows) ==
    LET ask == Len(asked) + 1
        refusal == Refusal(query)
        share == Shared(query)
        accept ==
            /\ \/ /\ share # {}
                  /\ \E j \in share :
                        /\ jobs' = [jobs EXCEPT ![j].subscribers = @ \union {ask},
                                                ![j].query.visible = @ \/ query.visible]
                        /\ subscriptions' = Extended(subscriptions, ask,
                              [owner |-> owner, epoch |-> epoch, job |-> j])
                  /\ UNCHANGED <<queue, queuedBytes, fence>>
               \/ /\ share = {}
                  /\ jobs' = Extended(jobs, ask, NewJob(query, ask))
                  /\ subscriptions' = Extended(subscriptions, ask,
                        [owner |-> owner, epoch |-> epoch, job |-> ask])
                  /\ queue' = Append(queue, ask)
                  /\ queuedBytes' = queuedBytes + query.bytes
                  /\ fence' = FenceAfter(query)
            /\ deferred' = deferred \union {Pumping}
        refuse ==
            /\ deferred' = deferred \union
                  {[task |-> "reject", ask |-> ask, owner |-> owner, epoch |-> epoch,
                    code |-> refusal]}
            /\ UNCHANGED <<jobs, subscriptions, queue, queuedBytes, fence>>
    IN /\ Len(asked) < MaxAsks /\ owner \in owners
       /\ asked' = Append(asked, [query |-> query, owner |-> owner, knows |-> knows,
                                  project |-> project, process |-> client.epoch])
       /\ IF refusal = "" THEN accept ELSE refuse
       /\ UNCHANGED <<active, context, available, epoch, analysisComplete, listing, cache,
                      frames, owners, told, left, announced, client>>

\* The deferred completion of State::reject.
RejectLater(t) ==
    /\ t \in deferred /\ t.task = "reject"
    /\ deferred' = deferred \ {t}
    /\ IF t.owner \in owners
       THEN Complete(t.ask, Error(IF epoch # t.epoch THEN "session_changed" ELSE t.code))
       ELSE UNCHANGED told
    /\ UNCHANGED <<table, context, session, listing, cache, frames, owners, asked, left, announced,
                   client>>

-----------------------------------------------------------------------------
(* Withdrawing.                                                            *)

Flying(j) == jobs[j].phase \in {"reading", "summary", "viewport"}

\* Slip: a flight without subscribers ends there and then.
GoesAtOnceInFlight(j) == jobs[j].phase # "delivering"

\* What detach removes without waiting for a reply.
GoesAtOnce(j) == jobs[j].phase = "queued"

\* State::detach of each of `ids'.  A command runs to its end; a queued read
\* goes; a delivery keeps its barrier; a flight is cancelled once, and only
\* the reply to the request itself ends it.
Detach(ids) ==
    LET emptied == {j \in DOMAIN jobs :
                       /\ jobs[j].subscribers \intersect ids # {}
                       /\ jobs[j].subscribers \subseteq ids
                       /\ Kind(j) # "command"}
        gone == {j \in emptied : GoesAtOnce(j)}
        recalled == {j \in emptied : Flying(j) /\ ~jobs[j].cancelRequested}
    IN /\ subscriptions' = Without(subscriptions, ids)
       /\ jobs' = [j \in DOMAIN jobs \ gone |->
                      [jobs[j] EXCEPT !.subscribers = @ \ ids,
                                      !.cancelRequested = @ \/ j \in recalled]]
       /\ RemoveJobs(gone)
       /\ deferred' = IF gone = {} THEN deferred ELSE deferred \union {Pumping}
       /\ client' = FoldSet(LAMBDA j, c :
                        Request(c, [op |-> "cancel", target |-> jobs[j].wire]), client, recalled)
       /\ left' = left \union ids
       /\ UNCHANGED <<context, session, listing, cache, frames, told, asked, announced>>

Unsubscribe(ask) == ask \in DOMAIN subscriptions /\ Detach({ask}) /\ UNCHANGED owners

\* unsubscribeOwner, called when the owner is destroyed.
UnsubscribeOwner(owner) ==
    /\ owner \in owners
    /\ owners' = owners \ {owner}
    /\ Detach({i \in DOMAIN subscriptions : subscriptions[i].owner = owner})

\* cancelReads(keep), with the session's own reads kept.
CancelReads(keep) ==
    LET ids == {i \in DOMAIN subscriptions :
                   /\ subscriptions[i].job \in DOMAIN jobs
                   /\ Kind(subscriptions[i].job) # "command"
                   /\ subscriptions[i].owner \notin keep}
    IN ids # {} /\ Detach(ids) /\ UNCHANGED owners

-----------------------------------------------------------------------------
(* Running a job.                                                          *)

\* State::finish.
Finished(job, result) == [job EXCEPT !.wire = 0, !.phase = "delivering", !.result = result]
Finish(j, job, result) ==
    /\ jobs' = [jobs EXCEPT ![j] = Finished(job, result)]
    /\ deferred' = deferred \union {[task |-> "deliver", job |-> j]}
    /\ UNCHANGED client

\* State::dispatch: the request that job j now waits for.
Dispatch(j, job, op, layout) ==
    /\ client' = Request(client, [op |-> op, job |-> j, kind |-> job.query.kind,
                    expected |-> IF job.query.exact # 0 THEN job.query.exact ELSE revision,
                    layout |-> layout])
    /\ jobs' = [jobs EXCEPT ![j] = [job EXCEPT !.snapshot = NoSnapshot, !.wireOp = op,
                                        !.wireProject = project, !.wire = client'.nextRequest]]

\* Where pump takes from: the first visible read that no command precedes,
\* else the head.
Chosen ==
    LET visible == {n \in DOMAIN queue :
                       /\ jobs[queue[n]].query.visible
                       /\ \A m \in 1..n : Kind(queue[m]) # "command"}
    IN IF visible = {} THEN 1 ELSE Min(visible)

\* Slip: the cache survives a command that does not advance the revision.
RunKeepingCache(j, job) ==
    /\ UNCHANGED cache
    /\ Dispatch(j, [job EXCEPT !.phase = IF Kind(j) = "graph" THEN "summary" ELSE "reading"],
                IF Kind(j) = "graph" THEN "cfg_summary" ELSE job.query.op, 0)

Run(j, job) ==
    /\ cache' = IF Kind(j) = "command" THEN {} ELSE cache
    /\ Dispatch(j, [job EXCEPT !.phase = IF Kind(j) = "graph" THEN "summary" ELSE "reading"],
                IF Kind(j) = "graph" THEN "cfg_summary" ELSE job.query.op, 0)

\* State::pump.
Pump ==
    /\ Pumping \in deferred
    /\ IF active # 0 \/ queue = <<>> \/ ~available
       THEN /\ deferred' = deferred \ {Pumping}
            /\ UNCHANGED <<table, cache, client>>
       ELSE LET j == queue[Chosen]
                job == jobs[j]
                hits == {hit \in cache : hit.key = CacheKey(job)}
                ends(result) ==
                    /\ jobs' = [jobs EXCEPT ![j] = Finished(job, result)]
                    /\ deferred' = (deferred \ {Pumping}) \union {[task |-> "deliver", job |-> j]}
                    /\ UNCHANGED <<client, cache>>
            IN /\ active' = j
               /\ queue' = RemoveAt(queue, Chosen)
               /\ UNCHANGED <<subscriptions, queuedBytes>>
               /\ IF job.epoch # epoch THEN ends(Error("session_changed"))
                  ELSE IF job.query.exact # 0 /\ job.query.exact # revision
                       THEN ends(Error("stale_revision"))
                  ELSE IF job.query.cached /\ hits # {}
                       THEN ends((CHOOSE hit \in hits : TRUE).result)
                  ELSE /\ deferred' = deferred \ {Pumping}
                       /\ Run(j, job)
    /\ UNCHANGED <<context, session, listing, frames, owners, ghosts>>

-----------------------------------------------------------------------------
(* Delivering.                                                             *)

Top == frames[Len(frames)]
Pop == Front(frames)
InFrame(kind) == frames # <<>> /\ Top.frame = kind

\* State::deliver up to its first completion.  An answer of another context
\* is asked for again or refused.
DeliverBegin(t) ==
    /\ t \in deferred /\ t.task = "deliver"
    /\ IF t.job \notin DOMAIN jobs \/ jobs[t.job].phase # "delivering"
       THEN /\ deferred' = deferred \ {t}
            /\ UNCHANGED <<table, frames>>
       ELSE LET job == jobs[t.job]
                stale == /\ Kind(t.job) # "command"
                         /\ job.result.code = "ok"
                         /\ \/ job.epoch # epoch
                            \/ job.result.project # project
                            \/ job.result.revision # revision
            IN IF stale /\ job.epoch = epoch /\ job.query.exact = 0
               THEN /\ jobs' = [jobs EXCEPT ![t.job].phase = "queued", ![t.job].result = Nothing]
                    /\ active' = 0
                    /\ queue' = <<t.job>> \o queue
                    /\ deferred' = (deferred \ {t}) \union {Pumping}
                    /\ UNCHANGED <<subscriptions, queuedBytes, frames>>
               ELSE /\ jobs' = IF stale
                              THEN [jobs EXCEPT ![t.job].result =
                                       Error(IF job.epoch = epoch THEN "stale_revision"
                                                                  ELSE "session_changed")]
                              ELSE jobs
                    /\ frames' = Append(frames, [frame |-> "deliver", job |-> t.job,
                                     ids |-> job.subscribers, work |-> jobs'[t.job]])
                    /\ deferred' = deferred \ {t}
                    /\ UNCHANGED <<subscriptions, queue, active, queuedBytes>>
    /\ UNCHANGED <<context, session, listing, cache, owners, ghosts, client>>

\* The next subscriber, in the order they joined: gone meanwhile, retired
\* with an answer of its own, or told.
DeliverNext ==
    /\ InFrame("deliver") /\ Top.ids # {}
    /\ LET i == Min(Top.ids)
           mine == i \in DOMAIN subscriptions /\ subscriptions[i].job = Top.job
       IN /\ frames' = [frames EXCEPT ![Len(frames)].ids = @ \ {i}]
          /\ subscriptions' = IF mine THEN Without(subscriptions, {i}) ELSE subscriptions
          /\ IF mine /\ subscriptions[i].epoch = epoch
             THEN Complete(i, Top.work.result) ELSE UNCHANGED told
    /\ UNCHANGED <<jobs, queue, active, queuedBytes, context, session, listing, cache,
                   deferred, owners, asked, left, announced, client>>

\* The background state a delivered reply brought, if it is still about the
\* project and revision at hand; 0 is none.
Brought ==
    IF Top.work.epoch = epoch /\ Top.work.snapshot.of = context THEN Top.work.snapshot.gen ELSE 0

Announcement(work) ==
    IF work.discovered /\ work.epoch = epoch THEN {[task |-> "analysis", epoch |-> epoch]} ELSE {}

\* Slip: the next job waits for somebody to ask.
AfterDeliveryNoPump(work) == Announcement(work)

\* What deliver leaves to the event loop.
AfterDelivery(work) == Announcement(work) \union {Pumping}

\* The rest of deliver: the job goes, what it brought is published, and the
\* next job may run.
DeliverEnd ==
    /\ InFrame("deliver") /\ Top.ids = {}
    /\ jobs' = Without(jobs, {Top.job})
    /\ RemoveJobs({Top.job} \intersect DOMAIN jobs)
    /\ deferred' = deferred \union AfterDelivery(Top.work)
    /\ frames' = Pop
    /\ UNCHANGED <<subscriptions, context, session, owners, ghosts, client>>

\* The deferred half of deliver's announcement.
AnalysisCompleted(t) ==
    /\ t \in deferred /\ t.task = "analysis"
    /\ deferred' = deferred \ {t}
    /\ announced' = IF epoch = t.epoch /\ analysisComplete THEN epoch ELSE announced
    /\ UNCHANGED <<table, context, session, listing, cache, frames, owners, asked, left, told,
                   client>>

-----------------------------------------------------------------------------
(* Retiring a session.                                                     *)

\* Slip: commands outlive the session they were meant for.
RetiredReads(keep) == {j \in DOMAIN jobs \ {keep} : Kind(j) # "command"}

\* What ends with the session.
Retired(keep) == DOMAIN jobs \ {keep}

\* State::retire: every job but `keep' ends, and its subscribers are told so
\* one by one, from the event loop.
Retire(keep, code) ==
    LET dropped == Retired(keep)
        orphans == DOMAIN subscriptions \intersect
                      UNION {jobs[j].subscribers : j \in dropped}
    IN /\ epoch' = epoch + 1
       /\ fence' = fence + 1
       /\ analysisComplete' = FALSE
       /\ cache' = {}
       /\ jobs' = [j \in DOMAIN jobs \ dropped |-> [jobs[j] EXCEPT !.epoch = epoch + 1]]
       /\ subscriptions' =
             [i \in DOMAIN subscriptions |->
                 IF i \in orphans THEN [subscriptions[i] EXCEPT !.job = 0, !.epoch = epoch + 1]
                 ELSE IF subscriptions[i].job = keep
                      THEN [subscriptions[i] EXCEPT !.epoch = epoch + 1]
                 ELSE subscriptions[i]]
       /\ RemoveJobs(dropped)
       /\ deferred' = deferred \union
             {[task |-> "standalone", ask |-> i, code |-> code] : i \in orphans}

\* Slip: nobody asks whether the subscriber is still there.
StandaloneUnchecked(t) ==
    /\ t \in deferred /\ t.task = "standalone"
    /\ deferred' = deferred \ {t}
    /\ subscriptions' = Without(subscriptions, {t.ask})
    /\ Complete(t.ask, Error(t.code))
    /\ UNCHANGED <<jobs, queue, active, queuedBytes, context, session, listing, cache, frames,
                   owners, asked, left, announced, client>>

\* State::standalone.
Standalone(t) ==
    /\ t \in deferred /\ t.task = "standalone"
    /\ deferred' = deferred \ {t}
    /\ subscriptions' = Without(subscriptions, {t.ask})
    /\ IF t.ask \in DOMAIN subscriptions THEN Complete(t.ask, Error(t.code)) ELSE UNCHANGED told
    /\ UNCHANGED <<jobs, queue, active, queuedBytes, context, session, listing, cache, frames,
                   owners, asked, left, announced, client>>

\* setAvailable(false), which is resetSession.
SetUnavailable ==
    IF available
    THEN /\ available' = FALSE
         /\ project' = 0 /\ revision' = 0
         /\ Retire(0, "worker_stopped")
    ELSE UNCHANGED <<table, context, session, cache, deferred>>

\* setAvailable(true).
SetAvailable ==
    /\ available' = TRUE
    /\ deferred' = IF available THEN deferred ELSE deferred \union {Pumping}
    /\ UNCHANGED <<table, context, epoch, fence, analysisComplete, cache>>

-----------------------------------------------------------------------------
(* Replies.                                                                *)

\* The reply the active job waits for; any other is nobody's.
Awaited(m) ==
    /\ active # 0
    /\ jobs[active].wire # 0 /\ jobs[active].wire = m.id
    /\ jobs[active].epoch = epoch

\* Whether a reply tells the worker's project and revision.
Contextual(m) == m.code \notin {"queue_full", "transport_unavailable", "cancelled"}
Opening(m) == jobs[active].query.op = "open" /\ m.code = "ok"
Moved(m) == Contextual(m) /\ (Opening(m) \/ revision # m.revision \/ project # m.project)

Result(m, summary) ==
    IF m.code = "ok"
    THEN [code |-> "ok", project |-> project, revision |-> revision, done |-> m.done,
          gen |-> m.gen, layout |-> m.layout, summary |-> summary]
    ELSE Error(m.code)

Ended(j, job, result) == Finish(j, job, result) /\ UNCHANGED cache
Sent(j, job, op, layout) == Dispatch(j, job, op, layout) /\ UNCHANGED <<cache, deferred>>

\* Slip: pages of one layout go on in another.
ContinuesAnywhere(query, layout) == TRUE

\* Cursors index one layout's lists.
Continues(query, layout) == query.layout \in {0, layout}

\* A graph is a summary and then a viewport of the same layout; one layout
\* that went stale in between is forgiven.
GraphReply(j, job, m) ==
    CASE m.code = "stale_layout" /\ ~job.retried ->
            Sent(j, [job EXCEPT !.retried = TRUE, !.phase = "summary", !.summary = NoSummary],
                 "cfg_summary", 0)
      [] m.code = "ok" /\ job.phase = "summary" ->
            IF ~Continues(job.query, m.layout)
            THEN Ended(j, job, Error("stale_layout"))
            ELSE Sent(j, [job EXCEPT !.phase = "viewport",
                             !.summary = [layout |-> m.layout, revision |-> revision,
                                          done |-> m.done]],
                      "cfg_viewport", m.layout)
      [] m.code = "ok" /\ job.phase = "viewport" /\
         (m.layout # job.summary.layout \/ job.summary.revision # revision) ->
            Ended(j, job, Error("stale_layout"))
      [] OTHER -> Ended(j, job, Result(m, job.summary))

\* QCache::insert may drop others to make room, and drops what is too large.
Cached(job, result) ==
    LET key == CacheKey(job)
    IN {{hit \in kept : hit.key # key} \union {[key |-> key, result |-> result]} :
            kept \in SUBSET cache}
       \union {cache}

\* Slip: only the last of a graph's replies counts.
DiscoveredLast(job, discovers) == discovers

Discovered(job, discovers) == job.discovered \/ discovers

\* receive, once the context is settled.
Settle(j, m) ==
    LET sections == Kind(j) = "command" /\ m.code = "ok" /\ jobs[j].query.op = "section"
        analyzed == Contextual(m) /\ project # 0 /\ m.analyzed
        discovers == analyzed /\ (sections \/ ~analysisComplete)
        job == [jobs[j] EXCEPT
                   !.discovered = Discovered(jobs[j], discovers),
                   !.snapshot = IF Contextual(m) /\ project # 0
                                THEN [of |-> context, gen |-> m.gen] ELSE @]
    IN /\ analysisComplete' = (analyzed \/ (analysisComplete /\ ~sections))
       /\ IF Kind(j) = "graph" /\ ~job.cancelRequested THEN GraphReply(j, job, m)
          ELSE /\ Finish(j, job, Result(m, NoSummary))
               /\ IF job.query.cached /\ m.code = "ok"
                  THEN cache' \in Cached(job, Result(m, NoSummary)) ELSE UNCHANGED cache
       /\ UNCHANGED <<subscriptions, queue, active, queuedBytes, context, available, epoch, fence>>

\* State::receive.  A reply that moves the context tells the views so before
\* it goes on, and they may ask, withdraw or stop the worker meanwhile.
Receive(m) ==
    /\ IF ~Awaited(m) THEN UNCHANGED <<table, context, session, cache, deferred, frames, client>>
       ELSE IF (m.op # "" /\ m.op # jobs[active].wireOp) \/ m.code = "malformed"
       THEN /\ Ended(active, jobs[active], Error("invalid_response"))
            /\ UNCHANGED <<subscriptions, queue, active, queuedBytes, context, session, frames>>
       ELSE IF m.code = "progress"
       THEN UNCHANGED <<table, context, session, cache, deferred, frames, client>>
       ELSE IF Contextual(m) /\ ~Opening(m) /\ m.project # jobs[active].wireProject
       THEN /\ Ended(active, jobs[active], Error("stale_project"))
            /\ UNCHANGED <<subscriptions, queue, active, queuedBytes, context, session, frames>>
       ELSE IF Moved(m)
       THEN /\ project' = m.project /\ revision' = m.revision
            /\ frames' = Append(frames, [frame |-> "context", job |-> active, reply |-> m])
            /\ UNCHANGED <<available, client>>
            /\ IF Opening(m) THEN Retire(active, "session_changed")
               ELSE /\ cache' = {}
                    /\ UNCHANGED <<table, epoch, fence, analysisComplete, deferred>>
       ELSE Settle(active, m) /\ UNCHANGED frames
    /\ UNCHANGED <<listing, owners, ghosts>>

\* receive goes on after contextChanged, unless the job ended meanwhile.
ContextChanged ==
    /\ InFrame("context")
    /\ frames' = Pop
    /\ IF active = Top.job /\ active \in DOMAIN jobs
       THEN Settle(active, Top.reply)
       ELSE UNCHANGED <<table, context, session, cache, deferred, client>>
    /\ UNCHANGED <<listing, owners, ghosts>>
=============================================================================
