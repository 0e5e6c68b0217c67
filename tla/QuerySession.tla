---------------------------- MODULE QuerySession ----------------------------
(***************************************************************************)
(* The query service bound to a worker: Session's handling of the worker's *)
(* life (neverd-gui/app/Session.cpp), the client and its transport, and    *)
(* the worker as its protocol shows it.  Module Worker has the worker's    *)
(* threads; here its executor answers one request in one step.             *)
(***************************************************************************)
EXTENDS QueryService

CONSTANTS
    Events,         \* what may happen unasked: see the actions that name it
    Withdrawals,    \* the ways askers withdraw
    MaxEpoch,       \* bound on the client's epochs
    MaxRevision,    \* bound on the worker's revisions
    MaxGen          \* bound on the generations of the worker's listing

ASSUME SessionAssumption ==
    /\ Events \subseteq {"exit", "fatal", "full", "error", "late", "malformed",
                   "progress", "heartbeat"}
    /\ Withdrawals \subseteq {"one", "owner", "reads"}
    /\ {MaxEpoch, MaxRevision, MaxGen} \subseteq Nat

VARIABLES
    worker,     \* the worker process the transport owns
    starting,   \* Session::starting_; connected_ is `available'
    loaded,     \* Session::loaded_
    known       \* the listing generation last applied, 0 before one

sessionVars == <<starting, loaded, known>>
vars == <<clientVars, serviceVars, ghosts, worker, sessionVars>>

Idle == [id |-> 0]
\* `done': the commands that made the state it serves, in order; `graph': the
\* layout of the graph it keeps, which is the revision it was laid out at.
FreshWorker == [project |-> 0, revision |-> 0, analyzed |-> FALSE, gen |-> 0, graph |-> 0, done |-> <<>>,
                request |-> Idle, recalled |-> FALSE]

Init ==
    /\ ServiceInit
    /\ client = Start(NewClient)
    /\ transport = NewTransport
    /\ posted = <<>>
    /\ worker = FreshWorker
    /\ starting = TRUE /\ loaded = FALSE /\ known = 0

\* The state in which the first project has been opened and all is quiet:
\* where the runs that are not about opening begin.
OpenedInit ==
    LET open == [kind |-> "command", op |-> "open", cached |-> FALSE, exact |-> 0,
                 visible |-> FALSE, bytes |-> 1, layout |-> 0]
        asker == CHOOSE owner \in Owner : TRUE
    IN /\ available = TRUE /\ analysisComplete = FALSE
       /\ epoch = 2 /\ fence = 2 /\ listing = 0 /\ project = 1 /\ revision = 1
       /\ jobs = <<>> /\ subscriptions = <<>> /\ queue = <<>> /\ active = 0 /\ queuedBytes = 0
       /\ cache = {} /\ deferred = {} /\ frames = <<>> /\ owners = Owner
       /\ asked = <<[query |-> open, owner |-> asker, knows |-> 0, project |-> 0, process |-> 1]>>
       /\ answered = {1} /\ answers = 1 /\ left = {} /\ announced = 0
       /\ last = Extended([Nothing EXCEPT !.code = "ok", !.project = 1, !.revision = 1,
                                           !.done = <<1>>], "ask", 1)
       /\ client = [epoch |-> 1, nextRequest |-> 1, calls |-> <<>>]
       /\ transport = [epoch |-> 1, process |-> "running"]
       /\ posted = <<>>
       /\ worker = [FreshWorker EXCEPT !.project = 1, !.revision = 1, !.done = <<1>>]
       /\ starting = FALSE /\ loaded = TRUE /\ known = 0

-----------------------------------------------------------------------------
(* The user and the views, from the event loop or from inside a callback.  *)

Asks == \E query \in Query, owner \in Owner :
    Ask(query, owner, known) /\ UNCHANGED <<transport, posted, worker, sessionVars>>

Withdraws ==
    /\ \/ "one" \in Withdrawals /\ \E i \in DOMAIN subscriptions : Unsubscribe(i)
       \/ "owner" \in Withdrawals /\ \E owner \in Owner : UnsubscribeOwner(owner)
       \/ "reads" \in Withdrawals /\ \E keep \in SUBSET Owner : CancelReads(keep)
    /\ UNCHANGED <<transport, posted, worker, sessionVars>>

\* The rest of what a restart, or the loss of the worker, leaves alone.
WorkerGone == UNCHANGED <<listing, frames, owners, ghosts, transport, worker>>

\* Session::restart, closeFile, reload and an approved open: the worker is
\* stopped and `stopped' starts the next one.
Restart ==
    /\ client.epoch + 2 <= MaxEpoch
    /\ client' = Start(Stop(client))
    /\ SetUnavailable
    /\ starting' = TRUE /\ loaded' = FALSE /\ known' = 0
    /\ UNCHANGED posted /\ WorkerGone

\* Session::open without a worker.
OpenStartsWorker ==
    /\ ~available /\ ~starting
    /\ client.epoch + 1 <= MaxEpoch
    /\ client' = Start(client)
    /\ starting' = TRUE
    /\ UNCHANGED <<table, context, session, cache, deferred, posted, loaded, known>> /\ WorkerGone

-----------------------------------------------------------------------------
(* The event loop of the GUI thread.                                       *)

Aside == UNCHANGED <<transport, posted, worker, sessionVars>>

Pumps == Pump /\ Aside
Rejects == (\E t \in deferred : RejectLater(t)) /\ Aside
Announces == (\E t \in deferred : AnalysisCompleted(t)) /\ Aside
TellsRetired == (\E t \in deferred : Standalone(t)) /\ Aside
Delivers == (\E t \in deferred : DeliverBegin(t)) /\ Aside
ResumesReceive == ContextChanged /\ Aside

\* A completed open makes the project Session's; its state starts afresh.
TellsNext ==
    /\ DeliverNext
    /\ LET opened == /\ answers' # answers
                     /\ asked[last'.ask].query.op = "open" /\ last'.code = "ok"
       IN /\ loaded' = (loaded \/ opened)
          /\ known' = IF opened THEN 0 ELSE known
    /\ UNCHANGED <<transport, posted, worker, starting>>

\* Slip: the cache is cleared, but reads in flight may still be joined.
ApplyBackgroundCacheOnly(gen) ==
    IF loaded /\ gen > known
    THEN /\ known' = gen
         /\ cache' = {} /\ UNCHANGED listing
    ELSE UNCHANGED <<known, listing, cache>>

\* Session::applyBackgroundSnapshot, with QueryService::listingChanged.  A
\* generation is the sequence number it was published under.
ApplyBackground(gen) ==
    IF loaded /\ gen > known
    THEN /\ known' = gen
         /\ listing' = listing + 1
         /\ cache' = {}
    ELSE UNCHANGED <<known, listing, cache>>

EndsDelivery ==
    /\ DeliverEnd /\ ApplyBackground(Brought)
    /\ UNCHANGED <<transport, posted, worker, starting, loaded>>

NextPosted(type) ==
    /\ posted # <<>> /\ Head(posted).type = type
    /\ posted' = Tail(posted)

\* Slip: what another process sent counts too.
CurrentAnyProcess(message) == TRUE

\* EngineClient passes on what its own process sent.
Current(message) == message.epoch = client.epoch

Unheard ==
    /\ posted # <<>> /\ ~Current(Head(posted))
    /\ posted' = Tail(posted)
    /\ UNCHANGED <<client, transport, serviceVars, ghosts, worker, sessionVars>>

\* Session::receive of hello.
HearsHello ==
    /\ NextPosted("hello") /\ Current(Head(posted))
    /\ SetAvailable
    /\ starting' = FALSE
    /\ UNCHANGED <<client, loaded, known>> /\ WorkerGone

\* Of fatal, or of another protocol's hello: the client stops the worker.
HearsFatal ==
    /\ NextPosted("fatal") /\ Current(Head(posted))
    /\ client' = Stop(client)
    /\ SetUnavailable
    /\ starting' = FALSE /\ loaded' = FALSE /\ UNCHANGED known
    /\ WorkerGone

HearsStopped ==
    /\ NextPosted("stopped") /\ Current(Head(posted))
    /\ SetUnavailable
    /\ starting' = FALSE /\ loaded' = FALSE /\ UNCHANGED known
    /\ UNCHANGED client /\ WorkerGone

HearsHeartbeat ==
    /\ NextPosted("heartbeat") /\ Current(Head(posted))
    /\ ApplyBackground(IF Head(posted).of = context THEN Head(posted).gen ELSE 0)
    /\ UNCHANGED <<client, table, context, session, deferred, frames, owners, ghosts, transport,
                   worker, starting, loaded>>

HearsReply ==
    /\ NextPosted("response") /\ Current(Head(posted))
    /\ Receive(Head(posted))
    /\ UNCHANGED <<transport, worker, sessionVars>>

-----------------------------------------------------------------------------
(* The transport thread and the worker process.                            *)

Elsewhere == UNCHANGED <<serviceVars, ghosts, sessionVars>>

Starts == TransportStart /\ worker' = FreshWorker /\ Elsewhere
Stops == TransportStop /\ worker' = FreshWorker /\ Elsewhere
Refuses == TransportUnavailable /\ UNCHANGED worker /\ Elsewhere
Fills == "full" \in Events /\ TransportFull /\ UNCHANGED worker /\ Elsewhere
SaysHello == ProcessStarted("hello") /\ UNCHANGED worker /\ Elsewhere
SaysFatal == "fatal" \in Events /\ ProcessStarted("fatal") /\ UNCHANGED worker /\ Elsewhere
Exits == "exit" \in Events /\ ProcessExits /\ worker' = FreshWorker /\ Elsewhere

Reply(w, id, op, code) ==
    [type |-> "response", epoch |-> transport.epoch, id |-> id, op |-> op,
     code |-> code, project |-> w.project, revision |-> w.revision, done |-> w.done,
     gen |-> w.gen, layout |-> w.graph, analyzed |-> w.analyzed]

\* A cancel is acknowledged by the input loop under an id of its own; it
\* recalls the request it names if that one still waits or runs.
WorkerReads ==
    /\ TransportWrite
    /\ LET call == Head(client.calls)
       IN IF call.request.op = "cancel"
          THEN /\ worker' = [worker EXCEPT
                                !.recalled = @ \/ worker.request.id = call.request.target]
               /\ Post(Reply(worker, call.id, "cancel", "ok"))
          ELSE /\ worker' = [worker EXCEPT !.request = Extended(call.request, "id", call.id)]
               /\ UNCHANGED posted
    /\ Elsewhere

\* What the request makes of the worker, and the code of its reply.
Opened(w) == [w EXCEPT !.revision = @ + 1, !.project = w.revision + 1, !.analyzed = FALSE,
                       !.graph = 0, !.done = <<w.request.job>>]
Did(w) == [w EXCEPT !.done = Append(@, w.request.job)]
Edited(w) == [Did(w) EXCEPT !.revision = @ + 1, !.graph = 0]
Analyzed(w) == IF w.analyzed THEN w ELSE [w EXCEPT !.analyzed = TRUE, !.revision = @ + 1, !.graph = 0]
LaidOut(w) == IF w.graph # 0 THEN {w}
              ELSE {[v EXCEPT !.graph = w.revision] : v \in {w, Analyzed(w)}}

Outcomes(w) ==
    LET op == w.request.op
    IN IF w.request.expected # w.revision THEN {<<w, "stale_revision">>}
       ELSE IF op = "open"
       THEN {<<Opened(w), "ok">>}
            \union (IF "error" \in Events THEN {<<w, "failed">>} ELSE {})
            \union (IF "late" \in Events THEN {<<Opened(w), "failed">>} ELSE {})
       ELSE IF w.project = 0 THEN {<<w, "failed">>}
       ELSE (CASE op = "edit" -> {<<Edited(w), "ok">>}
               [] op = "section" -> {<<[Edited(w) EXCEPT !.analyzed = FALSE], "ok">>}
               [] op = "save" -> {<<Did(w), "ok">>}
               [] op = "cfg_summary" -> {<<v, "ok">> : v \in LaidOut(w)}
               [] op = "cfg_viewport" ->
                     {<<w, IF w.graph # 0 /\ w.request.layout = w.graph THEN "ok"
                                                                      ELSE "stale_layout">>}
               [] OTHER -> {<<w, "ok">>, <<Analyzed(w), "ok">>})
            \union (IF "error" \in Events THEN {<<w, "failed">>, <<Analyzed(w), "failed">>} ELSE {})

\* The executor runs the request and replies; one recalled before it began
\* is not run.
WorkerAnswers ==
    /\ worker.request # Idle
    /\ \E outcome \in Outcomes(worker) \union
             (IF worker.recalled THEN {<<worker, "cancelled">>} ELSE {}) :
          /\ outcome[1].revision <= MaxRevision
          /\ worker' = [outcome[1] EXCEPT !.request = Idle, !.recalled = FALSE]
          /\ \E code \in {outcome[2]} \union (Events \intersect {"malformed"}) :
                Post(Reply(outcome[1], worker.request.id, worker.request.op, code))
    /\ UNCHANGED <<client, transport>> /\ Elsewhere

\* Load progress of an open; the bound is one report in the queue.
WorkerProgress ==
    /\ "progress" \in Events
    /\ worker.request # Idle /\ worker.request.op = "open"
    /\ posted = <<>>
    /\ Post(Reply(worker, worker.request.id, "open", "progress"))
    /\ UNCHANGED <<client, transport, worker>> /\ Elsewhere

\* Background discovery, while no request waits; its end forgets the graphs.
WorkerDiscovers ==
    /\ worker.request = Idle /\ worker.project # 0 /\ worker.gen < MaxGen
    /\ \E graph \in {0, worker.graph} :
          worker' = [worker EXCEPT !.gen = @ + 1, !.graph = graph]
    /\ UNCHANGED <<clientVars>> /\ Elsewhere

\* A heartbeat is built before it is written, so replies may overtake it;
\* the bound is one heartbeat on its way.
WorkerBeats ==
    /\ "heartbeat" \in Events
    /\ transport.process = "running" /\ worker.gen > 0
    /\ \A n \in DOMAIN posted : posted[n].type # "heartbeat"
    /\ \E gen \in 1..worker.gen :
          Post([type |-> "heartbeat", epoch |-> transport.epoch,
                of |-> <<worker.project, worker.revision>>, gen |-> gen])
    /\ UNCHANGED <<client, transport, worker>> /\ Elsewhere

-----------------------------------------------------------------------------
Users == Asks \/ Withdraws \/ Restart \/ OpenStartsWorker
EventLoop ==
    \/ Pumps \/ Rejects \/ Announces \/ TellsRetired \/ Delivers \/ ResumesReceive
    \/ TellsNext \/ EndsDelivery
    \/ Unheard \/ HearsHello \/ HearsFatal \/ HearsStopped \/ HearsHeartbeat \/ HearsReply
Transport == Starts \/ Stops \/ Refuses \/ Fills \/ WorkerReads
Process ==
    \/ SaysHello \/ SaysFatal \/ Exits
    \/ WorkerAnswers \/ WorkerProgress \/ WorkerDiscovers \/ WorkerBeats

Next == Users \/ EventLoop \/ Transport \/ Process
Spec == Init /\ [][Next]_vars
OpenedSpec == OpenedInit /\ [][Next]_vars

\* The event loop runs every task and message in turn, callbacks return, the
\* transport handles its calls and the worker answers.  Nobody has to ask,
\* and no process has to start or fail.
Fairness ==
    /\ WF_vars(Pumps) /\ WF_vars(Rejects) /\ WF_vars(Announces) /\ WF_vars(TellsRetired)
    /\ WF_vars(Delivers) /\ WF_vars(ResumesReceive) /\ WF_vars(TellsNext) /\ WF_vars(EndsDelivery)
    /\ WF_vars(Unheard) /\ WF_vars(HearsHello) /\ WF_vars(HearsFatal) /\ WF_vars(HearsStopped)
    /\ WF_vars(HearsHeartbeat) /\ WF_vars(HearsReply)
    /\ WF_vars(Transport) /\ WF_vars(WorkerAnswers)
OpenedLiveSpec == OpenedSpec /\ Fairness

-----------------------------------------------------------------------------
(* Properties.                                                             *)

\* The shape of the tables and of the stack of handlers.
TypeOK ==
    /\ available \in BOOLEAN /\ starting \in BOOLEAN /\ loaded \in BOOLEAN
    /\ DOMAIN jobs \subseteq DOMAIN asked /\ DOMAIN subscriptions \subseteq DOMAIN asked
    /\ \A j \in DOMAIN jobs :
          jobs[j].phase \in {"queued", "reading", "summary", "viewport", "delivering"}
    /\ active \in DOMAIN jobs \union {0}
    /\ \A n \in DOMAIN frames : frames[n].frame \in {"deliver", "context"}
    /\ owners \subseteq Owner

\* Limits and State's counters: what is charged is what the table holds, a
\* job is in the queue or active and in no other place, and no limit is
\* passed whatever is joined, withdrawn, retired or delivered.
TablesAgree ==
    /\ TypeOK
    /\ queuedBytes = Bytes(DOMAIN jobs)
    /\ queuedBytes <= MaxQueuedBytes
    /\ Cardinality(DOMAIN jobs) <= MaxJobs
    /\ Cardinality(DOMAIN subscriptions) <= MaxSubscriptions
    /\ IsInjective(queue)
    /\ \A j \in Range(queue) : j \in DOMAIN jobs /\ jobs[j].phase = "queued"
    /\ DOMAIN jobs = Range(queue) \union ({active} \ {0})
    /\ active # 0 => active \notin Range(queue)

\* An ok answer to a read shows every command accepted before the read was
\* asked for, and none accepted after: through joined flights, cached
\* results, visible reads that overtake, and commands that change the
\* content without a new revision (the fence in State::add, cache.clear in
\* pump, the scan of pump).
ReadsSeeCommands ==
    last.code = "ok" /\ asked[last.ask].query.kind # "command" =>
        /\ \A c \in Range(last.done) : c < last.ask
        /\ \A j \in DOMAIN jobs : Kind(j) = "command" => j > last.ask
        /\ asked[last.ask].process = transport.epoch =>
              \A c \in Range(worker.done) : c < last.ask => c \in Range(last.done)

\* An ok read is at least as new as the listing the GUI had shown when the
\* read was asked for (State::listing, listingChanged).
ReadsSeeListing ==
    last.code = "ok" => last.gen >= asked[last.ask].knows

\* A graph is one snapshot: its viewport has the layout and the revision of
\* its summary, no command ran between the two, and pages of an earlier
\* answer go on only in its layout (graphViewport).
GraphIsOneSnapshot ==
    last.code = "ok" /\ asked[last.ask].query.kind = "graph" =>
        /\ last.summary.layout = last.layout
        /\ asked[last.ask].query.layout \in {0, last.layout}
        /\ last.summary.revision = last.revision
        /\ last.summary.done = last.done

\* Every completion runs at most once, and never for one who withdrew
\* (takeSubscription before each call, standalone's check).
AnsweredOnce ==
    /\ answers = Cardinality(answered)
    /\ answered \intersect left = {}

\* Commands run in the order they were accepted, each at most once, by the
\* process and on the project they were meant for: an open that succeeded
\* retires what waits behind it, and the expected revision stops what it
\* could not retire.
CommandsStayHome ==
    /\ \A m, n \in DOMAIN worker.done : m < n => worker.done[m] < worker.done[n]
    /\ \A c \in Range(worker.done) :
          /\ asked[c].process = transport.epoch
          /\ asked[c].query.op # "open" => asked[c].project = worker.project

\* The service sends only to a process that said hello in the client's own
\* epoch, until it hears that this process is gone (EngineClient's filter).
AvailableIsCurrent ==
    available => /\ transport.epoch = client.epoch
                 /\ \/ transport.process = "running"
                    \/ \E n \in DOMAIN posted : posted[n] = Stopped

\* A worker never holds two requests of the service: a graph's two requests
\* and a cancelled read are over before the next is sent.
OneRequestAtATime ==
    [][worker.request # Idle /\ worker'.request # Idle => worker'.request = worker.request]_vars

\* Everyone who asks is answered, unless they withdraw or are destroyed:
\* no reply, retirement, refusal or restart leaves a subscriber waiting.
EveryAskAnswered ==
    \A i \in 1..MaxAsks :
        i \in DOMAIN asked ~>
            i \in DOMAIN asked /\ (i \in answered \union left \/ asked[i].owner \notin owners)

\* When a reply shows the analysis complete, the views are told so in that
\* session, unless it ends or its sections change first (discoveredAnalysis).
AnalysisAnnounced ==
    \A e \in 1..(MaxEpoch + MaxAsks) :
        epoch = e /\ analysisComplete ~> announced = e \/ epoch # e \/ ~analysisComplete
=============================================================================
