------------------------------- MODULE Worker -------------------------------
(***************************************************************************)
(* The worker process (tools/neverd-worker/main.cpp): an input loop that   *)
(* admits and cancels requests, an executor thread that runs them one at a *)
(* time on the engine and does background work while none waits, and a     *)
(* heartbeat thread.  They share `State' under one mutex; an action below  *)
(* that reads or writes the shared state is one critical section, and a    *)
(* message built in one is written to the pipe in a later step when the    *)
(* code releases the mutex first.                                          *)
(*                                                                         *)
(* The client is any client of the protocol: it sends requests in any      *)
(* order, may reuse an id, cancels anything, and may close or break the    *)
(* pipe at any time.  What it keeps of the replies is what the GUI keeps   *)
(* (QueryService::receive, Session::applyBackgroundSnapshot).              *)
(***************************************************************************)
EXTENDS Naturals, Sequences, FiniteSets, SequencesExt, FiniteSetsExt

CONSTANTS
    Id,                 \* request ids a client uses
    Bytes,              \* sizes of a request body
    MaxQueueRequests,   \* kProtocolMaxQueueRequests, 32 in the code
    MaxQueueBytes,      \* kProtocolMaxQueueBytes, 16 MiB in the code
    IdleSteps,          \* steps of background work after an open or an edit
    MaxSent,            \* bound on the messages a client sends
    MaxSequence,        \* bound on the background publications
    EngineFails,        \* whether the engine may fail to start
    Nothing

ASSUME WorkerAssumption ==
    /\ Bytes \subseteq 1..MaxQueueBytes
    /\ MaxQueueRequests \in Nat \ {0}
    /\ MaxQueueBytes \in Nat \ {0}
    /\ IdleSteps \in Nat \ {0}
    /\ MaxSent \in Nat
    /\ MaxSequence \in Nat
    /\ EngineFails \in BOOLEAN

\* What runs on the executor: open starts a project and its background work,
\* an edit may change the project, a comparison watches its cancellation flag.
Op == {"open", "edit", "compare"}

\* `n' counts the client's messages; it stands for the request object.
Message == [n : 1..MaxSent, id : Id, bytes : Bytes,
            op : Op \union {"hello", "cancel", "shutdown"},
            target : Id,                          \* of a cancel
            expects : Nat \union {Nothing},       \* expected_revision
            project : Nat \union {Nothing}]       \* project_id
NoBackground == [discovered |-> FALSE, left |-> 0]

VARIABLES
    queue, active, cancelled, pending, queuedBytes, stopping, finished,
    revision, background, sequence,     \* State, under the mutex
    engine,     \* the Engine: [revision, project, background], the executor's own
    executor,   \* [at, msg]: where the executor is and the message it holds
    heart,      \* the heartbeat built and not yet written, or Nothing
    reader,     \* [at, msg]: the same for the input loop
    failed,     \* Transport: a write failed, so every later one does
    client,     \* [loaded, revision, project, sequence, background]
    sent,       \* messages the client has sent
    answers,    \* the final replies written for each message, in order
    runs,       \* what the executor ran, in order
    promised    \* running requests whose cancel was acknowledged as pending

shared == <<queue, active, cancelled, pending, queuedBytes, stopping, finished,
            revision, background, sequence>>
ghosts == <<sent, runs, promised>>
vars == <<shared, engine, executor, heart, reader, failed, client, answers, ghosts>>

-----------------------------------------------------------------------------
(* Messages out.                                                           *)

\* Final replies, by the message they answer.
One(n, kind) == [x \in {n} |-> kind]
Both(replies, n, kind) ==
    [x \in DOMAIN replies \union {n} |-> IF x = n THEN kind ELSE replies[x]]

\* transport.send of a final reply to each message of DOMAIN replies.
Answer(replies) ==
    answers' = IF failed THEN answers
               ELSE [n \in DOMAIN answers |->
                        IF n \in DOMAIN replies THEN Append(answers[n], replies[n])
                                                ELSE answers[n]]
NoAnswer == UNCHANGED answers

HeartbeatMessage ==
    [revision |-> revision, sequence |-> sequence, background |-> background]

\* Session::applyBackgroundSnapshot.
ApplyBackground(c, msg) ==
    IF c.loaded /\ msg.revision = c.revision /\ msg.sequence > c.sequence
    THEN [c EXCEPT !.sequence = msg.sequence, !.background = msg.background] ELSE c

\* QueryService::receive: an executor's reply brings the revision and the
\* project, and a snapshot applied last; an opened project starts afresh.
ApplyReply(c, msg) ==
    LET known == [c EXCEPT !.revision = msg.revision, !.project = msg.project]
    IN IF msg.opened
       THEN ApplyBackground([known EXCEPT !.loaded = TRUE, !.sequence = 0,
                                          !.background = NoBackground], msg)
       ELSE IF msg.project # c.project THEN c
       ELSE ApplyBackground(known, msg)

Deliver(c) == client' = IF failed THEN client ELSE c

-----------------------------------------------------------------------------
(* The executor thread.                                                    *)

At(place) == executor.at = place
Go(place) == executor' = [at |-> place, msg |-> Nothing]
Hold(place, msg) == executor' = [at |-> place, msg |-> msg]

\* The engine is built; a failure goes to the fatal handler.
StartEngine ==
    /\ At("start")
    /\ Go("wait") \/ (EngineFails /\ Go("fatal"))
    /\ UNCHANGED <<shared, engine, heart, reader, failed, client, answers, ghosts>>

\* Background work runs while no request waits, outside the mutex.
IdleBegin ==
    /\ At("wait") /\ ~stopping /\ queue = <<>> /\ engine.background.left > 0
    /\ sequence < MaxSequence
    /\ Hold("idle", background.discovered)
    /\ UNCHANGED <<shared, engine, heart, reader, failed, client, answers, ghosts>>

PublishBackground(bg) == background' = bg /\ sequence' = sequence + 1

\* Slip: idle work is published under the sequence number in use.
IdleEndUnsequenced ==
    /\ At("idle")
    /\ \E done \in BOOLEAN :
          LET bg == IF done THEN [discovered |-> TRUE, left |-> engine.background.left - 1]
                            ELSE engine.background
          IN engine' = [engine EXCEPT !.background = bg] /\ background' = bg
    /\ Go("wait")
    /\ UNCHANGED <<queue, active, cancelled, pending, queuedBytes, stopping, finished,
                   revision, sequence, heart, reader, failed, client, answers, ghosts>>

\* A step advances, polls or fails; its state is published, and the end of
\* discovery is announced at once.
IdleEnd ==
    /\ At("idle")
    /\ \E done \in BOOLEAN :
          LET bg == IF done THEN [discovered |-> TRUE, left |-> engine.background.left - 1]
                            ELSE engine.background
          IN /\ engine' = [engine EXCEPT !.background = bg]
             /\ PublishBackground(bg)
             /\ IF ~executor.msg /\ bg.discovered
                THEN Hold("announce", [revision |-> revision, sequence |-> sequence',
                                       background |-> bg])
                ELSE Go("wait")
    /\ UNCHANGED <<queue, active, cancelled, pending, queuedBytes, stopping, finished,
                   revision, heart, reader, failed, client, answers, ghosts>>

Announce ==
    /\ At("announce")
    /\ Deliver(ApplyBackground(client, executor.msg))
    /\ IF failed THEN Go("fatal") ELSE Go("wait")
    /\ UNCHANGED <<shared, engine, heart, reader, failed, answers, ghosts>>

\* Slip: a request waits for the background work to end.
TakeWhenQuiet ==
    /\ At("wait") /\ queue # <<>> /\ engine.background.left = 0
    /\ active' = Head(queue)
    /\ queue' = Tail(queue)
    /\ queuedBytes' = queuedBytes - Head(queue).bytes
    /\ cancelled' = FALSE
    /\ Go("run")
    /\ UNCHANGED <<pending, stopping, finished, revision, background, sequence,
                   engine, heart, reader, failed, client, answers, ghosts>>

Take ==
    /\ At("wait") /\ queue # <<>>
    /\ active' = Head(queue)
    /\ queue' = Tail(queue)
    /\ queuedBytes' = queuedBytes - Head(queue).bytes
    /\ cancelled' = FALSE
    /\ Go("run")
    /\ UNCHANGED <<pending, stopping, finished, revision, background, sequence,
                   engine, heart, reader, failed, client, answers, ghosts>>

\* Slip: only the project is compared.
StaleProject(request) == request.project # Nothing /\ request.project # engine.project

Stale(request) ==
    \/ request.expects # Nothing /\ request.expects # engine.revision
    \/ request.project # Nothing /\ request.project # engine.project

\* What a request may leave behind: a failed edit may have changed the
\* project (reload_failed), a stopped comparison has not.
Outcomes(request) ==
    CASE request.op = "open" -> {[kind |-> "ok", changed |-> TRUE],
                                 [kind |-> "error", changed |-> FALSE]}
      [] request.op = "edit" ->
            IF engine.project = 0 THEN {[kind |-> "error", changed |-> FALSE]}
            ELSE [kind : {"ok", "error"}, changed : BOOLEAN]
      [] request.op = "compare" ->
            {[kind |-> "ok", changed |-> FALSE]} \union
            (IF cancelled THEN {[kind |-> "stopped", changed |-> FALSE]} ELSE {})

After(request, outcome) ==
    IF ~outcome.changed THEN engine
    ELSE [revision |-> engine.revision + 1,
          project |-> IF request.op = "open" THEN engine.revision + 1 ELSE engine.project,
          background |-> [discovered |-> request.op # "open" /\ engine.background.discovered,
                          left |-> IdleSteps]]

Reply(request, e, kind) ==
    [n |-> request.n, id |-> request.id, kind |-> kind, revision |-> e.revision,
     project |-> e.project, opened |-> request.op = "open" /\ kind = "ok"]

\* The engine runs the request, or refuses it, outside the mutex.
Run ==
    /\ At("run")
    /\ \/ /\ Stale(active)
          /\ Hold("publish", Reply(active, engine, "error"))
          /\ UNCHANGED <<engine, runs>>
       \/ /\ ~Stale(active)
          /\ \E outcome \in Outcomes(active) :
                /\ engine' = After(active, outcome)
                /\ Hold("publish", Reply(active, engine', outcome.kind))
                /\ runs' = Append(runs, [n |-> active.n, expects |-> active.expects,
                                         changed |-> outcome.changed])
    /\ UNCHANGED <<shared, heart, reader, failed, client, answers, sent, promised>>

\* The reply of a request that ended, with the state published beside it.
Final(reply, kind) ==
    [n |-> reply.n, kind |-> kind, revision |-> reply.revision, project |-> reply.project,
     opened |-> reply.opened, sequence |-> sequence + 1, background |-> engine.background]

\* Slip: a cancel that arrives while the request runs is not reported.
PublishWithoutFlag ==
    /\ At("publish")
    /\ revision' = engine.revision
    /\ PublishBackground(engine.background)
    /\ Hold("send", Final(executor.msg, executor.msg.kind))
    /\ pending' = pending \ {executor.msg.id}
    /\ active' = Nothing
    /\ UNCHANGED <<queue, cancelled, queuedBytes, stopping, finished, engine, heart,
                   reader, failed, client, answers, ghosts>>

\* The cancelled flag, the published state, the end of the request: one
\* critical section.
Publish ==
    /\ At("publish")
    /\ revision' = engine.revision
    /\ PublishBackground(engine.background)
    /\ Hold("send", Final(executor.msg, IF cancelled /\ executor.msg.kind # "stopped"
                                        THEN "completed" ELSE executor.msg.kind))
    /\ pending' = pending \ {executor.msg.id}
    /\ active' = Nothing
    /\ UNCHANGED <<queue, cancelled, queuedBytes, stopping, finished, engine, heart,
                   reader, failed, client, answers, ghosts>>

SendResult ==
    /\ At("send")
    /\ Answer(One(executor.msg.n, executor.msg.kind))
    /\ Deliver(ApplyReply(client, executor.msg))
    /\ IF failed THEN Go("leave") ELSE Go("wait")
    /\ UNCHANGED <<shared, engine, heart, reader, failed, ghosts>>

\* Slip: a stopping worker finishes its background work first, which it no
\* longer runs.
StopWhenQuiet ==
    /\ At("wait") /\ stopping /\ queue = <<>> /\ engine.background.left = 0
    /\ Go("leave")
    /\ UNCHANGED <<shared, engine, heart, reader, failed, client, answers, ghosts>>

StopWaiting ==
    /\ At("wait") /\ stopping /\ queue = <<>>
    /\ Go("leave")
    /\ UNCHANGED <<shared, engine, heart, reader, failed, client, answers, ghosts>>

SendFatal ==
    /\ At("fatal")
    /\ Go("leave")
    /\ UNCHANGED <<shared, engine, heart, reader, failed, client, answers, ghosts>>

Leave ==
    /\ At("leave")
    /\ finished' = TRUE
    /\ Go("done")
    /\ UNCHANGED <<queue, active, cancelled, pending, queuedBytes, stopping, revision,
                   background, sequence, engine, heart, reader, failed, client,
                   answers, ghosts>>

Executor ==
    \/ StartEngine \/ IdleBegin \/ IdleEnd \/ Announce \/ Take \/ Run
    \/ Publish \/ SendResult \/ StopWaiting \/ SendFatal \/ Leave

-----------------------------------------------------------------------------
(* The heartbeat thread.                                                   *)

Beat ==
    /\ heart = Nothing /\ ~finished
    /\ heart' = HeartbeatMessage
    /\ UNCHANGED <<shared, engine, executor, reader, failed, client, answers, ghosts>>

SendBeat ==
    /\ heart # Nothing
    /\ heart' = Nothing
    /\ Deliver(ApplyBackground(client, heart))
    /\ UNCHANGED <<shared, engine, executor, reader, failed, answers, ghosts>>

-----------------------------------------------------------------------------
(* The input loop.                                                         *)

Reading == reader.at = "read"
ReaderAt(place, msg) == reader' = [at |-> place, msg |-> msg]

\* What the client may send next: requests name nothing, or the revision or
\* the project it knows.
Incoming ==
    {m \in [n : {sent + 1}, id : Id, bytes : Bytes,
            op : Op \union {"hello", "cancel", "shutdown"}, target : Id,
            expects : {Nothing, client.revision}, project : {Nothing, client.project}] :
        /\ m.op # "cancel" => m.target = m.id
        /\ m.op \notin Op => m.expects = Nothing /\ m.project = Nothing /\
                             \A b \in Bytes : m.bytes <= b
        /\ m.expects = Nothing \/ m.project = Nothing}

Refusal(m) ==
    IF finished THEN "engine_unavailable"
    ELSE IF m.id \in pending THEN "duplicate_request"
    ELSE IF m.op \in Op /\ (\/ Len(queue) >= MaxQueueRequests
                            \/ m.bytes > MaxQueueBytes - queuedBytes)
         THEN "queue_full" ELSE "none"

\* The refusal is thrown out of the critical section; its reply reads the
\* revision in another and is written after that.
Refuse(m) ==
    /\ Refusal(m) # "none"
    /\ ReaderAt("refuse", [n |-> m.n, op |-> m.op, code |-> Refusal(m)])
    /\ NoAnswer
    /\ UNCHANGED <<shared, promised>>

Hello(m) ==
    /\ m.op = "hello" /\ Refusal(m) = "none"
    /\ ReaderAt("reply", [n |-> m.n, op |-> m.op, code |-> "ok"])
    /\ NoAnswer
    /\ UNCHANGED <<shared, promised>>

Enqueue(m) ==
    /\ m.op \in Op /\ Refusal(m) = "none"
    /\ queue' = Append(queue, m)
    /\ pending' = pending \union {m.id}
    /\ queuedBytes' = queuedBytes + m.bytes
    /\ NoAnswer
    /\ UNCHANGED <<active, cancelled, stopping, finished, revision, background,
                   sequence, reader, promised>>

Running(id) == active # Nothing /\ active.id = id

\* Cancel the running request: it is told, and its reply will say so.
CancelActive(m) ==
    /\ m.op = "cancel" /\ Refusal(m) = "none"
    /\ Running(m.target)
    /\ cancelled' = TRUE
    /\ promised' = promised \union {active.n}
    /\ Answer(One(m.n, "ok"))
    /\ UNCHANGED <<queue, active, pending, queuedBytes, stopping, finished, revision,
                   background, sequence, reader>>

Waiting(id) == {i \in DOMAIN queue : queue[i].id = id}

\* Slip: the id of a cancelled request stays pending.
CancelKeepsPending(m) ==
    /\ m.op = "cancel" /\ Refusal(m) = "none"
    /\ ~Running(m.target)
    /\ Waiting(m.target) # {}
    /\ LET i == Min(Waiting(m.target))
       IN /\ Answer(Both(One(queue[i].n, "cancelled"), m.n, "ok"))
          /\ queuedBytes' = queuedBytes - queue[i].bytes
          /\ queue' = RemoveAt(queue, i)
    /\ UNCHANGED <<pending, active, cancelled, stopping, finished, revision, background,
                   sequence, reader, promised>>

\* Cancel a waiting request: it is answered and never runs.
CancelQueued(m) ==
    /\ m.op = "cancel" /\ Refusal(m) = "none"
    /\ ~Running(m.target)
    /\ Waiting(m.target) # {}
    /\ LET i == Min(Waiting(m.target))
       IN /\ Answer(Both(One(queue[i].n, "cancelled"), m.n, "ok"))
          /\ queuedBytes' = queuedBytes - queue[i].bytes
          /\ queue' = RemoveAt(queue, i)
    /\ pending' = pending \ {m.target}
    /\ UNCHANGED <<active, cancelled, stopping, finished, revision, background,
                   sequence, reader, promised>>

CancelMissing(m) ==
    /\ m.op = "cancel" /\ Refusal(m) = "none"
    /\ ~Running(m.target)
    /\ Waiting(m.target) = {}
    /\ Answer(One(m.n, "ok"))
    /\ UNCHANGED <<shared, reader, promised>>

\* cancelQueued(): every waiting request is answered.
Drained == [n \in {queue[i].n : i \in DOMAIN queue} |-> "cancelled"]
DropQueue ==
    /\ stopping' = TRUE
    /\ queue' = <<>>
    /\ queuedBytes' = 0
    /\ pending' = pending \ {queue[i].id : i \in DOMAIN queue}
    /\ UNCHANGED <<active, cancelled, finished, revision, background, sequence>>

Shutdown(m) ==
    /\ m.op = "shutdown" /\ Refusal(m) = "none"
    /\ DropQueue
    /\ Answer(Both(Drained, m.n, "ok"))
    /\ ReaderAt("drain", Nothing)
    /\ UNCHANGED promised

Receive(m) ==
    /\ Reading
    /\ sent' = sent + 1
    /\ \/ Refuse(m) \/ Hello(m) \/ Enqueue(m)
       \/ CancelActive(m) \/ CancelQueued(m) \/ CancelMissing(m) \/ Shutdown(m)
    /\ UNCHANGED <<engine, executor, heart, failed, client, runs>>

BuildRefusal ==
    /\ reader.at = "refuse"
    /\ ReaderAt("reply", reader.msg)
    /\ UNCHANGED <<shared, engine, executor, heart, failed, client, answers, ghosts>>

SendReply ==
    /\ reader.at = "reply"
    /\ Answer(One(reader.msg.n, IF reader.msg.code = "ok" THEN "ok" ELSE "refused"))
    /\ ReaderAt("read", Nothing)
    /\ UNCHANGED <<shared, engine, executor, heart, failed, client, ghosts>>

\* The pipe ends, or a frame is malformed: no more input.
Eof ==
    /\ Reading
    /\ ReaderAt("drain", Nothing)
    /\ UNCHANGED <<shared, engine, executor, heart, failed, client, answers, ghosts>>

\* Slip: requests still waiting at the end of input are dropped unanswered.
DrainSilently ==
    /\ reader.at = "drain"
    /\ DropQueue
    /\ NoAnswer
    /\ ReaderAt("join", Nothing)
    /\ UNCHANGED <<engine, executor, heart, failed, client, ghosts>>

Drain ==
    /\ reader.at = "drain"
    /\ DropQueue
    /\ Answer(Drained)
    /\ ReaderAt("join", Nothing)
    /\ UNCHANGED <<engine, executor, heart, failed, client, ghosts>>

Exit ==
    /\ reader.at = "join" /\ At("done") /\ heart = Nothing
    /\ ReaderAt("exit", Nothing)
    /\ UNCHANGED <<shared, engine, executor, heart, failed, client, answers, ghosts>>

Reader == BuildRefusal \/ SendReply \/ Drain \/ Exit

\* The client stops reading: writes fail from now on.
PipeBreaks ==
    /\ ~failed
    /\ failed' = TRUE
    /\ UNCHANGED <<shared, engine, executor, heart, reader, client, answers, ghosts>>

Exited == reader.at = "exit" /\ UNCHANGED vars

-----------------------------------------------------------------------------
Init ==
    /\ queue = <<>> /\ active = Nothing /\ cancelled = FALSE /\ pending = {}
    /\ queuedBytes = 0 /\ stopping = FALSE /\ finished = FALSE
    /\ revision = 0 /\ background = NoBackground /\ sequence = 0
    /\ engine = [revision |-> 0, project |-> 0, background |-> NoBackground]
    /\ executor = [at |-> "start", msg |-> Nothing]
    /\ heart = Nothing
    /\ reader = [at |-> "read", msg |-> Nothing]
    /\ failed = FALSE
    /\ client = [loaded |-> FALSE, revision |-> 0, project |-> 0, sequence |-> 0,
                 background |-> NoBackground]
    /\ sent = 0 /\ answers = [n \in 1..MaxSent |-> <<>>] /\ runs = <<>> /\ promised = {}

Client == (sent < MaxSent /\ \E m \in Incoming : Receive(m)) \/ Eof \/ PipeBreaks
Heartbeat == Beat \/ SendBeat
Next == Client \/ Executor \/ Heartbeat \/ Reader \/ Exited

Spec == Init /\ [][Next]_vars

\* Engine calls return, the threads are scheduled, and the heartbeat's timer
\* fires; the client owes nothing.
FairSpec == Spec /\ WF_vars(Executor) /\ WF_vars(Reader) /\ WF_vars(Beat) /\ WF_vars(SendBeat)

-----------------------------------------------------------------------------
(* Correctness.                                                            *)

Requests == [n : 1..MaxSent, id : Id, bytes : Bytes, op : Op, target : Id,
             expects : Nat \union {Nothing}, project : Nat \union {Nothing}]

Background == [discovered : BOOLEAN, left : Nat]
Snapshot == [revision : Nat, sequence : Nat, background : Background]

\* An absent value is none of the values it stands in for.
ASSUME NothingAssumption ==
    Nothing \notin Nat /\ Nothing \notin Requests /\ Nothing \notin Snapshot

\* Every variable of the shared state has its type.
TypeOK ==
    /\ queue \in Seq(Requests) /\ active \in Requests \union {Nothing}
    /\ pending \subseteq Id /\ queuedBytes \in Nat
    /\ cancelled \in BOOLEAN /\ stopping \in BOOLEAN /\ finished \in BOOLEAN
    /\ revision \in Nat /\ sequence \in Nat /\ sent \in 0..MaxSent
    /\ promised \subseteq 1..MaxSent /\ failed \in BOOLEAN

QueueBytes(q) == FoldSeq(LAMBDA r, total : r.bytes + total, 0, q)
InFlight == ToSet(queue) \union ({active} \ {Nothing})

\* The admission bookkeeping is exact: the pending ids are the ids waiting or
\* running, no two of those share one, and the byte count is the queue's, so
\* MaxQueueBytes - queuedBytes never wraps (enqueue, cancel, cancelQueued, the
\* executor's take and publish, which run in three threads).
AdmissionExact ==
    /\ TypeOK
    /\ pending = {r.id : r \in InFlight}
    /\ \A r, q \in InFlight : r.id = q.id => r = q
    /\ queuedBytes = QueueBytes(queue)
    /\ Len(queue) <= MaxQueueRequests /\ queuedBytes <= MaxQueueBytes

Outstanding(n) ==
    \/ \E r \in InFlight : r.n = n
    \/ At("send") /\ executor.msg.n = n
    \/ reader.at \in {"refuse", "reply"} /\ reader.msg.n = n

\* Every message gets exactly one final reply: none while the worker still
\* owes it one, and then never a second, whichever of the three threads
\* answers, cancels or drops it.
OneAnswer ==
    \A n \in 1..sent :
        /\ Len(answers[n]) <= 1
        /\ answers[n] # <<>> => ~Outstanding(n)
        /\ ~failed /\ ~Outstanding(n) => answers[n] # <<>>

Ran == {runs[i].n : i \in DOMAIN runs}

\* Cancellation is truthful: a request answered "cancelled" never ran and never
\* will, and a running request whose cancel was acknowledged reports it in its
\* reply (the flag is set and read under the mutex that retires the request).
TruthfulCancellation ==
    /\ \A n \in 1..sent : answers[n] = <<"cancelled">> => n \notin Ran
    /\ \A n \in promised : answers[n] # <<>> =>
           answers[n][1] \in {"stopped", "completed"}

\* Requests run in the order they arrived, and an edit that names the revision
\* it saw is never applied over another change (expected_revision).
NoLostUpdate ==
    /\ \A i, j \in DOMAIN runs : i < j => runs[i].n < runs[j].n
    /\ \A i \in DOMAIN runs : runs[i].expects # Nothing =>
           runs[i].expects = Cardinality({j \in 1..(i - 1) : runs[j].changed})

\* A sequence number names one background state: a client that holds the
\* newest number shows the newest state, although heartbeats are written after
\* newer replies, and it never shows a revision that is not published.
SequenceNamesState ==
    /\ client.revision <= revision
    /\ (client.loaded /\ client.sequence = sequence) => client.background = background

\* Every message is answered, unless the pipe or the engine is gone.
EveryMessageAnswered ==
    \A n \in 1..MaxSent :
        (sent >= n) ~> (answers[n] # <<>> \/ failed \/ (finished /\ ~stopping))

\* Once the worker is told to stop, by shutdown or end of input, its three
\* threads end and the process exits: none waits for another for ever.
StopEnds == (stopping \/ reader.at = "drain") ~> (reader.at = "exit")

\* A client that stays connected sees the newest background state again and
\* again (the periodic heartbeat makes up for every reply it missed).
ClientLearnsBackground ==
    []<>(client.loaded => client.background = background \/ failed \/ finished)

=============================================================================
