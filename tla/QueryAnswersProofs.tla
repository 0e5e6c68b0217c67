------------------------- MODULE QueryAnswersProofs -------------------------
(***************************************************************************)
(* Proofs about QuerySession: a graph is one snapshot of the worker, and   *)
(* commands run in order, by the process and on the project they are for.  *)
(*                                                                         *)
(* For graphs the invariant has three more groups on top of Flights:       *)
(* GraphTables, for what the jobs and the deliveries hold, Replies, for    *)
(* what the reply to the active job shows, and Notices, for what was told  *)
(* last.  For commands it has one, Homes: what the worker ran, what is on  *)
(* its way to it, and what the service knows of its revisions.             *)
(***************************************************************************)
EXTENDS QueryRequestsProofs
-----------------------------------------------------------------------------
(* A graph is one snapshot.                                                *)

\* What a graph's askers may be told.
Whole(result, query) ==
    /\ result.summary.layout = result.layout
    /\ query.layout \in {0, result.layout}
    /\ result.summary.revision = result.revision
    /\ result.summary.done = result.done
ResultFields == {"code", "project", "revision", "done", "gen", "layout", "summary"}
IsResult(r) == r = [f \in ResultFields |-> r[f]]
Shown(r, query) == IsResult(r) /\ (r.code = "ok" => Whole(r, query))
SameGraph(query, other) == query.kind = other.kind /\ query.layout = other.layout

\* Who waits for a job asked for the same, with the asks A; a graph is never
\* cached, and a viewport is of the layout that was asked for.
GraphJob(job, A) ==
    /\ SameGraph(job.key.query, job.query)
    /\ job.query.cached => job.query.kind = "read"
    /\ \A i \in job.subscribers : i \in DOMAIN A /\ SameGraph(A[i].query, job.query)
    /\ job.cancelRequested => job.subscribers = {}
    /\ job.phase = "viewport" => job.query.kind = "graph" /\ job.query.layout \in {0, job.summary.layout}
    /\ job.phase = "reading" => job.query.kind # "graph"
    /\ job.phase = "delivering" /\ job.query.kind = "graph" /\ job.subscribers # {} =>
          Shown(job.result, job.query)
GraphFrame(fr, A) ==
    /\ \A i \in fr.ids : i \in DOMAIN A /\ SameGraph(A[i].query, fr.work.query)
    /\ fr.work.query.kind = "graph" /\ fr.ids # {} => Shown(fr.work.result, fr.work.query)
GraphTables ==
    /\ \A j \in DOMAIN jobs : GraphJob(jobs[j], asked)
    /\ \A n \in DOMAIN frames : frames[n].frame = "deliver" => GraphFrame(frames[n], asked)

\* An ok reply to the active job's request shows the content the worker still
\* has, and a viewport's shows the content of its summary.
Views == Wire # 0 /\ jobs[active].phase = "viewport"
Shows(done) ==
    /\ transport.process = "running" => done = worker.done
    /\ Views => done = jobs[active].summary.done
Replies ==
    /\ \A n \in DOMAIN posted : Final(n) /\ posted[n].code = "ok" => Shows(posted[n].done)
    /\ \A n \in DOMAIN frames : Context(n) /\ frames[n].reply.code = "ok" => Shows(frames[n].reply.done)
    /\ Views => /\ WireOp = "cfg_viewport"
                /\ transport.process = "running" => jobs[active].summary.done = worker.done

\* The last answer, and the refusals on their way.
Notices ==
    /\ \A t \in deferred : t.task \in {"reject", "standalone"} => t.code # "ok"
    /\ last.code = "ok" => last.ask \in DOMAIN asked
    /\ GraphIsOneSnapshot

Snapshots == Flights /\ GraphTables /\ Replies /\ Notices

\* Jobs with the same askers.
Serves(a, b) ==
    /\ a.key = b.key /\ a.query = b.query /\ a.subscribers = b.subscribers
    /\ a.cancelRequested = b.cancelRequested

\* Jobs that differ in other fields.
LEMMA LikeServes ==
    ASSUME NEW a, NEW b, NEW F, Like(a, b, F),
           F \intersect {"key", "query", "subscribers", "cancelRequested"} = {}
    PROVE  Serves(a, b)
  BY DEF Like, Serves, JobFields

\* A job with the same askers is in order if what it holds is.
LEMMA ServesGraph ==
    ASSUME NEW A, NEW b, GraphJob(b, A), NEW a, Serves(a, b),
           a.phase = "viewport" => a.query.kind = "graph" /\ a.query.layout \in {0, a.summary.layout},
           a.phase = "reading" => a.query.kind # "graph",
           a.phase = "delivering" /\ a.query.kind = "graph" /\ a.subscribers # {} => Shown(a.result, a.query)
    PROVE  GraphJob(a, A)
  BY DEF GraphJob, Serves

\* One that holds the same is.
LEMMA LikeGraph ==
    ASSUME NEW A, NEW b, GraphJob(b, A), NEW a, NEW F, Like(a, b, F),
           F \intersect {"key", "query", "subscribers", "cancelRequested", "phase", "summary", "result"} = {}
    PROVE  GraphJob(a, A)
<1>1. Serves(a, b)
  BY LikeServes
<1>2. a.phase = b.phase /\ a.summary = b.summary /\ a.result = b.result
  BY DEF Like, JobFields
<1> QED BY <1>1, <1>2 DEF GraphJob, Serves

\* More asks leave it in order.
LEMMA MoreAsks ==
    ASSUME NEW A, NEW B, \A i \in DOMAIN A : i \in DOMAIN B /\ B[i] = A[i]
    PROVE  /\ \A job : GraphJob(job, A) => GraphJob(job, B)
           /\ \A fr : GraphFrame(fr, A) => GraphFrame(fr, B)
  BY DEF GraphJob, GraphFrame

\* Jobs and frames that are as they were, or in order anew.
LEMMA GraphTablesFrom ==
    ASSUME GraphTables, \A i \in DOMAIN asked : i \in DOMAIN asked' /\ asked'[i] = asked[i],
           \A j \in DOMAIN jobs' : (j \in DOMAIN jobs /\ jobs'[j] = jobs[j]) \/ GraphJob(jobs'[j], asked'),
           \A n \in DOMAIN frames' : frames'[n].frame = "deliver" =>
              (n \in DOMAIN frames /\ frames'[n] = frames[n]) \/ GraphFrame(frames'[n], asked')
    PROVE  GraphTables'
<1> DEFINE B == asked'
<1>1. /\ \A job : GraphJob(job, asked) => GraphJob(job, B)
      /\ \A fr : GraphFrame(fr, asked) => GraphFrame(fr, B)
  <2>1. \A i \in DOMAIN asked : i \in DOMAIN B /\ B[i] = asked[i]
    OBVIOUS
  <2> HIDE DEF B
  <2> QED BY <2>1, MoreAsks
<1> QED BY <1>1 DEF GraphTables

\* An error is no graph.
LEMMA ErrorShown ==
    ASSUME NEW code
    PROVE  /\ IsResult(Error(code)) /\ Error(code).code = code
           /\ code # "ok" => \A query : Shown(Error(code), query)
<1>1. IsResult(Error(code)) /\ Error(code).code = code
  BY DEF IsResult, ResultFields, Error, Nothing
<1> QED BY <1>1 DEF Shown

\* Asking: who joins a job asks for the same, by its key.
LEMMA AskGraph == ASSUME Flights, GraphTables, Asks PROVE GraphTables'
<1>1. Tables /\ JobTable(jobs) /\ IsSeq(asked)
  BY DEF Flights, Tables, Places, Stack
<1>2. PICK query \in Query, owner \in Owner :
          /\ AskRest(query, owner)
          /\ \/ AskRefused(Len(asked) + 1, query, owner)
             \/ \E j \in DOMAIN jobs : AskJoins(Len(asked) + 1, query, owner, j)
             \/ AskMakes(Len(asked) + 1, query, owner)
  BY AskCases
<1> DEFINE ask == Len(asked) + 1
<1>3. /\ \A i \in DOMAIN asked : i \in DOMAIN asked' /\ asked'[i] = asked[i]
      /\ ask \in DOMAIN asked' /\ asked'[ask].query = query /\ ask \notin DOMAIN asked
      /\ query \in Queries /\ (query.cached => query.kind = "read")
  <2>1. /\ DOMAIN asked' = DOMAIN asked \union {ask} /\ asked'[ask] = Asked(query, owner)
        /\ ask \notin DOMAIN asked /\ \A n \in DOMAIN asked : asked'[n] = asked[n]
    BY <1>1, <1>2, AskNumber
  <2>2. query \in Queries /\ (query.cached => query.kind = "read")
    BY QueryType, QueryAssumption
  <2>3. Asked(query, owner).query = query
    BY DEF Asked
  <2> QED BY <2>1, <2>2, <2>3
<1>4. UNCHANGED frames
  BY <1>2 DEF AskRest
<1>5. \/ AskRefused(ask, query, owner)
      \/ \E j \in DOMAIN jobs : AskJoins(ask, query, owner, j)
      \/ AskMakes(ask, query, owner)
  BY <1>2
<1> HIDE DEF ask
<1>6. SameGraph(CoalescingKey(query).query, query)
  BY <1>3 DEF CoalescingKey, SameGraph, Queries
<1>7. CASE AskRefused(ask, query, owner)
  <2>1. jobs' = jobs
    BY <1>7 DEF AskRefused
  <2> QED BY <1>3, <1>4, <2>1, GraphTablesFrom
<1>8. ASSUME NEW j \in DOMAIN jobs, AskJoins(ask, query, owner, j) PROVE GraphTables'
  <2> DEFINE K == jobs'
  <2>1. /\ K = Joined(jobs, j, ask, query.visible) /\ query.visible \in BOOLEAN
        /\ jobs[j].key = CoalescingKey(query) /\ ~jobs[j].cancelRequested /\ jobs[j].phase # "delivering"
    BY <1>3, <1>8 DEF AskJoins, Joined, Queries, Shared
  <2> HIDE DEF K
  <2>2. /\ K = [jobs EXCEPT ![j] = K[j]] /\ Like(K[j], jobs[j], {"subscribers", "query"})
        /\ IsJob(K[j]) /\ K[j].bytes = jobs[j].bytes
        /\ K[j].subscribers = jobs[j].subscribers \union {ask}
        /\ \E v \in BOOLEAN : K[j].query = [jobs[j].query EXCEPT !.visible = v]
    BY <1>1, <2>1, JoinedLike
  <2> DEFINE a == K[j]
             b == jobs[j]
  <2>3. a.key = b.key /\ a.phase = b.phase /\ a.summary = b.summary /\ a.cancelRequested = b.cancelRequested
    BY <2>2 DEF Like, JobFields
  <2>4. a.query.kind = b.query.kind /\ a.query.layout = b.query.layout /\ a.query.cached = b.query.cached
    <3>1. b.query \in Queries
      BY <1>1 DEF JobTable, IsJob
    <3> HIDE DEF b, a
    <3>2. PICK v \in BOOLEAN : a.query = [b.query EXCEPT !.visible = v]
      BY <2>2 DEF a, b
    <3> QED BY <3>1, <3>2 DEF Queries
  <2>5. GraphJob(b, asked)
    BY DEF GraphTables
  <2>6. /\ b.key = CoalescingKey(query) /\ ~b.cancelRequested /\ b.phase # "delivering"
        /\ a.subscribers = b.subscribers \union {ask}
    BY <2>1, <2>2
  <2>7. K = [jobs EXCEPT ![j] = a] /\ IsJob(a) /\ a.bytes = jobs[j].bytes
    BY <2>2
  <2> HIDE DEF a, b
  <2>8. SameGraph(query, a.query) /\ SameGraph(a.key.query, a.query)
    BY <1>6, <2>3, <2>4, <2>5, <2>6 DEF GraphJob, SameGraph
  <2>9. GraphJob(a, asked')
    <3>1. \A i \in a.subscribers : i \in DOMAIN asked' /\ SameGraph(asked'[i].query, a.query)
      BY <1>3, <2>4, <2>5, <2>6, <2>8 DEF GraphJob, SameGraph
    <3>2. (a.query.cached => a.query.kind = "read") /\ ~a.cancelRequested /\ a.phase # "delivering"
      BY <2>3, <2>4, <2>5, <2>6 DEF GraphJob
    <3>3. /\ a.phase = "viewport" => a.query.kind = "graph" /\ a.query.layout \in {0, a.summary.layout}
          /\ a.phase = "reading" => a.query.kind # "graph"
      BY <2>3, <2>4, <2>5 DEF GraphJob
    <3> QED BY <2>8, <3>1, <3>2, <3>3 DEF GraphJob
  <2>10. DOMAIN K = DOMAIN jobs /\ K[j] = a /\ \A i \in DOMAIN jobs : i # j => K[i] = jobs[i]
    BY <1>1, <2>7, ReplaceOK
  <2>11. \A i \in DOMAIN jobs' : (i \in DOMAIN jobs /\ jobs'[i] = jobs[i]) \/ GraphJob(jobs'[i], asked')
    BY <2>9, <2>10 DEF K
  <2> QED BY <1>3, <1>4, <2>11, GraphTablesFrom
<1>9. CASE AskMakes(ask, query, owner)
  <2> DEFINE r == NewJob(query, ask)
  <2>1. /\ r.phase = "queued" /\ r.query = query /\ r.subscribers = {ask} /\ ~r.cancelRequested
        /\ r.key = CoalescingKey(query)
    BY <1>3, NewJobOK
  <2>2. jobs' = Extended(jobs, ask, r)
    BY <1>9 DEF AskMakes
  <2> HIDE DEF r
  <2>3. Extends(jobs', jobs, ask, r)
    BY <2>2, ExtendedOK
  <2>4. GraphJob(r, asked')
    BY <1>3, <1>6, <2>1 DEF GraphJob, SameGraph
  <2>5. \A i \in DOMAIN jobs' : (i \in DOMAIN jobs /\ jobs'[i] = jobs[i]) \/ GraphJob(jobs'[i], asked')
    BY <2>3, <2>4 DEF Extends
  <2> QED BY <1>3, <1>4, <2>5, GraphTablesFrom
<1> QED BY <1>5, <1>7, <1>8, <1>9

\* Withdrawing: a job is recalled when nobody is left.
LEMMA DetachGraph == ASSUME Flights, GraphTables, Withdraws PROVE GraphTables'
<1>1. PICK ids \in SUBSET DOMAIN subscriptions : Detached(ids)
  BY DetachCases
<1>2. JobTable(jobs)
  BY DEF Flights, Tables, Places
<1>3. /\ DOMAIN jobs' = DOMAIN jobs \ Gone(ids)
      /\ \A j \in DOMAIN jobs' :
            /\ Like(jobs'[j], jobs[j], {"subscribers", "cancelRequested"})
            /\ jobs'[j].subscribers = jobs[j].subscribers \ ids
            /\ jobs'[j].cancelRequested = (jobs[j].cancelRequested \/ j \in Recalled(ids))
  BY <1>1, <1>2, DetachedJobs
<1>4. UNCHANGED <<asked, frames>>
  BY <1>1 DEF Detached
<1>5. ASSUME NEW j \in DOMAIN jobs' PROVE GraphJob(jobs'[j], asked)
  <2> DEFINE a == jobs'[j]
             b == jobs[j]
  <2>1. GraphJob(b, asked) /\ Like(a, b, {"subscribers", "cancelRequested"})
    BY <1>3, <1>5 DEF GraphTables
  <2>2. a.subscribers = b.subscribers \ ids
    BY <1>3, <1>5
  <2>3. a.cancelRequested => b.cancelRequested \/ b.subscribers \subseteq ids
    BY <1>3, <1>5 DEF Recalled, Emptied
  <2> HIDE DEF a, b
  <2>4. /\ a.key = b.key /\ a.query = b.query /\ a.phase = b.phase /\ a.summary = b.summary
        /\ a.result = b.result
    BY <2>1 DEF Like, JobFields
  <2>5. GraphJob(a, asked)
    BY <2>1, <2>2, <2>3, <2>4 DEF GraphJob
  <2> QED BY <2>5 DEF a
<1> QED BY <1>4, <1>5, GraphTablesFrom

\* Nothing is done to them.
LEMMA GraphTablesSame ==
    ASSUME GraphTables, UNCHANGED asked,
           \A j \in DOMAIN jobs' : j \in DOMAIN jobs /\ jobs'[j] = jobs[j],
           \A n \in DOMAIN frames' : frames'[n].frame = "deliver" => n \in DOMAIN frames /\ frames'[n] = frames[n]
    PROVE  GraphTables'
  BY GraphTablesFrom

\* A retired session keeps one job at most, as it was.
LEMMA RetireGraph ==
    ASSUME Flights, GraphTables, NEW keep, NEW code, Retire(keep, code), UNCHANGED asked,
           \A n \in DOMAIN frames' : frames'[n].frame = "deliver" => n \in DOMAIN frames /\ frames'[n] = frames[n]
    PROVE  GraphTables'
<1>1. Places
  BY DEF Flights, Tables
<1>2. /\ DOMAIN jobs' = DOMAIN jobs \intersect {keep}
      /\ \A j \in DOMAIN jobs' : Like(jobs'[j], jobs[j], {"epoch"})
  BY <1>1, RetireJobs
<1>3. ASSUME NEW j \in DOMAIN jobs' PROVE GraphJob(jobs'[j], asked)
  <2> DEFINE a == jobs'[j]
             b == jobs[j]
  <2>1. GraphJob(b, asked) /\ Like(a, b, {"epoch"})
    BY <1>2, <1>3 DEF GraphTables
  <2> HIDE DEF a, b
  <2>2. GraphJob(a, asked)
    BY <2>1, LikeGraph
  <2> QED BY <2>2 DEF a
<1> QED BY <1>3, GraphTablesFrom

\* setAvailable(false) keeps none.
LEMMA UnavailableGraph ==
    ASSUME Flights, GraphTables, SetUnavailable, UNCHANGED <<asked, frames>>
    PROVE  GraphTables'
<1>1. CASE available
  <2>1. Retire(0, "worker_stopped")
    BY <1>1 DEF SetUnavailable
  <2> QED BY <2>1, RetireGraph
<1>2. CASE ~available
  <2>1. UNCHANGED jobs
    BY <1>2 DEF SetUnavailable, table
  <2> QED BY <2>1, GraphTablesSame
<1> QED BY <1>1, <1>2

\* One job is replaced by one in order.
LEMMA ChangesGraph ==
    ASSUME GraphTables, UNCHANGED asked, NEW j, NEW a, Changes(j, a), GraphJob(a, asked),
           \A n \in DOMAIN frames' : frames'[n].frame = "deliver" =>
              (n \in DOMAIN frames /\ frames'[n] = frames[n]) \/ GraphFrame(frames'[n], asked)
    PROVE  GraphTables'
<1>1. \A i \in DOMAIN jobs' : (i \in DOMAIN jobs /\ jobs'[i] = jobs[i]) \/ GraphJob(jobs'[i], asked)
  BY DEF Changes
<1> QED BY <1>1, GraphTablesFrom

\* pump: a graph is never cached, and starts with its summary.
LEMMA PumpGraph == ASSUME Flights, GraphTables, Pumps PROVE GraphTables'
<1>1. JobTable(jobs) /\ Placed(jobs, queue, active) /\ IsSeq(queue)
  BY DEF Flights, Tables, Places, Placed
<1>2. /\ PumpRest
      /\ \/ PumpIdles
         \/ \E k \in DOMAIN queue : PumpTakes(k) /\ \E result : PumpEnds(queue[k], result)
         \/ \E k \in DOMAIN queue : PumpTakes(k) /\ PumpRuns(queue[k])
  BY <1>1, PumpCases
<1>3. UNCHANGED <<asked, frames>>
  BY <1>2 DEF PumpRest, ghosts
<1>4. CASE PumpIdles
  <2>1. UNCHANGED jobs
    BY <1>4 DEF PumpIdles, table
  <2> QED BY <1>3, <2>1, GraphTablesSame
<1>5. ASSUME NEW k \in DOMAIN queue PROVE queue[k] \in DOMAIN jobs /\ IsJob(jobs[queue[k]]) /\ GraphJob(jobs[queue[k]], asked)
  <2>1. queue[k] \in DOMAIN jobs
    BY <1>1, <1>5 DEF Placed, Members
  <2> QED BY <1>1, <2>1 DEF JobTable, GraphTables
<1>6. ASSUME NEW k \in DOMAIN queue, NEW result, PumpEnds(queue[k], result) PROVE GraphTables'
  <2> DEFINE j == queue[k]
  <2>1. j \in DOMAIN jobs /\ IsJob(jobs[j]) /\ GraphJob(jobs[j], asked)
    BY <1>5, <1>6
  <2>2. /\ Finishes(j, jobs[j], result)
        /\ \/ \E code : result = Error(code) /\ code # "ok"
           \/ jobs[j].query.cached
    BY <1>6 DEF PumpEnds
  <2> HIDE DEF j
  <2>3. PICK a : Puts(j, a) /\ Like(a, jobs[j], FinishFields) /\ a.phase = "delivering" /\ a.result = result
    BY <2>1, <2>2, FinishesReplaces
  <2>4. Changes(j, a)
    BY <1>1, <2>1, <2>3, PutsChanges
  <2>5. Serves(a, jobs[j])
    BY <2>3, LikeServes DEF FinishFields
  <2>6. a.query.kind = "graph" => Shown(a.result, a.query)
    <3>1. CASE \E code : result = Error(code) /\ code # "ok"
      BY <2>3, <3>1, ErrorShown
    <3>2. CASE jobs[j].query.cached
      BY <2>1, <2>5, <3>2 DEF GraphJob, Serves
    <3> QED BY <2>2, <3>1, <3>2
  <2>7. GraphJob(a, asked)
    BY <2>1, <2>3, <2>5, <2>6, ServesGraph
  <2> QED BY <1>3, <2>4, <2>7, ChangesGraph
<1>7. ASSUME NEW k \in DOMAIN queue, PumpRuns(queue[k]) PROVE GraphTables'
  <2> DEFINE j == queue[k]
             p == RunPhase(jobs[j])
             b == Running(jobs[j], p)
  <2>1. j \in DOMAIN jobs /\ IsJob(jobs[j]) /\ GraphJob(jobs[j], asked)
    BY <1>5, <1>7
  <2>2. p \in Phases /\ p \in {"summary", "reading"} /\ (p = "reading" => jobs[j].query.kind # "graph")
    BY DEF RunPhase, Phases
  <2>3. Sends(j, b, RunOp(jobs[j]), 0)
    BY <1>7 DEF PumpRuns
  <2> HIDE DEF j, p
  <2>4. IsJob(b) /\ Like(b, jobs[j], {"phase"}) /\ b.phase = p
    BY <2>1, <2>2, RunLike
  <2> HIDE DEF b
  <2>5. PICK a : Puts(j, a) /\ Like(a, b, DispatchFields) /\ a.phase = b.phase
    BY <2>3, <2>4, SendsReplaces
  <2>6. Changes(j, a)
    BY <1>1, <2>1, <2>5, PutsChanges
  <2>7. Serves(b, jobs[j]) /\ Serves(a, b)
    BY <2>4, <2>5, LikeServes DEF DispatchFields
  <2>8. Serves(a, jobs[j])
    BY <2>7 DEF Serves
  <2>9. a.phase = "reading" => a.query.kind # "graph"
    BY <2>2, <2>4, <2>5, <2>8 DEF Serves
  <2>10. a.phase # "viewport" /\ a.phase # "delivering"
    BY <2>2, <2>4, <2>5
  <2>11. GraphJob(a, asked)
    BY <2>1, <2>8, <2>9, <2>10, ServesGraph
  <2> QED BY <1>3, <2>6, <2>11, ChangesGraph
<1> QED BY <1>2, <1>4, <1>6, <1>7

\* The beginning of a delivery.
LEMMA DeliverGraph == ASSUME Flights, GraphTables, Delivers PROVE GraphTables'
<1>1. JobTable(jobs) /\ Places /\ IsSeq(frames)
  BY DEF Flights, Tables, Places, Stack
<1>2. PICK t \in deferred : t.task = "deliver" /\ DeliverRest
                            /\ (DeliverLate(t) \/ DeliverAgain(t) \/ DeliverStarts(t))
  BY DeliverCases
<1>3. UNCHANGED asked
  BY <1>2 DEF DeliverRest, ghosts
<1>4. CASE DeliverLate(t)
  <2>1. UNCHANGED <<jobs, frames>>
    BY <1>4 DEF DeliverLate, table
  <2> QED BY <1>3, <2>1, GraphTablesSame
<1>5. CASE DeliverAgain(t)
  <2> DEFINE j == t.job
             a == jobs'[j]
  <2>1. j \in DOMAIN jobs /\ jobs' = Requeued(jobs, j, Nothing) /\ UNCHANGED frames
    BY <1>5 DEF DeliverAgain, Finishing
  <2> HIDE DEF j
  <2>2. jobs' = [jobs EXCEPT ![j] = a] /\ Like(a, jobs[j], {"phase", "result"}) /\ a.phase = "queued"
    BY <1>1, <2>1, RequeuedLike
  <2> HIDE DEF a
  <2>3. Changes(j, a)
    BY <1>1, <2>1, <2>2, PutsChanges DEF Puts
  <2>4. Serves(a, jobs[j]) /\ GraphJob(jobs[j], asked)
    BY <2>1, <2>2, LikeServes DEF GraphTables
  <2>5. GraphJob(a, asked)
    BY <2>2, <2>4, ServesGraph
  <2> QED BY <1>3, <2>1, <2>3, <2>5, ChangesGraph
<1>6. CASE DeliverStarts(t)
  <2> DEFINE e == Len(frames) + 1
             ids == jobs[t.job].subscribers
             fr == DeliverFrame(t.job, ids, jobs'[t.job])
  <2>1. frames' = Append(frames, fr)
    BY <1>6 DEF DeliverStarts
  <2>2. /\ t.job = active /\ active # 0 /\ active \in DOMAIN jobs
        /\ \E a : /\ Puts(active, a) /\ Like(a, jobs[active], {"result"}) /\ a.phase = "delivering"
                  /\ a = jobs[active] \/ \E code : code # "ok" /\ a.result = Error(code)
    BY <1>1, <1>6, DeliverJob
  <2>3. PICK a : /\ Puts(active, a) /\ Like(a, jobs[active], {"result"}) /\ a.phase = "delivering"
                 /\ a = jobs[active] \/ \E code : code # "ok" /\ a.result = Error(code)
    BY <2>2
  <2>4. Changes(active, a)
    BY <1>1, <2>2, <2>3, PutsChanges
  <2>5. Serves(a, jobs[active]) /\ GraphJob(jobs[active], asked)
    BY <2>2, <2>3, LikeServes DEF GraphTables
  <2>6. GraphJob(a, asked)
    <3>1. CASE a = jobs[active]
      BY <2>5, <3>1
    <3>2. CASE \E code : code # "ok" /\ a.result = Error(code)
      <4>1. Shown(a.result, a.query)
        BY <3>2, ErrorShown
      <4> QED BY <2>3, <2>5, <4>1, ServesGraph
    <3> QED BY <2>3, <3>1, <3>2
  <2>7. fr.frame = "deliver" /\ fr.ids = ids /\ fr.work = a /\ ids = a.subscribers
    BY <2>2, <2>4, <2>5 DEF DeliverFrame, Changes, Serves
  <2> HIDE DEF fr, ids
  <2>8. GraphFrame(fr, asked)
    BY <2>3, <2>6, <2>7 DEF GraphFrame, GraphJob
  <2>9. /\ DOMAIN frames' = DOMAIN frames \union {e} /\ frames'[e] = fr
        /\ \A n \in DOMAIN frames : frames'[n] = frames[n]
    BY <1>1, <2>1, AppendOK
  <2> HIDE DEF e
  <2>10. \A n \in DOMAIN frames' : frames'[n].frame = "deliver" =>
              (n \in DOMAIN frames /\ frames'[n] = frames[n]) \/ GraphFrame(frames'[n], asked)
    BY <2>8, <2>9
  <2> QED BY <1>3, <2>4, <2>6, <2>10, ChangesGraph
<1> QED BY <1>2, <1>4, <1>5, <1>6

\* The rest of it.
LEMMA TellGraph == ASSUME Flights, GraphTables, TellsNext \/ EndsDelivery PROVE GraphTables'
<1>1. Stack /\ IsSeq(frames)
  BY DEF Flights, Tables, Stack
<1>2. CASE TellsNext
  <2> DEFINE k == Len(frames)
             ids == Top.ids \ {Next1}
             fr == DeliverFrame(Top.job, ids, Top.work)
  <2>1. /\ TellRest /\ k \in DOMAIN frames /\ Top.frame = "deliver"
        /\ frames' = [frames EXCEPT ![k] = fr]
    BY <1>1, <1>2, TellCases
  <2>2. UNCHANGED <<asked, jobs>>
    BY <2>1 DEF TellRest
  <2>3. fr.ids \subseteq frames[k].ids /\ fr.work = frames[k].work
    BY DEF DeliverFrame, Top
  <2>4. GraphFrame(frames[k], asked)
    BY <2>1 DEF GraphTables, Top
  <2> HIDE DEF fr, k
  <2>5. GraphFrame(fr, asked)
    BY <2>3, <2>4 DEF GraphFrame
  <2>6. /\ DOMAIN frames' = DOMAIN frames /\ frames'[k] = fr
        /\ \A n \in DOMAIN frames : n # k => frames'[n] = frames[n]
    BY <1>1, <2>1, ReplaceAtOK
  <2>7. \A n \in DOMAIN frames' : (n \in DOMAIN frames /\ frames'[n] = frames[n]) \/ GraphFrame(frames'[n], asked)
    BY <2>5, <2>6
  <2> QED BY <2>2, <2>7, GraphTablesFrom
<1>3. CASE EndsDelivery
  <2>1. /\ EndRest /\ frames # <<>> /\ frames' = Pop /\ DOMAIN jobs' = DOMAIN jobs \ {Top.job}
        /\ \A j \in DOMAIN jobs' : jobs'[j] = jobs[j]
    BY <1>1, <1>3, EndCases
  <2>2. \A n \in DOMAIN frames' : n \in DOMAIN frames /\ frames'[n] = frames[n]
    BY <1>1, <2>1, FrontOK DEF Pop
  <2>3. UNCHANGED asked
    BY <2>1 DEF EndRest, ghosts
  <2> QED BY <2>1, <2>2, <2>3, GraphTablesSame
<1> QED BY <1>2, <1>3

\* The deliveries on the stack.
Delivering ==
    \A n \in DOMAIN frames' : frames'[n].frame = "deliver" => n \in DOMAIN frames /\ frames'[n] = frames[n]

\* What an ok reply tells, and what another one.
LEMMA ResultOK ==
    ASSUME NEW m, NEW s
    PROVE  /\ m.code = "ok" => /\ IsResult(Result(m, s)) /\ Result(m, s).revision = revision
                               /\ Result(m, s).done = m.done /\ Result(m, s).layout = m.layout
                               /\ Result(m, s).summary = s
           /\ m.code # "ok" => \A query : Shown(Result(m, s), query)
<1>1. ASSUME m.code = "ok"
      PROVE  /\ IsResult(Result(m, s)) /\ Result(m, s).revision = revision
             /\ Result(m, s).done = m.done /\ Result(m, s).layout = m.layout
             /\ Result(m, s).summary = s
  BY <1>1 DEF Result, IsResult, ResultFields
<1>2. ASSUME m.code # "ok" PROVE \A query : Shown(Result(m, s), query)
  <2>1. Result(m, s) = Error(m.code)
    BY <1>2 DEF Result
  <2> QED BY <1>2, <2>1, ErrorShown
<1> QED BY <1>1, <1>2

\* receive goes on: a viewport is told with its own summary.
LEMMA SettleGraph ==
    ASSUME Flights, GraphTables, active # 0, Wire # 0, NEW m, Settle(active, m), UNCHANGED asked, Delivering,
           m.code = "ok" /\ Views => m.done = jobs[active].summary.done
    PROVE  GraphTables'
<1>1. JobTable(jobs) /\ Tables /\ Epochs /\ JobsLive
  BY DEF Flights, Tables, Places
<1>2. active \in DOMAIN jobs /\ Aloft(jobs[active]) /\ IsJob(jobs[active]) /\ GraphJob(jobs[active], asked)
  <2>1. active \in DOMAIN jobs /\ Aloft(jobs[active])
    BY <1>1, WireFacts
  <2> QED BY <1>1, <2>1 DEF JobTable, GraphTables
<1>3. PICK job : /\ SameJob(job, jobs[active])
                 /\ \/ \E result : SettleEnds(active, job, m, result)
                    \/ SettleRetries(active, job) \/ SettleViews(active, job, m)
  BY <1>2, SettleCases
<1>4. IsJob(job) /\ Like(job, jobs[active], {"discovered", "snapshot"})
  BY <1>3 DEF SameJob
<1>5. GraphJob(job, asked) /\ job.phase = jobs[active].phase /\ job.summary = jobs[active].summary
  <2>1. GraphJob(job, asked)
    BY <1>2, <1>4, LikeGraph
  <2> QED BY <1>4, <2>1 DEF Like, JobFields
<1>6. ASSUME NEW a, Puts(active, a), GraphJob(a, asked) PROVE GraphTables'
  <2>1. Changes(active, a)
    BY <1>1, <1>2, <1>6, PutsChanges
  <2> QED BY <1>6, <2>1, ChangesGraph DEF Delivering
<1>7. ASSUME NEW result, SettleEnds(active, job, m, result) PROVE GraphTables'
  <2>1. Finishes(active, job, result)
    BY <1>7 DEF SettleEnds, Ends
  <2>2. PICK a : Puts(active, a) /\ Like(a, job, FinishFields) /\ a.phase = "delivering" /\ a.result = result
    BY <1>4, <2>1, FinishesReplaces
  <2>3. Serves(a, job)
    BY <2>2, LikeServes DEF FinishFields
  <2>4. a.query.kind = "graph" /\ a.subscribers # {} => Shown(a.result, a.query)
    <3>1. SUFFICES ASSUME job.query.kind = "graph", job.subscribers # {} PROVE Shown(result, job.query)
      BY <2>2, <2>3 DEF Serves
    <3>2. Unfinished(job)
      BY <1>5, <3>1 DEF Unfinished, GraphJob
    <3>3. \/ result = Error("stale_layout")
          \/ /\ result = Result(m, job.summary)
             /\ m.code = "ok" => /\ job.phase # "summary"
                                 /\ job.phase = "viewport" => /\ m.layout = job.summary.layout
                                                              /\ job.summary.revision = revision
      BY <1>7, <3>2 DEF SettleEnds
    <3>4. CASE result = Error("stale_layout")
      BY <3>4, ErrorShown
    <3>5. CASE result = Result(m, job.summary) /\ m.code # "ok"
      BY <3>5, ResultOK
    <3>6. CASE result = Result(m, job.summary) /\ m.code = "ok"
      <4>0. result # Error("stale_layout")
        <5>1. result.code = "ok"
          BY <3>6 DEF Result
        <5> QED BY <5>1, ErrorShown
      <4>1. job.phase = "viewport"
        <5>1. job.phase # "summary"
          BY <3>3, <3>6, <4>0
        <5>2. job.phase # "reading"
          BY <1>5, <3>1 DEF GraphJob
        <5> QED BY <1>2, <1>5, <5>1, <5>2 DEF Aloft
      <4>2. m.layout = job.summary.layout /\ job.summary.revision = revision
        BY <3>3, <3>6, <4>0, <4>1
      <4>3. m.done = job.summary.done
        BY <1>5, <3>6, <4>1 DEF Views
      <4>4. /\ IsResult(result) /\ result.revision = revision /\ result.done = m.done
            /\ result.layout = m.layout /\ result.summary = job.summary
        BY <3>6, ResultOK
      <4>5. job.query.layout \in {0, job.summary.layout}
        BY <1>5, <4>1 DEF GraphJob
      <4> QED BY <4>2, <4>3, <4>4, <4>5 DEF Shown, Whole
    <3> QED BY <3>3, <3>4, <3>5, <3>6
  <2>5. GraphJob(a, asked)
    BY <1>5, <2>2, <2>3, <2>4, ServesGraph
  <2> QED BY <1>6, <2>2, <2>5
<1>8. CASE SettleRetries(active, job)
  <2> DEFINE b == Retried(job)
  <2>1. IsJob(b) /\ b.phase = "summary" /\ Like(b, job, {"retried", "phase", "summary"})
    BY <1>4, RetriedLike
  <2>2. Sends(active, b, "cfg_summary", 0)
    BY <1>8 DEF SettleRetries
  <2> HIDE DEF b
  <2>3. PICK a : Puts(active, a) /\ Like(a, b, DispatchFields) /\ a.phase = b.phase
    BY <2>1, <2>2, SendsReplaces
  <2>4. Serves(b, job) /\ Serves(a, b)
    BY <2>1, <2>3, LikeServes DEF DispatchFields
  <2>5. Serves(a, job)
    BY <2>4 DEF Serves
  <2>6. GraphJob(a, asked)
    BY <1>5, <2>1, <2>3, <2>5, ServesGraph
  <2> QED BY <1>6, <2>3, <2>6
<1>9. CASE SettleViews(active, job, m)
  <2> DEFINE s == [layout |-> m.layout, revision |-> revision, done |-> m.done]
             b == Viewed(job, m)
  <2>1. IsJob(b) /\ b.phase = "viewport" /\ Like(b, job, {"phase", "summary"}) /\ b.summary = s
    BY <1>4, ViewportLike DEF Viewed
  <2>2. /\ Sends(active, b, "cfg_viewport", m.layout)
        /\ job.query.kind = "graph" /\ job.query.layout \in {0, m.layout}
    BY <1>9 DEF SettleViews, Unfinished, Continues
  <2>3. s.layout = m.layout
    OBVIOUS
  <2> HIDE DEF b, s
  <2>4. PICK a : Puts(active, a) /\ Like(a, b, DispatchFields) /\ a.phase = b.phase
    BY <2>1, <2>2, SendsReplaces
  <2>5. Serves(b, job) /\ Serves(a, b) /\ a.summary = b.summary
    <3>1. Serves(b, job) /\ Serves(a, b)
      BY <2>1, <2>4, LikeServes DEF DispatchFields
    <3>2. a.summary = b.summary
      BY <2>4 DEF Like, JobFields, DispatchFields
    <3> QED BY <3>1, <3>2
  <2>6. Serves(a, job)
    BY <2>5 DEF Serves
  <2>7. a.query.kind = "graph" /\ a.query.layout \in {0, a.summary.layout} /\ a.phase = "viewport"
    BY <2>1, <2>2, <2>3, <2>4, <2>5, <2>6 DEF Serves
  <2>8. GraphJob(a, asked)
    BY <1>5, <2>6, <2>7, ServesGraph
  <2> QED BY <1>6, <2>4, <2>8
<1> QED BY <1>3, <1>7, <1>8, <1>9

\* A reply that is not ignored is the one the active job waits for.
LEMMA AwaitedReply ==
    ASSUME Flights, HearsReply, ~ReceiveIgnored
    PROVE  /\ active # 0 /\ Wire # 0 /\ active \in DOMAIN jobs /\ IsJob(jobs[active])
           /\ 1 \in DOMAIN posted /\ posted[1] = Head(posted) /\ Final(1)
           /\ ReceiveFails \/ ReceiveMoves(posted[1]) \/ ReceiveOpens(posted[1]) \/ ReceiveSettles(posted[1])
<1>1. Tables /\ Epochs /\ JobsLive /\ Wires /\ Places /\ JobTable(jobs) /\ IsSeq(posted)
  BY DEF Flights, Tables, Places, Epochs, PostedOK
<1>2. posted # <<>> /\ posted' = Tail(posted) /\ Head(posted).type = "response" /\ Head(posted).epoch = client.epoch
  BY ReceiveCases
<1>3. 1 \in DOMAIN posted /\ Head(posted) = posted[1]
  <2>1. Drops(posted', posted)
    BY <1>1, <1>2, DropsOK
  <2> QED BY <2>1 DEF Drops
<1> DEFINE m == Head(posted)
<1>4. Awaited(m) /\ (ReceiveFails \/ ReceiveMoves(m) \/ ReceiveOpens(m) \/ ReceiveSettles(m))
  BY ReceiveCases
<1>5. active # 0 /\ Wire # 0 /\ m.id = Wire /\ WireOp = jobs[active].wireOp
  BY <1>4 DEF Awaited, Wire, WireOp
<1>6. About(1)
  BY <1>2, <1>3, <1>5 DEF About
<1>7. Final(1)
  <2>1. m.code = "progress" => m.op # WireOp
    BY <1>4, <1>5, ReceiveProgress
  <2>2. posted[1].code = "progress" => posted[1].op = WireOp
    BY <1>1, <1>3, <1>6 DEF Wires, Flight
  <2> QED BY <1>3, <1>6, <2>1, <2>2 DEF Final
<1>8. active \in DOMAIN jobs
  BY <1>1, <1>5, WireFacts
<1> QED BY <1>1, <1>3, <1>4, <1>5, <1>7, <1>8 DEF JobTable

\* contextChanged returns to a reply of the same content.
LEMMA ContextGraph == ASSUME Flights, GraphTables, Replies, ResumesReceive PROVE GraphTables'
<1>1. Tables /\ Epochs /\ JobsLive /\ Wires /\ Places /\ Stack /\ IsSeq(frames)
  BY DEF Flights, Tables, Stack
<1>2. /\ ContextRest /\ frames # <<>> /\ Len(frames) \in DOMAIN frames
      /\ Top.frame = "context" /\ frames' = Pop
      /\ \/ Resumed
         \/ UNCHANGED <<table, context, session, cache, deferred, client>>
  BY <1>1, ContextCases
<1>3. UNCHANGED asked
  BY <1>2 DEF ContextRest, ghosts
<1>4. \A n \in DOMAIN frames' : n \in DOMAIN frames /\ frames'[n] = frames[n]
  BY <1>1, <1>2, FrontOK DEF Pop
<1>5. CASE Resumed
  <2>1. active # 0 /\ active = Top.job /\ Settle(active, Top.reply)
    BY <1>5 DEF Resumed
  <2>2. Context(Len(frames))
    BY <1>2, <2>1 DEF Context, Top
  <2>3. Wire # 0
    BY <1>1, <1>2, <2>2 DEF Wires, Resuming
  <2>4. Top.reply.code = "ok" => Shows(Top.reply.done)
    BY <1>2, <2>2 DEF Replies, Top
  <2>5. Top.reply.code = "ok" /\ Views => Top.reply.done = jobs[active].summary.done
    BY <2>4 DEF Shows
  <2>6. Delivering
    BY <1>4 DEF Delivering
  <2> DEFINE m == Top.reply
  <2> HIDE DEF m
  <2>7. Settle(active, m) /\ (m.code = "ok" /\ Views => m.done = jobs[active].summary.done)
    BY <2>1, <2>5 DEF m
  <2> QED BY <1>3, <2>1, <2>3, <2>6, <2>7, SettleGraph
<1>6. CASE UNCHANGED <<table, context, session, cache, deferred, client>>
  <2>1. UNCHANGED jobs
    BY <1>6 DEF table
  <2> QED BY <1>3, <1>4, <2>1, GraphTablesSame
<1> QED BY <1>2, <1>5, <1>6

\* A reply ends the job with an error, or as receive goes on.
LEMMA ReplyGraph == ASSUME Flights, GraphTables, Replies, HearsReply PROVE GraphTables'
<1>1. JobTable(jobs) /\ IsSeq(frames)
  BY DEF Flights, Tables, Places, Stack
<1>2. UNCHANGED asked
  BY ReceiveCases DEF ReceiveRest, ghosts
<1>3. CASE ReceiveIgnored
  <2>1. UNCHANGED <<jobs, frames>>
    BY <1>3 DEF ReceiveIgnored, table
  <2> QED BY <1>2, <2>1, GraphTablesSame
<1>4. ASSUME ~ReceiveIgnored PROVE GraphTables'
  <2> DEFINE m == posted[1]
  <2>1. /\ active # 0 /\ Wire # 0 /\ active \in DOMAIN jobs /\ IsJob(jobs[active])
        /\ 1 \in DOMAIN posted /\ Final(1)
        /\ ReceiveFails \/ ReceiveMoves(m) \/ ReceiveOpens(m) \/ ReceiveSettles(m)
    BY <1>4, AwaitedReply
  <2>2. m.code = "ok" => Shows(m.done)
    BY <2>1 DEF Replies
  <2> HIDE DEF m
  <2>3. CASE ReceiveFails
    <3>1. PICK code : code # "ok" /\ Ends(active, jobs[active], Error(code))
      BY <2>3 DEF ReceiveFails
    <3>2. UNCHANGED frames
      BY <2>3 DEF ReceiveFails
    <3> DEFINE r == Error(code)
    <3>3. Finishes(active, jobs[active], r) /\ \A query : Shown(r, query)
      BY <3>1, ErrorShown DEF Ends
    <3> HIDE DEF r
    <3>4. PICK a : Puts(active, a) /\ Like(a, jobs[active], FinishFields) /\ a.phase = "delivering" /\ a.result = r
      BY <2>1, <3>3, FinishesReplaces
    <3>5. Changes(active, a) /\ Serves(a, jobs[active]) /\ GraphJob(jobs[active], asked)
      <4>1. Changes(active, a)
        BY <1>1, <2>1, <3>4, PutsChanges
      <4>2. Serves(a, jobs[active])
        BY <3>4, LikeServes DEF FinishFields
      <4> QED BY <2>1, <4>1, <4>2 DEF GraphTables
    <3>6. GraphJob(a, asked)
      BY <3>3, <3>4, <3>5, ServesGraph
    <3> QED BY <1>2, <3>2, <3>5, <3>6, ChangesGraph
  <2>4. CASE ReceiveSettles(m)
    <3>1. Settle(active, m) /\ UNCHANGED frames
      BY <2>4 DEF ReceiveSettles
    <3>2. Delivering
      BY <3>1 DEF Delivering
    <3>3. m.code = "ok" /\ Views => m.done = jobs[active].summary.done
      BY <2>2 DEF Shows
    <3> QED BY <1>2, <2>1, <3>1, <3>2, <3>3, SettleGraph
  <2>5. ASSUME frames' = Append(frames, ContextFrame(active, m)) PROVE Delivering
    <3> DEFINE e == Len(frames) + 1
               fr == ContextFrame(active, m)
    <3>1. fr.frame = "context" /\ frames' = Append(frames, fr)
      BY <2>5 DEF ContextFrame
    <3> HIDE DEF fr
    <3>2. /\ DOMAIN frames' = DOMAIN frames \union {e} /\ frames'[e] = fr
          /\ \A n \in DOMAIN frames : frames'[n] = frames[n]
      BY <1>1, <3>1, AppendOK
    <3> HIDE DEF e
    <3> QED BY <3>1, <3>2 DEF Delivering
  <2>6. CASE ReceiveMoves(m)
    <3>1. UNCHANGED jobs /\ frames' = Append(frames, ContextFrame(active, m))
      BY <2>6 DEF ReceiveMoves, table
    <3> QED BY <1>2, <2>5, <3>1, GraphTablesSame DEF Delivering
  <2>7. CASE ReceiveOpens(m)
    <3>1. Retire(active, "session_changed") /\ frames' = Append(frames, ContextFrame(active, m))
      BY <2>7 DEF ReceiveOpens
    <3> QED BY <1>2, <2>5, <3>1, RetireGraph DEF Delivering
  <2> QED BY <2>1, <2>3, <2>4, <2>6, <2>7
<1> QED BY <1>3, <1>4
-----------------------------------------------------------------------------
(* What replies show.                                                      *)

\* The active job waits for the same reply, which is of the same content, and
\* so do the handlers inside contextChanged.
ActiveSame ==
    /\ active' = active
    /\ active # 0 => /\ jobs'[active].wire = jobs[active].wire /\ jobs'[active].wireOp = jobs[active].wireOp
                     /\ jobs'[active].phase = jobs[active].phase
                     /\ jobs'[active].summary = jobs[active].summary
ContentSame ==
    transport'.process = "running" => transport.process = "running" /\ worker'.done = worker.done
ContextsSame ==
    \A n \in DOMAIN frames' : frames'[n].frame = "context" => n \in DOMAIN frames /\ frames'[n] = frames[n]

\* So what it shows stays what it has to show.
LEMMA ActiveShown ==
    ASSUME ActiveSame, ContentSame
    PROVE  /\ Wire' = Wire /\ (Views' <=> Views)
           /\ Views => WireOp' = WireOp /\ jobs'[active'].summary = jobs[active].summary
           /\ \A done : Shows(done) => Shows(done)'
<1>1. Wire' = Wire
  BY DEF ActiveSame, Wire
<1>2. Wire # 0 => active # 0
  BY DEF Wire
<1>3. /\ Views' <=> Views
      /\ Views => WireOp' = WireOp /\ jobs'[active'].summary = jobs[active].summary
  BY <1>1, <1>2 DEF ActiveSame, Views, WireOp
<1>4. \A done : Shows(done) => Shows(done)'
  BY <1>3 DEF Shows, ContentSame
<1> QED BY <1>1, <1>3, <1>4

\* No reply of the request comes or goes but those heard.
LEMMA RepliesKept ==
    ASSUME Replies, IsSeq(posted), Hears, client'.epoch = client.epoch, ActiveSame, ContentSame, ContextsSame
    PROVE  Replies'
<1>1. /\ Wire' = Wire /\ (Views' <=> Views)
      /\ Views => WireOp' = WireOp /\ jobs'[active'].summary = jobs[active].summary
      /\ \A done : Shows(done) => Shows(done)'
  BY ActiveShown
<1>2. PICK d : Heard(d)
  BY HeardOK
<1>3. \A n \in DOMAIN posted' : Final(n)' => n + d \in DOMAIN posted /\ Final(n + d) /\ posted'[n] = posted[n + d]
  BY <1>1, <1>2, HeardSame DEF Final
<1>4. ASSUME NEW n \in DOMAIN posted', Final(n)', posted'[n].code = "ok" PROVE Shows(posted[n].done)'
  <2>1. PICK x : x = posted'[n].done
    OBVIOUS
  <2>2. Shows(x)
    BY <1>3, <1>4, <2>1 DEF Replies
  <2>3. Shows(x)'
    BY <1>1, <2>2
  <2> QED BY <2>1, <2>3 DEF Shows
<1>5. ASSUME NEW n \in DOMAIN frames', Context(n)', frames'[n].reply.code = "ok" PROVE Shows(frames[n].reply.done)'
  <2>0. PICK x : x = frames'[n].reply.done
    OBVIOUS
  <2>1. n \in DOMAIN frames /\ frames'[n] = frames[n] /\ Context(n)
    BY <1>5 DEF Context, ContextsSame, ActiveSame
  <2>2. Shows(x)
    BY <1>5, <2>0, <2>1 DEF Replies
  <2>3. Shows(x)'
    BY <1>1, <2>2
  <2> QED BY <2>0, <2>3 DEF Shows
<1>6. Views' => WireOp' = "cfg_viewport" /\ (transport'.process = "running" => jobs'[active'].summary.done = worker'.done)
  BY <1>1 DEF Replies, ContentSame
<1> QED BY <1>4, <1>5, <1>6 DEF Replies

\* Nobody waits for a reply.
LEMMA RepliesNone ==
    ASSUME Flights', Wire' = 0
    PROVE  Replies'
<1>1. \A n \in DOMAIN frames' : ~Context(n)'
  BY DEF Flights, Wires, Resuming
<1>2. (\A n \in DOMAIN posted' : ~Final(n)') /\ ~Views'
  BY DEF Final, About, Views
<1> QED BY <1>1, <1>2 DEF Replies

\* A request has just been sent.
LEMMA RepliesSent ==
    ASSUME Flights, Flights', Hears, NEW request, client' = Request(client, request), Wire' = client'.nextRequest,
           \A n \in DOMAIN frames' : ~(frames'[n].frame = "context" /\ frames'[n].job = active'),
           Views' => /\ WireOp' = "cfg_viewport"
                     /\ transport'.process = "running" => jobs'[active'].summary.done = worker'.done
    PROVE  Replies'
<1>1. IsSeq(posted) /\ Ids /\ IsClient(client) /\ client.nextRequest \in Nat
  BY DEF Flights, Epochs, PostedOK, Wires, ClientOK, IsClient
<1>2. client'.nextRequest = client.nextRequest + 1
  BY <1>1, RequestOK
<1>3. PICK d : Heard(d)
  BY <1>1, HeardOK
<1>4. \A n \in DOMAIN posted' : n + d \in DOMAIN posted /\ posted'[n] = posted[n + d]
  BY <1>3 DEF Heard
<1>5. \A n \in DOMAIN posted' : posted'[n].type = "response" => posted'[n].id \in Nat /\ posted'[n].id <= client.nextRequest
  BY <1>1, <1>4 DEF Ids
<1>6. \A n \in DOMAIN posted' : ~Final(n)'
  BY <1>1, <1>2, <1>5 DEF Final, About
<1>7. \A n \in DOMAIN frames' : ~Context(n)'
  BY DEF Context
<1> QED BY <1>6, <1>7 DEF Replies

\* Away from the GUI thread a message is posted, which shows what it has to.
LEMMA RepliesPosted ==
    ASSUME Flights, Replies, Away, client'.epoch = client.epoch, ContentSame, NEW m, Post(m),
           /\ m.type = "response" /\ m.epoch = client.epoch /\ Wire # 0 /\ m.id = Wire /\ m.code = "ok"
           => Shows(m.done)'
    PROVE  Replies'
<1>1. IsSeq(posted) /\ ActiveSame /\ ContextsSame /\ Posted(m)
  BY PostOK DEF Flights, Epochs, PostedOK, Away, ActiveSame, ContextsSame
<1>2. /\ Wire' = Wire /\ (Views' <=> Views)
      /\ Views => WireOp' = WireOp /\ jobs'[active'].summary = jobs[active].summary
      /\ \A done : Shows(done) => Shows(done)'
  BY <1>1, ActiveShown
<1>3. /\ \A n \in DOMAIN posted : (Final(n)' <=> Final(n)) /\ posted'[n] = posted[n]
      /\ \A n \in DOMAIN posted' : n \notin DOMAIN posted =>
            /\ posted'[n] = m
            /\ Final(n)' => m.type = "response" /\ m.epoch = client.epoch /\ Wire # 0 /\ m.id = Wire
  <2>1. \A n \in DOMAIN posted : posted'[n] = posted[n]
    BY <1>1 DEF Posted
  <2> QED BY <1>1, <2>1, PostedSame
<1>4. ASSUME NEW n \in DOMAIN posted', Final(n)', posted'[n].code = "ok" PROVE Shows(posted[n].done)'
  <2>1. PICK x : x = posted'[n].done
    OBVIOUS
  <2>2. CASE n \in DOMAIN posted
    <3>1. Shows(x)
      BY <1>3, <1>4, <2>1, <2>2 DEF Replies
    <3>2. Shows(x)'
      BY <1>2, <3>1
    <3> QED BY <2>1, <3>2 DEF Shows
  <2>3. CASE n \notin DOMAIN posted
    <3>1. Shows(m.done)' /\ posted'[n] = m
      BY <1>3, <1>4, <2>3
    <3> QED BY <3>1 DEF Shows
  <2> QED BY <2>2, <2>3
<1>5. ASSUME NEW n \in DOMAIN frames', Context(n)', frames'[n].reply.code = "ok" PROVE Shows(frames[n].reply.done)'
  <2>0. PICK x : x = frames'[n].reply.done
    OBVIOUS
  <2>1. n \in DOMAIN frames /\ frames'[n] = frames[n] /\ Context(n)
    BY <1>1, <1>5 DEF Context, ContextsSame, ActiveSame
  <2>2. Shows(x)
    BY <1>5, <2>0, <2>1 DEF Replies
  <2>3. Shows(x)'
    BY <1>2, <2>2
  <2> QED BY <2>0, <2>3 DEF Shows
<1>6. Views' => WireOp' = "cfg_viewport" /\ (transport'.process = "running" => jobs'[active'].summary.done = worker'.done)
  BY <1>2 DEF Replies, ContentSame
<1> QED BY <1>4, <1>5, <1>6 DEF Replies

\* A job that is over waits for no reply.
LEMMA RepliesOver ==
    ASSUME Flights', active' # 0 => jobs'[active'].phase = "delivering"
    PROVE  Replies'
<1>1. (active # 0 => active \in DOMAIN jobs)' /\ JobsLive'
  BY DEF Flights, Tables, Places, Placed
<1>2. Wire' = 0
  BY <1>1 DEF Wire, JobsLive, Waits, Aloft
<1> QED BY <1>2, RepliesNone

\* Asking and withdrawing leave the active job to its reply.
LEMMA UserReplies == ASSUME Flights, Flights', Replies, Asks \/ Withdraws PROVE Replies'
<1>1. /\ Tables /\ JobTable(jobs) /\ Placed(jobs, queue, active) /\ IsSeq(asked) /\ IsSeq(posted)
      /\ IsClient(client) /\ (active # 0 => active \in DOMAIN jobs)
  BY DEF Flights, Tables, Places, Placed, Stack, Epochs, PostedOK, ClientOK
<1>2. CASE Asks
  <2>1. PICK query \in Query, owner \in Owner :
            /\ AskRest(query, owner)
            /\ \/ AskRefused(Len(asked) + 1, query, owner)
               \/ \E j \in DOMAIN jobs : AskJoins(Len(asked) + 1, query, owner, j)
               \/ AskMakes(Len(asked) + 1, query, owner)
    BY <1>1, <1>2, AskCases
  <2> DEFINE ask == Len(asked) + 1
  <2>2. UNCHANGED <<active, frames, client, transport, posted, worker>> /\ ask \notin DOMAIN asked /\ query \in Queries
    <3>1. ask \notin DOMAIN asked
      BY <1>1, <2>1, AskNumber
    <3>2. query \in Queries
      BY QueryType
    <3> QED BY <2>1, <3>1, <3>2 DEF AskRest
  <2>3. \/ AskRefused(ask, query, owner)
        \/ \E j \in DOMAIN jobs : AskJoins(ask, query, owner, j)
        \/ AskMakes(ask, query, owner)
    BY <2>1
  <2> HIDE DEF ask
  <2>4. active # 0 => /\ jobs'[active].wire = jobs[active].wire /\ jobs'[active].wireOp = jobs[active].wireOp
                      /\ jobs'[active].phase = jobs[active].phase
                      /\ jobs'[active].summary = jobs[active].summary
    <3>1. CASE AskRefused(ask, query, owner)
      BY <3>1 DEF AskRefused
    <3>2. ASSUME NEW j \in DOMAIN jobs, AskJoins(ask, query, owner, j)
          PROVE  \A i \in DOMAIN jobs :
                    /\ jobs'[i].wire = jobs[i].wire /\ jobs'[i].wireOp = jobs[i].wireOp
                    /\ jobs'[i].phase = jobs[i].phase /\ jobs'[i].summary = jobs[i].summary
      <4> DEFINE K == jobs'
      <4>1. K = Joined(jobs, j, ask, query.visible) /\ query.visible \in BOOLEAN
        BY <2>2, <3>2 DEF AskJoins, Joined, Queries
      <4> HIDE DEF K
      <4>2. K = [jobs EXCEPT ![j] = K[j]] /\ Like(K[j], jobs[j], {"subscribers", "query"})
        BY <1>1, <4>1, JoinedLike
      <4> DEFINE a == K[j]
      <4>3. K = [jobs EXCEPT ![j] = a] /\ Like(a, jobs[j], {"subscribers", "query"})
        BY <4>2
      <4> HIDE DEF a
      <4>4. K[j] = a /\ \A i \in DOMAIN jobs : i # j => K[i] = jobs[i]
        BY <1>1, <4>3, ReplaceOK
      <4>5. a.wire = jobs[j].wire /\ a.wireOp = jobs[j].wireOp /\ a.phase = jobs[j].phase /\ a.summary = jobs[j].summary
        BY <4>3 DEF Like, JobFields
      <4> QED BY <4>4, <4>5 DEF K
    <3>3. CASE AskMakes(ask, query, owner)
      <4> DEFINE r == NewJob(query, ask)
      <4>1. jobs' = Extended(jobs, ask, r)
        BY <3>3 DEF AskMakes
      <4> HIDE DEF r
      <4>2. Extends(jobs', jobs, ask, r)
        BY <4>1, ExtendedOK
      <4>3. active # 0 => active # ask
        BY <1>1, <2>2 DEF Tables, Places
      <4> QED BY <1>1, <4>2, <4>3 DEF Extends
    <3> QED BY <1>1, <2>3, <3>1, <3>2, <3>3
  <2>5. ActiveSame /\ ContentSame /\ ContextsSame
    BY <2>2, <2>4 DEF ActiveSame, ContentSame, ContextsSame
  <2> QED BY <1>1, <2>2, <2>5, RepliesKept DEF Hears
<1>3. CASE Withdraws
  <2>1. PICK ids \in SUBSET DOMAIN subscriptions : Detached(ids)
    BY <1>3, DetachCases
  <2>2. /\ DOMAIN jobs' = DOMAIN jobs \ Gone(ids)
        /\ \A j \in DOMAIN jobs' : Like(jobs'[j], jobs[j], {"subscribers", "cancelRequested"})
    BY <1>1, <2>1, DetachedJobs
  <2>3. active \notin Gone(ids)
    BY <1>1 DEF Gone, Emptied, GoesAtOnce, Placed, JobTable
  <2>4. UNCHANGED <<transport, worker, frames, posted, active>>
    BY <1>3, <2>1, <2>3 DEF Detached, Withdraws
  <2>5. \A j \in DOMAIN jobs' : /\ jobs'[j].wire = jobs[j].wire /\ jobs'[j].wireOp = jobs[j].wireOp
                               /\ jobs'[j].phase = jobs[j].phase /\ jobs'[j].summary = jobs[j].summary
    BY <2>2 DEF Like, JobFields
  <2>6. ActiveSame /\ ContentSame /\ ContextsSame
    BY <1>1, <2>2, <2>3, <2>4, <2>5 DEF ActiveSame, ContentSame, ContextsSame
  <2>7. client'.epoch = client.epoch
    <3>1. client' = client \/ client' = Request(client, CancelOf(active))
      BY <1>1, <2>1, DetachClient DEF Tables
    <3> QED BY <1>1, <3>1, RequestOK
  <2> QED BY <1>1, <2>4, <2>6, <2>7, RepliesKept DEF Hears
<1> QED BY <1>2, <1>3

\* Steps that leave the tables and the client alone do.
LEMMA IdleReplies ==
    ASSUME Flights, Replies, UNCHANGED <<transport, worker, jobs, active, client>>, ContextsSame, Hears
    PROVE  Replies'
<1>1. IsSeq(posted)
  BY DEF Flights, Epochs, PostedOK
<1>2. ActiveSame /\ ContentSame
  BY DEF ActiveSame, ContentSame
<1> QED BY <1>1, <1>2, RepliesKept

\* They are these.
LEMMA QuietReplies ==
    ASSUME Flights, Replies, Rejects \/ Announces \/ TellsRetired \/ Unheard \/ HearsHeartbeat
    PROVE  Replies'
<1>0. IsSeq(posted)
  BY DEF Flights, Epochs, PostedOK
<1>1. CASE Rejects \/ Announces \/ TellsRetired
  <2>1. UNCHANGED <<transport, worker, jobs, active, frames, client, posted>>
    BY <1>1 DEF Rejects, RejectLater, Announces, AnalysisCompleted, TellsRetired, Standalone,
       Aside, table
  <2> QED BY <2>1, IdleReplies DEF Hears, ContextsSame
<1>2. CASE Unheard
  <2>1. UNCHANGED <<transport, worker, jobs, active, frames, client>> /\ posted' = Tail(posted) /\ posted # <<>>
    BY <1>2 DEF Unheard, serviceVars, table
  <2>2. Hears
    BY <1>0, <2>1, DropsOK DEF Hears
  <2> QED BY <2>1, <2>2, IdleReplies DEF ContextsSame
<1>3. CASE HearsHeartbeat
  <2>1. UNCHANGED <<transport, worker, jobs, active, frames, client>> /\ NextPosted("heartbeat")
    BY <1>3 DEF HearsHeartbeat, table
  <2>2. Hears
    BY <1>0, <2>1, HearOK DEF Hears
  <2> QED BY <2>1, <2>2, IdleReplies DEF ContextsSame
<1> QED BY <1>1, <1>2, <1>3

\* pump sends the first request of a job, which is no viewport's.
LEMMA PumpReplies == ASSUME Flights, Flights', Replies, Pumps PROVE Replies'
<1>1. /\ Wires /\ JobTable(jobs) /\ Placed(jobs, queue, active) /\ IsSeq(queue)
  BY DEF Flights, Tables, Places, Placed
<1>2. /\ PumpRest
      /\ \/ PumpIdles
         \/ \E k \in DOMAIN queue : PumpTakes(k) /\ \E result : PumpEnds(queue[k], result)
         \/ \E k \in DOMAIN queue : PumpTakes(k) /\ PumpRuns(queue[k])
  BY <1>1, PumpCases
<1>3. UNCHANGED <<transport, worker, frames, posted>>
  BY <1>2 DEF PumpRest
<1>4. CASE PumpIdles
  <2>1. UNCHANGED <<jobs, active, client>>
    BY <1>4 DEF PumpIdles, table
  <2> QED BY <1>3, <2>1, IdleReplies DEF Hears, ContextsSame
<1>5. ASSUME NEW k \in DOMAIN queue, PumpTakes(k)
      PROVE  /\ queue[k] \in DOMAIN jobs /\ IsJob(jobs[queue[k]]) /\ active' = queue[k]
             /\ \A n \in DOMAIN frames : frames[n].frame = "context" => frames[n].job \notin DOMAIN jobs
  <2>1. queue[k] \in DOMAIN jobs
    BY <1>1, <1>5 DEF Placed, Members
  <2>2. active' = queue[k] /\ active = 0
    BY <1>5 DEF PumpTakes
  <2>3. \A n \in DOMAIN frames : frames[n].frame = "context" => frames[n].job \notin DOMAIN jobs
    BY <1>1, <2>2 DEF Wires, Resuming, JobTable
  <2> QED BY <1>1, <2>1, <2>2, <2>3 DEF JobTable
<1>6. ASSUME NEW k \in DOMAIN queue, PumpTakes(k), NEW result, PumpEnds(queue[k], result) PROVE Replies'
  <2> DEFINE j == queue[k]
  <2>1. j \in DOMAIN jobs /\ IsJob(jobs[j]) /\ active' = j /\ Finishes(j, jobs[j], result)
    BY <1>5, <1>6 DEF PumpEnds
  <2> HIDE DEF j
  <2>2. PICK a : Puts(j, a) /\ a.phase = "delivering"
    BY <2>1, FinishesReplaces
  <2>3. Changes(j, a)
    BY <1>1, <2>1, <2>2, PutsChanges
  <2> QED BY <2>1, <2>2, <2>3, RepliesOver DEF Changes
<1>7. ASSUME NEW k \in DOMAIN queue, PumpTakes(k), PumpRuns(queue[k]) PROVE Replies'
  <2> DEFINE j == queue[k]
             job == Running(jobs[j], RunPhase(jobs[j]))
             op == RunOp(jobs[j])
  <2>1. /\ j \in DOMAIN jobs /\ IsJob(jobs[j]) /\ active' = j /\ Sends(j, job, op, 0)
        /\ \A n \in DOMAIN frames : frames[n].frame = "context" => frames[n].job \notin DOMAIN jobs
    BY <1>5, <1>7 DEF PumpRuns
  <2>2. RunPhase(jobs[j]) \in Phases /\ RunPhase(jobs[j]) \in {"reading", "summary"}
    BY DEF RunPhase, Phases
  <2>3. j # 0
    BY <1>1, <2>1 DEF JobTable
  <2> HIDE DEF j
  <2>4. IsJob(job) /\ job.phase \in {"reading", "summary"}
    BY <2>1, <2>2, RunLike
  <2> HIDE DEF job, op
  <2>5. PICK a : Puts(j, a) /\ a.phase = job.phase /\ a.wire = client'.nextRequest /\ a.wireOp = op
    BY <2>1, <2>4, SendsReplaces
  <2>6. Changes(j, a)
    BY <1>1, <2>1, <2>5, PutsChanges
  <2>7. Wire' = client'.nextRequest /\ ~Views'
    BY <2>1, <2>3, <2>4, <2>5, <2>6 DEF Wire, Views, Changes
  <2> DEFINE request == Order(j, job, op, 0)
  <2>8. client' = Request(client, request)
    BY <2>1 DEF Sends
  <2> HIDE DEF request
  <2>9. \A n \in DOMAIN frames' : ~(frames'[n].frame = "context" /\ frames'[n].job = active')
    BY <1>3, <2>1
  <2> QED BY <1>3, <2>7, <2>8, <2>9, RepliesSent DEF Hears
<1> QED BY <1>2, <1>4, <1>6, <1>7

\* A delivery is of a job that waits for nothing.
LEMMA DeliverReplies == ASSUME Flights, Flights', Replies, Delivers PROVE Replies'
<1>1. JobTable(jobs) /\ Places /\ IsSeq(frames)
  BY DEF Flights, Tables, Places, Stack
<1>2. PICK t \in deferred : t.task = "deliver" /\ DeliverRest
                            /\ (DeliverLate(t) \/ DeliverAgain(t) \/ DeliverStarts(t))
  BY DeliverCases
<1>3. CASE DeliverLate(t)
  <2>1. UNCHANGED <<jobs, active, frames, transport, worker, posted, client>>
    BY <1>2, <1>3 DEF DeliverLate, DeliverRest, table
  <2> QED BY <2>1, IdleReplies DEF Hears, ContextsSame
<1>4. CASE DeliverAgain(t)
  <2>1. active' = 0
    BY <1>4 DEF DeliverAgain
  <2> QED BY <2>1, RepliesOver
<1>5. CASE DeliverStarts(t)
  <2>1. PICK a : Puts(active, a) /\ a.phase = "delivering"
    BY <1>1, <1>5, DeliverJob
  <2>2. active \in DOMAIN jobs /\ UNCHANGED active
    BY <1>1, <1>5, DeliverJob DEF DeliverStarts
  <2>3. Changes(active, a)
    BY <1>1, <2>1, <2>2, PutsChanges
  <2> QED BY <2>1, <2>2, <2>3, RepliesOver DEF Changes
<1> QED BY <1>2, <1>3, <1>4, <1>5

\* Nor does telling, or ending it, change what is waited for.
LEMMA TellReplies == ASSUME Flights, Flights', Replies, TellsNext \/ EndsDelivery PROVE Replies'
<1>1. Tables /\ Deliveries /\ Stack /\ IsSeq(frames) /\ IsSeq(posted) /\ Placed(jobs, queue, active)
  BY DEF Flights, Tables, Places, Stack, Epochs, PostedOK
<1>2. CASE TellsNext
  <2> DEFINE k == Len(frames)
             fr == DeliverFrame(Top.job, Top.ids \ {Next1}, Top.work)
  <2>1. /\ TellRest /\ k \in DOMAIN frames /\ Top.frame = "deliver"
        /\ frames' = [frames EXCEPT ![k] = fr]
    BY <1>1, <1>2, TellCases
  <2>2. UNCHANGED <<transport, worker, posted, client, jobs, active>>
    BY <2>1 DEF TellRest
  <2>3. fr.frame = "deliver"
    BY DEF DeliverFrame
  <2> HIDE DEF fr, k
  <2>4. /\ DOMAIN frames' = DOMAIN frames /\ frames'[k] = fr
        /\ \A n \in DOMAIN frames : n # k => frames'[n] = frames[n]
    BY <1>1, <2>1, ReplaceAtOK
  <2>5. ContextsSame
    BY <2>3, <2>4 DEF ContextsSame
  <2> QED BY <2>2, <2>5, IdleReplies DEF Hears
<1>3. CASE EndsDelivery
  <2>1. /\ EndRest /\ frames # <<>> /\ Len(frames) \in DOMAIN frames
        /\ Top.frame = "deliver" /\ frames' = Pop
        /\ DOMAIN jobs' = DOMAIN jobs \ {Top.job}
        /\ \A j \in DOMAIN jobs' : jobs'[j] = jobs[j]
        /\ RemoveJobs({Top.job} \intersect DOMAIN jobs)
    BY <1>1, <1>3, EndCases
  <2>2. UNCHANGED <<transport, worker, posted, client>>
    BY <2>1 DEF EndRest
  <2>3. active' = IF active \in {Top.job} \intersect DOMAIN jobs THEN 0 ELSE active
    BY <2>1 DEF RemoveJobs
  <2>4. ContextsSame
    <3>1. \A n \in DOMAIN frames' : n \in DOMAIN frames /\ frames'[n] = frames[n]
      BY <1>1, <2>1, FrontOK DEF Pop
    <3> QED BY <3>1 DEF ContextsSame
  <2>5. CASE Top.job \notin DOMAIN jobs
    <3>1. ActiveSame /\ ContentSame
      BY <1>1, <2>1, <2>2, <2>3, <2>5 DEF ActiveSame, ContentSame, Placed
    <3> QED BY <1>1, <2>2, <2>4, <3>1, RepliesKept DEF Hears
  <2>6. CASE Top.job \in DOMAIN jobs
    <3>1. jobs[Top.job].phase = "delivering"
      BY <1>1, <2>1, <2>6 DEF Deliveries, HeldOK, Top
    <3>2. Top.job = active
      BY <2>6, <3>1, OverFacts
    <3>3. active' = 0
      BY <2>3, <2>6, <3>2
    <3> QED BY <3>3, RepliesOver
  <2> QED BY <2>5, <2>6
<1> QED BY <1>2, <1>3

\* receive goes on: a viewport is asked of the content its summary shows.
LEMMA SettleReplies ==
    ASSUME Flights, Flights', active # 0, Wire # 0, NEW m, Settle(active, m), UNCHANGED <<transport, worker>>, Hears,
           \A n \in DOMAIN frames' : ~(frames'[n].frame = "context" /\ frames'[n].job = active),
           m.code = "ok" => Shows(m.done)
    PROVE  Replies'
<1>1. JobTable(jobs) /\ Tables /\ Epochs /\ JobsLive
  BY DEF Flights, Tables, Places
<1>2. active \in DOMAIN jobs /\ IsJob(jobs[active])
  <2>1. active \in DOMAIN jobs
    BY <1>1, WireFacts
  <2> QED BY <1>1, <2>1 DEF JobTable
<1>3. /\ SettleRest
      /\ \E job : /\ SameJob(job, jobs[active])
                  /\ \/ \E result : SettleEnds(active, job, m, result)
                     \/ SettleRetries(active, job) \/ SettleViews(active, job, m)
  BY <1>2, SettleCases
<1>4. UNCHANGED active
  BY <1>3 DEF SettleRest
<1>5. PICK job : /\ SameJob(job, jobs[active])
                 /\ \/ \E result : SettleEnds(active, job, m, result)
                    \/ SettleRetries(active, job) \/ SettleViews(active, job, m)
  BY <1>3
<1>6. IsJob(job)
  BY <1>5 DEF SameJob
<1>7. ASSUME NEW result, SettleEnds(active, job, m, result) PROVE Replies'
  <2>1. Finishes(active, job, result)
    BY <1>7 DEF SettleEnds, Ends
  <2>2. PICK a : Puts(active, a) /\ a.phase = "delivering"
    BY <1>6, <2>1, FinishesReplaces
  <2>3. Changes(active, a)
    BY <1>1, <1>2, <2>2, PutsChanges
  <2> QED BY <1>4, <2>2, <2>3, RepliesOver DEF Changes
<1>8. ASSUME NEW b, IsJob(b), NEW op, NEW layout, Sends(active, b, op, layout),
             b.phase = "viewport" => /\ op = "cfg_viewport"
                                     /\ transport.process = "running" => b.summary.done = worker.done
      PROVE  Replies'
  <2>1. PICK a : /\ Puts(active, a) /\ Like(a, b, DispatchFields) /\ a.phase = b.phase
                 /\ a.wire = client'.nextRequest /\ a.wireOp = op
    BY <1>8, SendsReplaces
  <2>2. Changes(active, a)
    BY <1>1, <1>2, <2>1, PutsChanges
  <2>3. a.summary = b.summary
    BY <2>1 DEF Like, JobFields, DispatchFields
  <2>4. Wire' = client'.nextRequest /\ WireOp' = op /\ jobs'[active'] = a
    BY <1>4, <2>1, <2>2 DEF Wire, WireOp, Changes
  <2> DEFINE request == Order(active, b, op, layout)
  <2>5. client' = Request(client, request)
    BY <1>8 DEF Sends
  <2> HIDE DEF request
  <2>6. Views' => /\ WireOp' = "cfg_viewport"
                  /\ transport'.process = "running" => jobs'[active'].summary.done = worker'.done
    BY <1>8, <2>1, <2>3, <2>4 DEF Views
  <2> QED BY <1>4, <2>4, <2>5, <2>6, RepliesSent
<1>9. CASE SettleRetries(active, job)
  <2> DEFINE b == Retried(job)
  <2>1. IsJob(b) /\ b.phase = "summary"
    BY <1>6, RetriedLike
  <2>2. Sends(active, b, "cfg_summary", 0)
    BY <1>9 DEF SettleRetries
  <2> HIDE DEF b
  <2> QED BY <1>8, <2>1, <2>2
<1>10. CASE SettleViews(active, job, m)
  <2> DEFINE s == [layout |-> m.layout, revision |-> revision, done |-> m.done]
             b == Viewed(job, m)
  <2>1. IsJob(b) /\ b.summary = s
    BY <1>6, ViewportLike DEF Viewed
  <2>2. Sends(active, b, "cfg_viewport", m.layout) /\ m.code = "ok"
    BY <1>10 DEF SettleViews
  <2>3. s.done = m.done
    OBVIOUS
  <2>4. transport.process = "running" => m.done = worker.done
    BY <2>2 DEF Shows
  <2> HIDE DEF b, s
  <2> QED BY <1>8, <2>1, <2>2, <2>3, <2>4
<1> QED BY <1>5, <1>7, <1>9, <1>10

\* The return of contextChanged: no other handler waits for the job.
LEMMA ContextReplies == ASSUME Flights, Flights', Replies, ResumesReceive PROVE Replies'
<1>1. Wires /\ Places /\ Stack /\ IsSeq(frames)
  BY DEF Flights, Tables, Stack
<1>2. /\ ContextRest /\ frames # <<>> /\ Len(frames) \in DOMAIN frames
      /\ Top.frame = "context" /\ frames' = Pop
      /\ \/ Resumed
         \/ UNCHANGED <<table, context, session, cache, deferred, client>>
  BY <1>1, ContextCases
<1>3. UNCHANGED <<transport, posted, worker>> /\ Hears
  BY <1>2 DEF ContextRest, Hears
<1>4. \A n \in DOMAIN frames' : n \in DOMAIN frames /\ frames'[n] = frames[n] /\ n # Len(frames)
  <2>1. DOMAIN Front(frames) = DOMAIN frames \ {Len(frames)} /\ \A n \in DOMAIN Front(frames) : Front(frames)[n] = frames[n]
    BY <1>1, <1>2, FrontOK
  <2>2. frames' = Front(frames)
    BY <1>2 DEF Pop
  <2> QED BY <2>1, <2>2
<1>5. CASE Resumed
  <2> DEFINE m == Top.reply
  <2>1. active # 0 /\ active = Top.job /\ Settle(active, m)
    BY <1>5 DEF Resumed
  <2>2. Context(Len(frames))
    BY <1>2, <2>1 DEF Context, Top
  <2>3. Wire # 0 /\ \A n \in DOMAIN frames : Context(n) => n = Len(frames)
    BY <1>1, <1>2, <2>2 DEF Wires, Resuming
  <2>4. \A n \in DOMAIN frames' : ~(frames'[n].frame = "context" /\ frames'[n].job = active)
    BY <1>4, <2>1, <2>3 DEF Context
  <2>5. m.code = "ok" => Shows(m.done)
    BY <1>2, <2>2 DEF Replies, Top
  <2> HIDE DEF m
  <2> QED BY <1>3, <2>1, <2>3, <2>4, <2>5, SettleReplies
<1>6. CASE UNCHANGED <<table, context, session, cache, deferred, client>>
  <2>1. UNCHANGED <<jobs, active, client>>
    BY <1>6 DEF table
  <2> QED BY <1>3, <1>4, <2>1, IdleReplies DEF ContextsSame
<1> QED BY <1>2, <1>5, <1>6

\* A reply: while the views are told of a new context it waits, and nothing
\* changes the content before it goes on.
LEMMA ReplyReplies == ASSUME Flights, Flights', Replies, HearsReply PROVE Replies'
<1>1. JobTable(jobs) /\ Places /\ IsSeq(frames) /\ IsSeq(posted) /\ Wires
  BY DEF Flights, Tables, Places, Stack, Epochs, PostedOK
<1>2. UNCHANGED <<transport, worker>> /\ posted # <<>> /\ posted' = Tail(posted)
  BY ReceiveCases DEF ReceiveRest
<1>3. Hears
  BY <1>1, <1>2, DropsOK DEF Hears
<1>4. CASE ReceiveIgnored
  <2>1. UNCHANGED <<jobs, active, frames, client>>
    BY <1>4 DEF ReceiveIgnored, table
  <2> QED BY <1>2, <1>3, <2>1, IdleReplies DEF ContextsSame
<1>5. ASSUME ~ReceiveIgnored PROVE Replies'
  <2> DEFINE m == posted[1]
  <2>1. /\ active # 0 /\ Wire # 0 /\ active \in DOMAIN jobs /\ IsJob(jobs[active])
        /\ 1 \in DOMAIN posted /\ Final(1)
        /\ ReceiveFails \/ ReceiveMoves(m) \/ ReceiveOpens(m) \/ ReceiveSettles(m)
    BY <1>5, AwaitedReply
  <2>2. m.code = "ok" => Shows(m.done)
    BY <2>1 DEF Replies
  <2>3. \A n \in DOMAIN frames : ~(frames[n].frame = "context" /\ frames[n].job = active)
    BY <1>1, <2>1 DEF Wires, Resuming, Context
  <2>4. Drops(posted', posted) /\ \A n \in DOMAIN posted : Final(n) => n = 1
    BY <1>1, <1>2, <2>1, DropsOK DEF Wires, Flight
  <2> HIDE DEF m
  <2>5. CASE ReceiveFails
    <3>1. PICK code : Finishes(active, jobs[active], Error(code))
      BY <2>5 DEF ReceiveFails, Ends
    <3>2. UNCHANGED active
      BY <2>5 DEF ReceiveFails
    <3>3. PICK a : Puts(active, a) /\ a.phase = "delivering"
      BY <2>1, <3>1, FinishesReplaces
    <3>4. Changes(active, a)
      BY <1>1, <2>1, <3>3, PutsChanges
    <3> QED BY <3>2, <3>3, <3>4, RepliesOver DEF Changes
  <2>6. CASE ReceiveSettles(m)
    <3>1. Settle(active, m) /\ UNCHANGED frames
      BY <2>6 DEF ReceiveSettles
    <3> QED BY <1>2, <1>3, <2>1, <2>2, <2>3, <3>1, SettleReplies
  <2>7. ASSUME UNCHANGED client, ActiveSame, frames' = Append(frames, ContextFrame(active, m)) PROVE Replies'
    <3> DEFINE e == Len(frames) + 1
               fr == ContextFrame(active, m)
    <3>1. fr.frame = "context" /\ fr.reply = m /\ frames' = Append(frames, fr)
      BY <2>7 DEF ContextFrame
    <3> HIDE DEF fr
    <3>2. /\ DOMAIN frames' = DOMAIN frames \union {e} /\ frames'[e] = fr
          /\ \A n \in DOMAIN frames : frames'[n] = frames[n]
      BY <1>1, <3>1, AppendOK
    <3> HIDE DEF e
    <3>3. ContentSame
      BY <1>2 DEF ContentSame
    <3>4. /\ Wire' = Wire /\ (Views' <=> Views)
          /\ Views => WireOp' = WireOp /\ jobs'[active'].summary = jobs[active].summary
          /\ \A done : Shows(done) => Shows(done)'
      BY <2>7, <3>3, ActiveShown
    <3>5. \A n \in DOMAIN posted' : ~Final(n)'
      <4>1. ASSUME NEW n \in DOMAIN posted', Final(n)' PROVE FALSE
        <5>1. n \in Nat /\ n + 1 \in DOMAIN posted /\ posted'[n] = posted[n + 1] /\ n # 0
          BY <2>4, SeqType, <1>1 DEF Drops
        <5>2. Final(n + 1)
          BY <2>7, <3>4, <4>1, <5>1 DEF Final, About
        <5> QED BY <2>4, <5>1, <5>2
      <4> QED BY <4>1
    <3>6. ASSUME NEW n \in DOMAIN frames', Context(n)', frames'[n].reply.code = "ok" PROVE Shows(frames[n].reply.done)'
      <4>1. n = e
        BY <2>3, <2>7, <3>2, <3>6 DEF Context, ActiveSame
      <4>2. PICK x : x = m.done
        OBVIOUS
      <4>3. Shows(x) /\ frames'[n].reply = m
        BY <2>2, <3>1, <3>2, <3>6, <4>1, <4>2
      <4>4. Shows(x)'
        BY <3>4, <4>3
      <4> QED BY <4>2, <4>3, <4>4 DEF Shows
    <3>7. Views' => WireOp' = "cfg_viewport" /\ (transport'.process = "running" => jobs'[active'].summary.done = worker'.done)
      BY <3>3, <3>4 DEF Replies, ContentSame
    <3> QED BY <3>5, <3>6, <3>7 DEF Replies
  <2>8. CASE ReceiveMoves(m)
    <3>1. UNCHANGED <<jobs, active, client>> /\ frames' = Append(frames, ContextFrame(active, m))
      BY <2>8 DEF ReceiveMoves, table
    <3> QED BY <2>7, <3>1 DEF ActiveSame
  <2>9. CASE ReceiveOpens(m)
    <3>1. UNCHANGED client /\ Retire(active, "session_changed") /\ frames' = Append(frames, ContextFrame(active, m))
      BY <2>9 DEF ReceiveOpens
    <3>2. /\ DOMAIN jobs' = DOMAIN jobs \intersect {active}
          /\ \A j \in DOMAIN jobs' : Like(jobs'[j], jobs[j], {"epoch"})
      BY <1>1, <3>1, RetireJobs
    <3>3. active' = active
      BY <3>1 DEF Retire, RemoveJobs, Retired
    <3>4. \A j \in DOMAIN jobs' : /\ jobs'[j].wire = jobs[j].wire /\ jobs'[j].wireOp = jobs[j].wireOp
                                 /\ jobs'[j].phase = jobs[j].phase /\ jobs'[j].summary = jobs[j].summary
      BY <3>2 DEF Like, JobFields
    <3>5. ActiveSame
      BY <2>1, <3>2, <3>3, <3>4 DEF ActiveSame
    <3> QED BY <2>7, <3>1, <3>5
  <2> QED BY <2>1, <2>5, <2>6, <2>8, <2>9
<1> QED BY <1>4, <1>5

\* A session that ends, or begins, waits for nothing.
LEMMA LeaveReplies ==
    ASSUME Flights, Flights', Restart \/ OpenStartsWorker \/ HearsFatal \/ HearsStopped \/ HearsHello
    PROVE  Replies'
<1>1. Tables /\ Epochs /\ JobsLive /\ IsSeq(posted)
  BY DEF Flights, Epochs, PostedOK
<1>2. CASE Restart \/ HearsFatal \/ HearsStopped
  <2>1. SetUnavailable
    BY <1>2 DEF Restart, HearsFatal, HearsStopped
  <2>2. active' = 0
    BY <1>1, <2>1, UnavailableJobs
  <2> QED BY <2>2, RepliesOver
<1>3. CASE OpenStartsWorker
  <2>1. UNCHANGED active /\ ~available
    BY <1>3 DEF OpenStartsWorker, table
  <2>2. active = 0
    BY <1>1, <2>1, WireFacts
  <2> QED BY <2>1, <2>2, RepliesOver
<1>4. CASE HearsHello
  <2>1. UNCHANGED active /\ NextPosted("hello") /\ Head(posted).epoch = client.epoch
    BY <1>4 DEF HearsHello, Current, SetAvailable, table
  <2>2. Drops(posted', posted) /\ posted[1].type = "hello" /\ Head(posted) = posted[1]
    BY <1>1, <2>1, HearOK
  <2>3. ~available
    BY <1>1, <2>1, <2>2 DEF Epochs, Life, Hello, Drops
  <2>4. active = 0
    BY <1>1, <2>3, WireFacts
  <2> QED BY <2>1, <2>4, RepliesOver
<1> QED BY <1>2, <1>3, <1>4

\* The transport tells of requests it cannot pass on, and of cancels.
LEMMA TransportReplies == ASSUME Flights, Replies, Transport PROVE Replies'
<1>1. /\ Tables /\ Epochs /\ Wires /\ Ids /\ IsClient(client) /\ IsWorker(worker) /\ Elsewhere /\ IsSeq(posted)
      /\ TransportOK
  BY ElsewhereOnly DEF Flights, Epochs, ClientOK, Wires, WorkerOK, PostedOK
<1>2. Away
  BY <1>1 DEF Away, Elsewhere, serviceVars, table, session
<1>3. ActiveSame /\ ContextsSame
  BY <1>2 DEF Away, ActiveSame, ContextsSame
<1>4. ASSUME NEW name, NextCall(name) PROVE client'.epoch = client.epoch
  BY <1>1, <1>4, NextCallOK
<1>5. CASE Starts \/ Stops
  <2>1. (TransportStart \/ TransportStop) /\ UNCHANGED posted /\ client'.epoch = client.epoch
    BY <1>4, <1>5 DEF Starts, Stops, TransportStart, TransportStop
  <2>2. transport'.process # "running"
    BY <1>1, <2>1 DEF TransportStart, TransportStop, TransportOK
  <2>3. ContentSame
    BY <2>2 DEF ContentSame
  <2> QED BY <1>1, <1>3, <2>1, <2>3, RepliesKept DEF Hears
<1>6. ASSUME NextCall("send") PROVE /\ Head(client.calls) = client.calls[1] /\ client.calls[1].call = "send"
                                    /\ 1 \in DOMAIN client.calls
  BY <1>1, <1>6, TakeSend
<1>7. CASE Refuses \/ Fills
  <2> DEFINE call == Head(client.calls)
  <2>1. PICK code \in {"transport_unavailable", "queue_full"} :
           NextCall("send") /\ UNCHANGED <<transport, worker>> /\ Post(Unsent(call.id, code))
    BY <1>7 DEF Refuses, Fills, TransportUnavailable, TransportFull
  <2> DEFINE m == Unsent(call.id, code)
  <2>2. m.code # "ok" /\ Post(m)
    BY <2>1 DEF Unsent
  <2> HIDE DEF m
  <2>3. ContentSame /\ client'.epoch = client.epoch
    BY <1>4, <2>1 DEF ContentSame
  <2> QED BY <1>2, <2>2, <2>3, RepliesPosted
<1>8. CASE WorkerReads
  <2> DEFINE call == client.calls[1]
  <2>1. NextCall("send") /\ UNCHANGED transport /\ Head(client.calls) = call /\ call.call = "send"
        /\ 1 \in DOMAIN client.calls
    BY <1>6, <1>8 DEF WorkerReads, TransportWrite
  <2>2. CASE call.request.op = "cancel"
    <3> DEFINE m == Reply(worker, call.id, "cancel", "ok")
               r == worker.recalled \/ worker.request.id = call.request.target
    <3>1. worker' = [worker EXCEPT !.recalled = r] /\ Post(m)
      BY <1>8, <2>1, <2>2 DEF WorkerReads
    <3>2. m.id = call.id
      BY DEF Reply
    <3>3. call.id # Wire
      BY <1>1, <2>1, <2>2 DEF Ids, Real
    <3> HIDE DEF m, r
    <3>4. ContentSame /\ client'.epoch = client.epoch
      BY <1>1, <1>4, <2>1, <3>1 DEF ContentSame, IsWorker, WorkerFields
    <3> QED BY <1>2, <3>1, <3>2, <3>3, <3>4, RepliesPosted
  <2>3. CASE call.request.op # "cancel"
    <3> DEFINE r == Extended(call.request, "id", call.id)
    <3>1. worker' = [worker EXCEPT !.request = r] /\ UNCHANGED posted
      BY <1>8, <2>1, <2>3 DEF WorkerReads
    <3> HIDE DEF r
    <3>2. ContentSame /\ client'.epoch = client.epoch
      BY <1>1, <1>4, <2>1, <3>1 DEF ContentSame, IsWorker, WorkerFields
    <3> QED BY <1>1, <1>3, <3>1, <3>2, RepliesKept DEF Hears
  <2> QED BY <2>2, <2>3
<1> QED BY <1>5, <1>7, <1>8 DEF Transport

\* A request for a viewport changes no content, however it ends.
LEMMA ViewportDone ==
    ASSUME NEW w, IsWorker(w), w.request.op = "cfg_viewport", NEW o \in Outcomes(w)
    PROVE  o[1].done = w.done
<1>1. Analyzed(w).done = w.done
  BY DEF Analyzed, IsWorker, WorkerFields
<1>2. o \in {<<w, "stale_revision">>, <<w, "failed">>, <<Analyzed(w), "failed">>, <<w, "ok">>, <<w, "stale_layout">>}
  BY DEF Outcomes
<1> QED BY <1>1, <1>2

\* The answer shows the content the worker has after it.
LEMMA AnswerReplies ==
    ASSUME Flights, Replies, Away, UNCHANGED <<client, transport>>, Busy, NEW m, Post(m), m.done = worker'.done,
           Views => worker'.done = worker.done
    PROVE  Replies'
<1>1. /\ Epochs /\ Wires /\ ~NoRequest /\ IsSeq(posted) /\ transport.process = "running"
  BY DEF Flights, Epochs, PostedOK, Wires, WorkerOK, NoRequest
<1>2. (\A n \in DOMAIN posted : ~Final(n)) /\ (\A n \in DOMAIN frames : ~Context(n))
  BY <1>1 DEF Wires, Flight, Resuming
<1>3. Posted(m) /\ ActiveSame
  BY <1>1, PostOK DEF Away, ActiveSame
<1>4. Views' <=> Views
  BY DEF Away, Views, Wire
<1>5. \A n \in DOMAIN posted' : Final(n)' => posted'[n] = m
  BY <1>2, <1>3, PostedSame
<1>6. Shows(m.done)'
  BY <1>1, <1>4 DEF Shows, Replies, Away
<1>7. \A n \in DOMAIN frames' : ~Context(n)'
  BY <1>2, AwaySame DEF Away
<1>8. Views' => WireOp' = "cfg_viewport" /\ (transport'.process = "running" => jobs'[active'].summary.done = worker'.done)
  BY <1>1, <1>4 DEF Away, Replies, WireOp
<1>9. ASSUME NEW n \in DOMAIN posted', Final(n)' PROVE Shows(posted[n].done)'
  BY <1>5, <1>6, <1>9 DEF Shows
<1> QED BY <1>7, <1>8, <1>9 DEF Replies

\* The worker's steps.
LEMMA ProcessReplies == ASSUME Flights, Flights', Replies, Process \/ UNCHANGED vars PROVE Replies'
<1>1. Tables /\ Epochs /\ JobsLive /\ Wires /\ WorkerOK /\ IsWorker(worker) /\ TransportOK /\ IsSeq(posted)
  BY DEF Flights, Epochs, Wires, WorkerOK, PostedOK
<1>2. UNCHANGED client
  BY DEF Process, SaysHello, SaysFatal, Exits, ProcessStarted, ProcessExits, WorkerAnswers,
         WorkerProgress, WorkerDiscovers, WorkerBeats, vars, clientVars
<1>3. Away
  <2>1. Elsewhere
    BY ElsewhereOnly DEF Elsewhere, vars
  <2> QED BY <2>1 DEF Away, Elsewhere, serviceVars, table, session
<1>4. ActiveSame /\ ContextsSame
  BY <1>3 DEF Away, ActiveSame, ContextsSame
<1>5. CASE SaysHello \/ SaysFatal
  <2>1. transport.process = "starting"
    BY <1>5 DEF SaysHello, SaysFatal, ProcessStarted
  <2>2. ~available
    BY <1>1, <2>1 DEF Epochs, Life, AvailableIsCurrent
  <2>3. active = 0
    BY <1>1, <2>2, WireFacts
  <2> QED BY <1>3, <2>3, RepliesOver DEF Away
<1>6. CASE Exits
  <2>1. transport' = [transport EXCEPT !.process = "none"] /\ Post(Stopped)
    BY <1>6 DEF Exits, ProcessExits
  <2>2. ContentSame
    BY <1>1, <2>1 DEF ContentSame, TransportOK
  <2> DEFINE m == Stopped
  <2>3. m.type # "response" /\ Post(m)
    BY <2>1 DEF Stopped
  <2>4. PICK x : x = m
    OBVIOUS
  <2> HIDE DEF m
  <2>5. x.type # "response" /\ Post(x)
    BY <2>3, <2>4
  <2> QED BY <1>2, <1>3, <2>2, <2>5, RepliesPosted
<1>7. CASE WorkerAnswers
  <2>1. UNCHANGED transport /\ Busy
    BY <1>7 DEF WorkerAnswers, Busy
  <2>2. PICK outcome \in Outcomes(worker) \union {<<worker, "cancelled">>} :
           /\ worker' = [outcome[1] EXCEPT !.request = Idle, !.recalled = FALSE]
           /\ \E code : Post(Reply(outcome[1], worker.request.id, worker.request.op, code))
    BY <1>7 DEF WorkerAnswers
  <2>3. PICK code : Post(Reply(outcome[1], worker.request.id, worker.request.op, code))
    BY <2>2
  <2> DEFINE w == outcome[1]
             m == Reply(w, worker.request.id, worker.request.op, code)
  <2>4. IsWorker(w)
    BY <1>1, <2>2, OutcomeWorker
  <2>5. Post(m) /\ m.done = w.done
    BY <2>3 DEF Reply
  <2>6. worker' = [w EXCEPT !.request = Idle, !.recalled = FALSE]
    BY <2>2
  <2>7. Views => w.done = worker.done
    <3>1. SUFFICES ASSUME Views PROVE w.done = worker.done
      OBVIOUS
    <3>2. WireOp = "cfg_viewport" /\ Wire # 0
      BY <3>1 DEF Replies, Views
    <3>3. available
      BY <1>1, <3>2, WireFacts
    <3>4. worker.request.op = "cfg_viewport"
      BY <1>1, <2>1, <3>2, <3>3 DEF Wires, Flight
    <3>5. CASE outcome \in Outcomes(worker)
      BY <1>1, <3>4, <3>5, ViewportDone
    <3>6. CASE outcome = <<worker, "cancelled">>
      BY <3>6
    <3> QED BY <2>2, <3>5, <3>6
  <2>8. PICK x : x = m
    OBVIOUS
  <2>9. Post(x) /\ x.done = w.done
    BY <2>5, <2>8
  <2> HIDE DEF m, w
  <2>10. worker'.done = w.done
    BY <2>4, <2>6 DEF IsWorker, WorkerFields
  <2> QED BY <1>2, <1>3, <2>1, <2>7, <2>9, <2>10, AnswerReplies
<1>8. CASE WorkerProgress
  <2>1. UNCHANGED <<transport, worker>> /\ Post(Reply(worker, worker.request.id, "open", "progress"))
    BY <1>8 DEF WorkerProgress
  <2>2. PICK x : x = Reply(worker, worker.request.id, "open", "progress")
    OBVIOUS
  <2>3. Post(x) /\ x.code # "ok"
    BY <2>1, <2>2 DEF Reply
  <2>4. ContentSame
    BY <2>1 DEF ContentSame
  <2> QED BY <1>2, <1>3, <2>3, <2>4, RepliesPosted
<1>9. CASE WorkerDiscovers
  <2>1. UNCHANGED <<transport, posted>>
    BY <1>9 DEF WorkerDiscovers, clientVars
  <2>2. PICK graph : worker' = [worker EXCEPT !.gen = @ + 1, !.graph = graph]
    BY <1>9 DEF WorkerDiscovers
  <2>3. ContentSame
    BY <1>1, <2>1, <2>2 DEF ContentSame, IsWorker, WorkerFields
  <2> QED BY <1>1, <1>2, <1>4, <2>1, <2>3, RepliesKept DEF Hears
<1>10. CASE WorkerBeats
  <2>1. UNCHANGED <<transport, worker>>
    BY <1>10 DEF WorkerBeats
  <2>2. PICK gen : Post([type |-> "heartbeat", epoch |-> transport.epoch,
                         of |-> <<worker.project, worker.revision>>, gen |-> gen])
    BY <1>10 DEF WorkerBeats
  <2>3. PICK x : x = [type |-> "heartbeat", epoch |-> transport.epoch,
                      of |-> <<worker.project, worker.revision>>, gen |-> gen]
    OBVIOUS
  <2>4. Post(x) /\ x.type # "response"
    BY <2>2, <2>3
  <2>5. ContentSame
    BY <2>1 DEF ContentSame
  <2> QED BY <1>2, <1>3, <2>4, <2>5, RepliesPosted
<1>11. CASE UNCHANGED vars
  <2>1. UNCHANGED <<transport, worker, posted>>
    BY <1>11 DEF vars, clientVars
  <2>2. ContentSame
    BY <2>1 DEF ContentSame
  <2> QED BY <1>1, <1>2, <1>4, <2>1, <2>2, RepliesKept DEF Hears
<1> QED BY <1>5, <1>6, <1>7, <1>8, <1>9, <1>10, <1>11 DEF Process

\* Every step keeps the replies.
LEMMA RepliesStep == ASSUME Flights, Flights', Replies, [Next]_vars PROVE Replies'
<1>1. CASE Users
  BY <1>1, UserReplies, LeaveReplies DEF Users
<1>2. CASE EventLoop
  BY <1>2, PumpReplies, QuietReplies, DeliverReplies, ContextReplies, TellReplies, LeaveReplies,
     ReplyReplies DEF EventLoop
<1> QED BY <1>1, <1>2, TransportReplies, ProcessReplies DEF Next

\* Every step keeps what the jobs and the deliveries hold.
LEMMA GraphStep == ASSUME Flights, GraphTables, Replies, [Next]_vars PROVE GraphTables'
<1>0. ASSUME UNCHANGED <<asked, jobs, frames>> PROVE GraphTables'
  BY <1>0, GraphTablesSame
<1>1. CASE Restart \/ HearsFatal \/ HearsStopped
  <2>1. SetUnavailable /\ UNCHANGED <<asked, frames>>
    BY <1>1 DEF Restart, HearsFatal, HearsStopped, WorkerGone, ghosts
  <2> QED BY <2>1, UnavailableGraph
<1>2. CASE OpenStartsWorker \/ Unheard \/ HearsHello \/ HearsHeartbeat
  BY <1>0, <1>2 DEF OpenStartsWorker, Unheard, HearsHello, HearsHeartbeat, SetAvailable, WorkerGone,
     table, serviceVars, ghosts
<1>3. CASE Announces \/ Rejects \/ TellsRetired
  BY <1>0, <1>3 DEF Announces, AnalysisCompleted, Rejects, RejectLater, TellsRetired, Standalone,
     table
<1>4. CASE Users
  BY <1>1, <1>2, <1>4, AskGraph, DetachGraph DEF Users
<1>5. CASE EventLoop
  BY <1>1, <1>2, <1>3, <1>5, PumpGraph, DeliverGraph, TellGraph, ContextGraph, ReplyGraph
     DEF EventLoop
<1>6. CASE (Transport \/ Process) \/ UNCHANGED vars
  BY <1>0, <1>6, ElsewhereOnly DEF Elsewhere, vars, serviceVars, table, ghosts
<1> QED BY <1>4, <1>5, <1>6 DEF Next
-----------------------------------------------------------------------------
(* What was told last.                                                     *)

\* The tasks that tell an error.
Errors(D) == {t \in D : t.task \in {"reject", "standalone"}}

\* Nobody is told.
LEMMA NoticesSame ==
    ASSUME Notices, UNCHANGED last, \A i \in DOMAIN asked : i \in DOMAIN asked' /\ asked'[i] = asked[i],
           \A t \in Errors(deferred') : t \in deferred \/ t.code # "ok"
    PROVE  Notices'
<1>1. \A t \in deferred' : t.task \in {"reject", "standalone"} => t.code # "ok"
  BY DEF Notices, Errors
<1>2. last'.code = "ok" => last'.ask \in DOMAIN asked'
  BY DEF Notices
<1>3. last.code = "ok" => asked'[last'.ask] = asked[last.ask]
  BY DEF Notices
<1>4. GraphIsOneSnapshot'
  BY <1>3 DEF Notices, GraphIsOneSnapshot
<1> QED BY <1>1, <1>2, <1>4 DEF Notices

\* One is told, an error or what may be shown.
LEMMA NoticesTold ==
    ASSUME Notices, UNCHANGED asked, NEW i, NEW result, Complete(i, result),
           deferred' \subseteq deferred,
           \/ IsResult(result) /\ result.code # "ok"
           \/ i \in DOMAIN asked /\ (asked[i].query.kind = "graph" => Shown(result, asked[i].query))
    PROVE  Notices'
<1>1. Extends(last', result, "ask", i)
  BY ExtendedOK DEF Complete
<1>2. last'.ask = i
  BY <1>1 DEF Extends
<1>3. IsResult(result) => /\ last'.code = result.code /\ last'.layout = result.layout
                          /\ last'.summary = result.summary /\ last'.revision = result.revision
                          /\ last'.done = result.done
  <2>1. IsResult(result) => DOMAIN result = ResultFields
    BY DEF IsResult
  <2> QED BY <1>1, <2>1 DEF Extends, ResultFields
<1>4. \A t \in deferred' : t.task \in {"reject", "standalone"} => t.code # "ok"
  BY DEF Notices
<1>5. last'.code = "ok" => last'.ask \in DOMAIN asked'
  BY <1>2, <1>3
<1>6. GraphIsOneSnapshot'
  BY <1>2, <1>3 DEF GraphIsOneSnapshot, Shown, Whole
<1> QED BY <1>4, <1>5, <1>6 DEF Notices

\* What steps add to the event loop tells no error.
LEMMA NoErrors ==
    /\ Errors({Pumping}) = {} /\ \A j : Errors({Deliver(j)}) = {}
    /\ \A job : Errors(AfterDelivery(job)) = {}
<1>1. Errors({Pumping}) = {} /\ \A j : Errors({Deliver(j)}) = {}
  BY DEF Pumping, Deliver, Errors
<1>2. \A job : Errors(AfterDelivery(job)) = {}
  BY DEF AfterDelivery, Announcement, Pumping, Errors
<1> QED BY <1>1, <1>2

\* A step that adds only such tasks.
LEMMA NoticesQuiet ==
    ASSUME Notices, UNCHANGED <<last, asked>>, NEW S, Errors(S) = {}, deferred' \subseteq deferred \union S
    PROVE  Notices'
<1>1. \A t \in Errors(deferred') : t \in deferred
  BY DEF Errors
<1> QED BY <1>1, NoticesSame

\* Asking: a refusal names what was wrong.
LEMMA AskNotices == ASSUME Flights, Notices, Asks PROVE Notices'
<1>0. Tables
  BY DEF Flights
<1>1. PICK query \in Query, owner \in Owner :
          /\ AskRest(query, owner)
          /\ \/ AskRefused(Len(asked) + 1, query, owner)
             \/ \E j \in DOMAIN jobs : AskJoins(Len(asked) + 1, query, owner, j)
             \/ AskMakes(Len(asked) + 1, query, owner)
  BY <1>0, AskCases
<1>2. IsSeq(asked)
  BY <1>0 DEF Tables, Stack
<1>3. \A i \in DOMAIN asked : i \in DOMAIN asked' /\ asked'[i] = asked[i]
  BY <1>1, <1>2, AskNumber
<1>4. UNCHANGED last
  BY <1>1 DEF AskRest, told
<1> DEFINE ask == Len(asked) + 1
<1> HIDE DEF ask
<1>5. CASE AskRefused(ask, query, owner)
  <2> DEFINE r == [task |-> "reject", ask |-> ask, owner |-> owner, epoch |-> epoch, code |-> Refusal(query)]
  <2>1. deferred' = deferred \union {r}
    BY <1>5 DEF AskRefused
  <2>2. r.code # "ok"
    BY DEF Refusal
  <2> HIDE DEF r
  <2> QED BY <1>3, <1>4, <2>1, <2>2, NoticesSame DEF Errors
<1>6. CASE deferred' = deferred \union {Pumping}
  <2>1. \A t \in Errors(deferred') : t \in deferred
    BY <1>6, NoErrors DEF Errors
  <2> QED BY <1>3, <1>4, <2>1, NoticesSame
<1>7. (\E j \in DOMAIN jobs : AskJoins(ask, query, owner, j)) \/ AskMakes(ask, query, owner) =>
         deferred' = deferred \union {Pumping}
  BY DEF AskJoins, AskMakes
<1> QED BY <1>1, <1>5, <1>6, <1>7 DEF ask

\* Withdrawing.
LEMMA DetachNotices == ASSUME Notices, Withdraws PROVE Notices'
<1>1. PICK ids \in SUBSET DOMAIN subscriptions : Detached(ids)
  BY DetachCases
<1>2. UNCHANGED <<last, asked>> /\ deferred' \subseteq deferred \union {Pumping}
  BY <1>1 DEF Detached, told
<1> QED BY <1>2, NoErrors, NoticesQuiet

\* Retiring tells errors later.
LEMMA RetireNotices ==
    ASSUME Notices, NEW keep, NEW code, code # "ok", Retire(keep, code), UNCHANGED <<last, asked>>
    PROVE  Notices'
<1>1. \A t \in Errors(deferred') : t \in deferred \/ t.code # "ok"
  <2>1. \A t \in deferred' : t \in deferred \/ \E i : t = [task |-> "standalone", ask |-> i, code |-> code]
    BY DEF Retire
  <2>2. \A i : [task |-> "standalone", ask |-> i, code |-> code].code # "ok"
    OBVIOUS
  <2> QED BY <2>1, <2>2 DEF Errors
<1> QED BY <1>1, NoticesSame

\* So does setAvailable(false).
LEMMA UnavailableNotices ==
    ASSUME Notices, SetUnavailable, UNCHANGED <<last, asked>>
    PROVE  Notices'
<1>1. CASE available
  BY <1>1, RetireNotices DEF SetUnavailable
<1>2. CASE ~available
  <2>1. UNCHANGED deferred
    BY <1>2 DEF SetUnavailable
  <2> QED BY <2>1, NoticesSame DEF Errors
<1> QED BY <1>1, <1>2

\* Running a job and replies tell nobody.
LEMMA RunNotices ==
    ASSUME Flights, Notices, Pumps \/ Delivers \/ EndsDelivery \/ ResumesReceive \/ HearsReply
    PROVE  Notices'
<1>0. Places /\ Stack /\ IsSeq(queue)
  BY DEF Flights, Tables, Places, Placed
<1>1. ASSUME UNCHANGED <<last, asked>>, NEW j, deferred' \subseteq deferred \union {Deliver(j)}
      PROVE  Notices'
  BY <1>1, NoErrors, NoticesQuiet
<1>2. ASSUME NEW j, NEW m, IsJob(jobs[j]), Settle(j, m), UNCHANGED <<last, asked>> PROVE Notices'
  <2>1. PICK job : \/ \E result : SettleEnds(j, job, m, result)
                   \/ SettleRetries(j, job) \/ SettleViews(j, job, m)
    BY <1>2, SettleCases
  <2>2. deferred' \subseteq deferred \union {Deliver(j)}
    BY <2>1 DEF SettleEnds, Ends, SettleRetries, SettleViews
  <2> QED BY <1>1, <1>2, <2>2
<1>3. CASE Pumps
  <2>1. /\ PumpRest
        /\ \/ PumpIdles
           \/ \E k \in DOMAIN queue : PumpTakes(k) /\ \E result : PumpEnds(queue[k], result)
           \/ \E k \in DOMAIN queue : PumpTakes(k) /\ PumpRuns(queue[k])
    BY <1>0, <1>3, PumpCases
  <2>2. UNCHANGED <<last, asked>>
    BY <2>1 DEF PumpRest, ghosts, told
  <2>3. PICK j : deferred' \subseteq deferred \union {Deliver(j)}
    BY <2>1 DEF PumpIdles, PumpTakes, PumpEnds, PumpRuns, table
  <2> QED BY <1>1, <2>2, <2>3
<1>4. CASE Delivers
  <2>1. PICK t \in deferred : DeliverLate(t) \/ DeliverAgain(t) \/ DeliverStarts(t)
    BY <1>4, DeliverCases
  <2>2. UNCHANGED <<last, asked>>
    BY <1>4, DeliverCases DEF DeliverRest, ghosts, told
  <2>3. deferred' \subseteq deferred \union {Pumping}
    BY <2>1 DEF DeliverLate, DeliverAgain, DeliverStarts, table
  <2> QED BY <2>2, <2>3, NoErrors, NoticesQuiet
<1>5. CASE EndsDelivery
  <2>1. EndRest /\ deferred' = deferred \union AfterDelivery(Top.work)
    BY <1>0, <1>5, EndCases
  <2>2. UNCHANGED <<last, asked>>
    BY <2>1 DEF EndRest, ghosts, told
  <2> QED BY <2>1, <2>2, NoErrors, NoticesQuiet
<1>6. CASE ResumesReceive
  <2>1. UNCHANGED <<last, asked>>
    BY <1>0, <1>6, ContextCases DEF ContextRest, ghosts, told
  <2>2. Resumed \/ UNCHANGED <<table, context, session, cache, deferred, client>>
    BY <1>0, <1>6, ContextCases
  <2>3. CASE Resumed
    <3>1. IsJob(jobs[active]) /\ Settle(active, Top.reply)
      BY <1>0, <2>3 DEF Resumed, Places, JobTable
    <3> QED BY <1>2, <2>1, <3>1
  <2>4. CASE UNCHANGED <<table, context, session, cache, deferred, client>>
    BY <1>1, <2>1, <2>4
  <2> QED BY <2>2, <2>3, <2>4
<1>7. CASE HearsReply
  <2> DEFINE m == Head(posted)
  <2> HIDE DEF m
  <2>1. UNCHANGED <<last, asked>>
    BY <1>7, ReceiveCases DEF ReceiveRest, ghosts, told
  <2>2. \/ ReceiveIgnored
        \/ /\ Awaited(m)
           /\ ReceiveFails \/ ReceiveMoves(m) \/ ReceiveOpens(m) \/ ReceiveSettles(m)
    BY <1>7, ReceiveCases DEF m
  <2>3. CASE ReceiveIgnored \/ ReceiveFails \/ ReceiveMoves(m)
    <3>1. deferred' \subseteq deferred \union {Deliver(active)}
      BY <2>3 DEF ReceiveIgnored, ReceiveFails, ReceiveMoves, Ends, table
    <3> QED BY <1>1, <2>1, <3>1
  <2>4. CASE ReceiveOpens(m)
    <3>1. Retire(active, "session_changed")
      BY <2>4 DEF ReceiveOpens
    <3> QED BY <2>1, <3>1, RetireNotices
  <2>5. CASE Awaited(m) /\ ReceiveSettles(m)
    <3>1. IsJob(jobs[active]) /\ Settle(active, m)
      BY <1>0, <2>5 DEF Awaited, ReceiveSettles, Places, Placed, JobTable
    <3> QED BY <1>2, <2>1, <3>1
  <2> QED BY <2>2, <2>3, <2>4, <2>5
<1> QED BY <1>3, <1>4, <1>5, <1>6, <1>7

\* A delivery tells one of its own what it holds.
LEMMA TellNotices == ASSUME Flights, GraphTables, Notices, TellsNext PROVE Notices'
<1>0. Stack /\ IsSeq(asked)
  BY DEF Flights, Tables, Stack
<1> DEFINE i == Next1
           r == Top.work.result
<1>1. /\ IF Mine /\ subscriptions[i].epoch = epoch THEN Complete(i, r) ELSE UNCHANGED told
      /\ UNCHANGED <<deferred, asked>>
      /\ Len(frames) \in DOMAIN frames /\ Top.frame = "deliver" /\ Top.ids # {}
  BY <1>0, TellCases DEF TellRest, Mine
<1>2. GraphFrame(Top, asked)
  BY <1>1 DEF GraphTables, Top
<1>3. i \in Top.ids
  <2>1. Top.ids \subseteq DOMAIN asked
    BY <1>2 DEF GraphFrame
  <2>2. DOMAIN asked \subseteq Nat
    <3>1. DOMAIN asked = 1..Len(asked)
      BY <1>0, SeqType
    <3> QED BY <3>1
  <2>3. Top.ids \in SUBSET Nat
    BY <2>1, <2>2
  <2> QED BY <1>1, <2>3, MinProperties DEF Next1
<1>4. i \in DOMAIN asked /\ (asked[i].query.kind = "graph" => Shown(r, asked[i].query))
  <2>1. i \in DOMAIN asked /\ SameGraph(asked[i].query, Top.work.query)
    BY <1>2, <1>3 DEF GraphFrame
  <2>2. Top.work.query.kind = "graph" => Shown(r, Top.work.query)
    BY <1>1, <1>2 DEF GraphFrame
  <2> QED BY <2>1, <2>2 DEF SameGraph, Shown, Whole
<1> HIDE DEF i, r
<1>5. CASE Complete(i, r)
  BY <1>1, <1>4, <1>5, NoticesTold
<1>6. CASE UNCHANGED told
  BY <1>1, <1>6, NoticesSame DEF told, Errors
<1> QED BY <1>1, <1>5, <1>6

\* A refusal and a retirement tell an error.
LEMMA ErrorNotices == ASSUME Notices, Rejects \/ TellsRetired PROVE Notices'
<1>0. ASSUME NEW i, NEW code, code # "ok", Complete(i, Error(code)), UNCHANGED asked,
             deferred' \subseteq deferred
      PROVE  Notices'
  <2> DEFINE r == Error(code)
  <2>1. IsResult(r) /\ r.code # "ok"
    BY <1>0, ErrorShown
  <2>2. Complete(i, r)
    BY <1>0
  <2> HIDE DEF r
  <2> QED BY <1>0, <2>1, <2>2, NoticesTold
<1>1. CASE Rejects
  <2>1. PICK t \in deferred : RejectLater(t)
    BY <1>1 DEF Rejects
  <2> DEFINE code == IF epoch # t.epoch THEN "session_changed" ELSE t.code
  <2>2. /\ t.task = "reject" /\ deferred' \subseteq deferred /\ UNCHANGED asked
        /\ Complete(t.ask, Error(code)) \/ UNCHANGED told
    BY <2>1 DEF RejectLater
  <2>3. code # "ok"
    BY <2>2 DEF Notices
  <2> HIDE DEF code
  <2>4. CASE UNCHANGED told
    BY <2>2, <2>4, NoticesSame DEF told, Errors
  <2> QED BY <1>0, <2>2, <2>3, <2>4
<1>2. CASE TellsRetired
  <2>1. PICK t \in deferred : Standalone(t)
    BY <1>2 DEF TellsRetired
  <2>2. /\ t.task = "standalone" /\ deferred' \subseteq deferred /\ UNCHANGED asked
        /\ Complete(t.ask, Error(t.code)) \/ UNCHANGED told
    BY <2>1 DEF Standalone
  <2>3. t.code # "ok"
    BY <2>2 DEF Notices
  <2>4. CASE UNCHANGED told
    BY <2>2, <2>4, NoticesSame DEF told, Errors
  <2> QED BY <1>0, <2>2, <2>3, <2>4
<1> QED BY <1>1, <1>2

\* Every step keeps the notices.
LEMMA NoticesStep == ASSUME Flights, GraphTables, Notices, [Next]_vars PROVE Notices'
<1>0. ASSUME UNCHANGED <<last, asked>>, deferred' \subseteq deferred \union {Pumping} PROVE Notices'
  BY <1>0, NoErrors, NoticesQuiet
<1>1. CASE Restart \/ HearsFatal \/ HearsStopped
  <2>1. SetUnavailable /\ UNCHANGED <<last, asked>>
    BY <1>1 DEF Restart, HearsFatal, HearsStopped, WorkerGone, ghosts, told
  <2> QED BY <2>1, UnavailableNotices
<1>2. CASE OpenStartsWorker \/ Unheard \/ HearsHello \/ HearsHeartbeat
  BY <1>0, <1>2 DEF OpenStartsWorker, Unheard, HearsHello, HearsHeartbeat, SetAvailable, WorkerGone,
     serviceVars, ghosts, told
<1>3. CASE Announces
  BY <1>0, <1>3 DEF Announces, AnalysisCompleted, told
<1>4. CASE Users
  BY <1>1, <1>2, <1>4, AskNotices, DetachNotices DEF Users
<1>5. CASE EventLoop
  BY <1>1, <1>2, <1>3, <1>5, RunNotices, TellNotices, ErrorNotices DEF EventLoop
<1>6. CASE (Transport \/ Process) \/ UNCHANGED vars
  BY <1>0, <1>6, ElsewhereOnly DEF Elsewhere, vars, serviceVars, ghosts, told
<1> QED BY <1>4, <1>5, <1>6 DEF Next

\* At first there is no job, and the last answer was none or the open's.
LEMMA SnapshotsInit == ASSUME Init \/ OpenedInit PROVE Snapshots
<1>1. Flights
  BY TablesInit, EpochsInit, RequestsInit DEF Flights
<1>2. jobs = <<>> /\ frames = <<>> /\ posted = <<>> /\ deferred = {} /\ active = 0
  BY DEF Init, ServiceInit, OpenedInit
<1>3. DOMAIN jobs = {} /\ DOMAIN frames = {} /\ DOMAIN posted = {}
  BY <1>2, EmptySeqOK
<1>4. GraphTables
  BY <1>3 DEF GraphTables
<1>5. Replies
  BY <1>2, <1>3 DEF Replies, Views, Wire
<1>6. last.code = "ok" => last.ask \in DOMAIN asked /\ asked[last.ask].query.kind # "graph"
  <2>1. CASE Init
    <3>1. last = Extended(Nothing, "ask", 0)
      BY <2>1 DEF Init, ServiceInit
    <3>2. last.code = ""
      BY <3>1 DEF Extended, Nothing
    <3> QED BY <3>2
  <2>2. CASE OpenedInit
    <3>1. PICK r : last = Extended(r, "ask", 1)
      BY <2>2 DEF OpenedInit
    <3>2. last.ask = 1
      <4>1. Extends(Extended(r, "ask", 1), r, "ask", 1)
        BY ExtendedOK
      <4> QED BY <3>1, <4>1 DEF Extends
    <3>3. PICK x : asked = <<x>> /\ x.query.kind = "command"
      BY <2>2 DEF OpenedInit
    <3>4. 1 \in DOMAIN asked /\ asked[1] = x
      BY <3>3
    <3> QED BY <3>2, <3>3, <3>4
  <2> QED BY <2>1, <2>2
<1>7. Notices
  BY <1>2, <1>6 DEF Notices, GraphIsOneSnapshot
<1> QED BY <1>1, <1>4, <1>5, <1>7 DEF Snapshots

\* Every step keeps them all.
LEMMA SnapshotsStep == ASSUME Snapshots, [Next]_vars PROVE Snapshots'
<1>1. Flights /\ GraphTables /\ Replies /\ Notices
  BY DEF Snapshots
<1>2. Flights'
  BY <1>1, FlightsStep
<1>3. GraphTables' /\ Replies' /\ Notices'
  BY <1>1, <1>2, GraphStep, RepliesStep, NoticesStep
<1> QED BY <1>2, <1>3 DEF Snapshots

\* A graph that is told is one snapshot: its viewport has the layout, the
\* revision and the content of its summary, whatever edits, discoveries,
\* withdrawals, restarts and retries come between the two requests, and
\* whoever joined it asked for the same layout.
THEOREM GraphsAreOneSnapshot == Spec \/ OpenedSpec => []GraphIsOneSnapshot
<1>1. Init \/ OpenedInit => Snapshots
  BY SnapshotsInit
<1>2. Snapshots /\ [Next]_vars => Snapshots'
  BY SnapshotsStep
<1>3. Snapshots => GraphIsOneSnapshot
  BY DEF Snapshots, Notices
<1> QED BY <1>1, <1>2, <1>3, PTL DEF Spec, OpenedSpec
-----------------------------------------------------------------------------
(* Commands.                                                               *)

\* The requests that change the worker, as the worker tells them.
CommandOps == {"open", "edit", "section", "save"}

\* Job a comes before job b: they keep their order unless both are reads.
InOrder(J, a, b) == a < b \/ (J[a].query.kind # "command" /\ J[b].query.kind # "command")

\* The active job comes before the queue, and the queue is in order.
Lined(J, Q, A) ==
    /\ \A m, n \in DOMAIN Q : m < n => InOrder(J, Q[m], Q[n])
    /\ A # 0 => \A n \in DOMAIN Q : InOrder(J, A, Q[n])

\* A project with a revision of it that the worker has, or had before it went
\* on to another revision.
Had(t, w, p, r) ==
    r \in Nat /\ (t.process = "running" => r <= w.revision /\ (r = w.revision => p = w.project))

\* A command the worker ran was meant for it.
Home(c, A, t, w) ==
    /\ c \in DOMAIN A /\ A[c].query.kind = "command" /\ A[c].process = t.epoch
    /\ A[c].query.op # "open" => A[c].project = w.project
DoneOK ==
    /\ worker.revision \in Nat /\ (worker.revision = 0 => worker.project = 0)
    /\ IsSeq(worker.done)
    /\ \A m, n \in DOMAIN worker.done : m < n => worker.done[m] < worker.done[n]
    /\ \A n \in DOMAIN worker.done : Home(worker.done[n], asked, transport, worker)

\* The same of a request, at the worker or on its way: if it is a command that
\* the worker will accept, its project is the worker's.
Bound(q, A, t, w) ==
    /\ {"op", "job", "expected"} \subseteq DOMAIN q
    /\ q.job \in DOMAIN A /\ A[q.job].process = t.epoch
    /\ \A n \in DOMAIN w.done : w.done[n] < q.job
    /\ q.op \in CommandOps => A[q.job].query.op = q.op /\ A[q.job].query.kind = "command"
    /\ q.op \in CommandOps \ {"open"} => Had(t, w, A[q.job].project, q.expected)
Early(k) == \A m, n \in DOMAIN k : m < n /\ Real(k[n]) => ~Boundary(k[m])
Named ==
    Wire # 0 => /\ \A n \in DOMAIN client.calls :
                      Real(client.calls[n]) /\ client.calls[n].id = Wire =>
                          client.calls[n].request.job = active
                /\ Busy /\ worker.request.id = Wire => worker.request.job = active
Sending ==
    /\ Early(client.calls) /\ (transport.process = "starting" => NoReal(client.calls))
    /\ Busy => Bound(worker.request, asked, transport, worker)
    /\ \A n \in DOMAIN client.calls :
          Real(client.calls[n]) => Bound(client.calls[n].request, asked, transport, worker)

\* A job is what was asked for, of the process and the project at hand.
Meant(job, a, e, p) ==
    /\ job.query.op = a.query.op /\ job.query.kind = a.query.kind
    /\ job.query.op \in CommandOps => job.query.kind = "command"
    /\ a.process = e
    /\ job.query.kind = "command" /\ job.query.op # "open" => a.project = p
AtHome == \A j \in DOMAIN jobs : Meant(jobs[j], asked[j], client.epoch, project)
Wired ==
    Wire # 0 => jobs[active].wireProject = project \/ \E n \in DOMAIN frames : Context(n)

\* The service knows no revision that the worker has not had.
Known ==
    /\ Had(transport, worker, project, revision) /\ (~available => project = 0 /\ revision = 0)
    /\ \A n \in DOMAIN posted : Final(n) /\ Contextual(posted[n]) =>
          Had(transport, worker, posted[n].project, posted[n].revision)

\* What the worker ran was asked for before every job but the active one.
Ahead(D, J, A) == \A n \in DOMAIN D : \A j \in DOMAIN J : D[n] < j \/ (D[n] = j /\ j = A)

Homes ==
    /\ DoneOK /\ Sending /\ Named /\ Lined(jobs, queue, active) /\ AtHome /\ Wired /\ Known
    /\ Ahead(worker.done, jobs, active)

\* Jobs that stay keep their order.
LEMMA LinedFewer ==
    ASSUME NEW J, NEW Q, NEW A, Lined(J, Q, A), NEW K \in SUBSET DOMAIN Q, NEW R, Selects(R, Q, K),
           NEW I, NEW B, B = A \/ B = 0,
           \A k \in K : I[Q[k]].query.kind = J[Q[k]].query.kind,
           B # 0 => I[A].query.kind = J[A].query.kind
    PROVE  Lined(I, R, B)
<1>1. PICK h : Selection(h, R, Q, K)
  BY DEF Selects
<1>2. \A n \in DOMAIN R : h[n] \in K /\ h[n] \in DOMAIN Q /\ R[n] = Q[h[n]]
  BY <1>1 DEF Selection
<1>3. \A m, n \in DOMAIN R : m < n => InOrder(I, R[m], R[n])
  <2>1. SUFFICES ASSUME NEW m \in DOMAIN R, NEW n \in DOMAIN R, m < n PROVE InOrder(I, R[m], R[n])
    OBVIOUS
  <2>2. h[m] < h[n]
    BY <1>1, <2>1 DEF Selection
  <2>3. InOrder(J, Q[h[m]], Q[h[n]])
    BY <1>2, <2>2 DEF Lined
  <2> QED BY <1>2, <2>3 DEF InOrder
<1>4. B # 0 => \A n \in DOMAIN R : InOrder(I, B, R[n])
  <2>1. SUFFICES ASSUME B # 0, NEW n \in DOMAIN R PROVE InOrder(I, B, R[n])
    OBVIOUS
  <2>2. InOrder(J, A, Q[h[n]]) /\ B = A
    BY <1>2, <2>1 DEF Lined
  <2> QED BY <1>2, <2>1, <2>2 DEF InOrder
<1> QED BY <1>3, <1>4 DEF Lined

\* The same jobs in the same places.
LEMMA LinedSame ==
    ASSUME NEW J, NEW Q, NEW A, Lined(J, Q, A), NEW I, Members(Q) \subseteq DOMAIN I, A \in DOMAIN I \union {0},
           \A j \in DOMAIN I : I[j].query.kind = J[j].query.kind
    PROVE  Lined(I, Q, A)
<1>1. \A n \in DOMAIN Q : Q[n] \in DOMAIN I
  BY DEF Members
<1> QED BY <1>1 DEF Lined, InOrder

\* pump takes the head, or a read that only reads precede.
LEMMA ChosenFirst ==
    ASSUME IsSeq(queue), queue # <<>>
    PROVE  \A m \in DOMAIN queue : m < Chosen => Kind(queue[m]) # "command" /\ Kind(queue[Chosen]) # "command"
<1> DEFINE visible == {n \in DOMAIN queue : /\ jobs[queue[n]].query.visible
                                            /\ \A m \in 1..n : Kind(queue[m]) # "command"}
<1>1. DOMAIN queue = 1..Len(queue) /\ Len(queue) \in Nat
  BY SeqType
<1>2. Chosen = IF visible = {} THEN 1 ELSE Min(visible)
  BY DEF Chosen
<1>3. visible \in SUBSET Nat
  BY <1>1
<1>4. CASE visible = {}
  <2>1. Chosen = 1
    BY <1>2, <1>4
  <2> QED BY <1>1, <2>1
<1>5. CASE visible # {}
  <2>1. Min(visible) \in visible
    BY <1>3, <1>5, MinProperties
  <2>2. Chosen \in visible
    BY <1>2, <1>5, <2>1
  <2>3. Chosen \in 1..Len(queue) /\ \A m \in 1..Chosen : Kind(queue[m]) # "command"
    BY <1>1, <2>2
  <2> HIDE DEF visible
  <2> QED BY <1>1, <2>3
<1> QED BY <1>4, <1>5

\* What pump takes, and that it sends nothing that is stale already.
LEMMA PumpChosen ==
    ASSUME Pumps, queue # <<>>, active = 0, available
    PROVE  /\ active' = queue[Chosen] /\ queue' = RemoveAt(queue, Chosen)
           /\ jobs[queue[Chosen]].query.exact \notin {0, revision} => UNCHANGED client
  BY DEF Pumps, Pump, Finished

\* The job pump takes comes before those it leaves.
LEMMA TakeLined ==
    ASSUME NEW J, NEW Q, IsSeq(Q), Lined(J, Q, 0), NEW k \in DOMAIN Q, NEW I,
           \A n \in DOMAIN Q : I[Q[n]].query.kind = J[Q[n]].query.kind,
           \A m \in DOMAIN Q : m < k => J[Q[m]].query.kind # "command" /\ J[Q[k]].query.kind # "command"
    PROVE  Lined(I, RemoveAt(Q, k), Q[k])
<1>1. Selects(RemoveAt(Q, k), Q, DOMAIN Q \ {k})
  BY RemoveAtOK
<1>2. Lined(I, RemoveAt(Q, k), 0)
  BY <1>1, LinedFewer
<1>3. PICK h : Selection(h, RemoveAt(Q, k), Q, DOMAIN Q \ {k})
  BY <1>1 DEF Selects
<1>4. \A n \in DOMAIN Q : n \in Nat
  BY SeqType
<1>5. ASSUME NEW n \in DOMAIN RemoveAt(Q, k) PROVE InOrder(I, Q[k], RemoveAt(Q, k)[n])
  <2>1. h[n] \in DOMAIN Q /\ h[n] # k /\ RemoveAt(Q, k)[n] = Q[h[n]]
    BY <1>3 DEF Selection
  <2>2. CASE h[n] < k
    BY <2>1, <2>2 DEF InOrder
  <2>3. CASE k < h[n]
    <3>1. InOrder(J, Q[k], Q[h[n]])
      BY <2>1, <2>3 DEF Lined
    <3> QED BY <2>1, <3>1 DEF InOrder
  <2>4. h[n] \in Nat /\ k \in Nat
    BY <1>4, <2>1
  <2> QED BY <2>1, <2>2, <2>3, <2>4
<1> QED BY <1>2, <1>5 DEF Lined

\* The calls of s, and after them some that ask nothing of the worker.
Grows(k, s) ==
    /\ \A n \in DOMAIN s : n \in DOMAIN k /\ k[n] = s[n]
    /\ \A n \in DOMAIN k : n \notin DOMAIN s => ~Real(k[n])
    /\ \A m \in DOMAIN k, n \in DOMAIN s : m < n => m \in DOMAIN s
More(B, A) == \A i \in DOMAIN A : i \in DOMAIN B /\ B[i] = A[i]
SameQuery(a, b) == a.query.op = b.query.op /\ a.query.kind = b.query.kind
Stays == \A j \in DOMAIN jobs' : j \in DOMAIN jobs /\ SameQuery(jobs'[j], jobs[j])
\* The active job waits for what it did, or for nothing.
WaitsOn ==
    \/ Wire' = 0
    \/ /\ Wire' = Wire /\ active' = active /\ jobs'[active].wireProject = jobs[active].wireProject
       /\ \A n \in DOMAIN frames : Context(n) => n \in DOMAIN frames' /\ Context(n)'

\* One more.
LEMMA GrowsOne ==
    ASSUME NEW s, IsSeq(s), NEW k, NEW c, Adds(k, s, c), ~Real(c) PROVE Grows(k, s)
<1>1. DOMAIN s = 1..Len(s) /\ Len(s) \in Nat
  BY SeqType
<1>2. DOMAIN k = DOMAIN s \union {Len(s) + 1}
  BY DEF Adds
<1>3. \A n \in DOMAIN k : n \notin DOMAIN s => ~Real(k[n])
  BY <1>2 DEF Adds
<1>4. \A m \in DOMAIN k, n \in DOMAIN s : m < n => m \in DOMAIN s
  BY <1>1, <1>2
<1>5. \A n \in DOMAIN s : n \in DOMAIN k /\ k[n] = s[n]
  BY <1>2 DEF Adds
<1> QED BY <1>3, <1>4, <1>5 DEF Grows

\* And another.
LEMMA GrowsTwice == ASSUME NEW s, NEW k, NEW h, Grows(k, s), Grows(h, k) PROVE Grows(h, s)
  BY DEF Grows

\* A request is not a boundary, nor a cancel a request.
LEMMA CallKinds ==
    /\ \A c, request : /\ SendOf(c, request).call = "send" /\ SendOf(c, request).request = request
                       /\ SendOf(c, request).id = c.nextRequest + 1
                       /\ ~Boundary(SendOf(c, request))
                       /\ (Real(SendOf(c, request)) <=> request.op # "cancel")
    /\ \A c : ~Real(StartOf(c)) /\ ~Real(StopCall)
  BY DEF SendOf, StartOf, StopCall, Real, Boundary

\* What the service recalls.
LEMMA RecallGrows ==
    ASSUME IsClient(client), Recalls
    PROVE  client'.epoch = client.epoch /\ Grows(client'.calls, client.calls)
<1>1. IsSeq(client.calls)
  BY DEF IsClient
<1>2. CASE UNCHANGED client
  BY <1>2 DEF Grows
<1>3. ASSUME NEW request, request.op = "cancel", client' = Request(client, request)
      PROVE  client'.epoch = client.epoch /\ Grows(client'.calls, client.calls)
  <2>1. Posts(client', client, SendOf(client, request)) /\ client'.epoch = client.epoch
    BY <1>3, RequestOK
  <2>2. ~Real(SendOf(client, request))
    BY <1>3, CallKinds
  <2>3. Adds(client'.calls, client.calls, SendOf(client, request))
    BY <2>1 DEF Posts
  <2> QED BY <1>1, <2>1, <2>2, <2>3, GrowsOne
<1> QED BY <1>2, <1>3 DEF Recalls

\* What a client that leaves a session posts.
LEMMA BoundaryGrows ==
    ASSUME NEW c, IsClient(c), NEW d, d = Start(c) \/ d = Stop(c)
    PROVE  IsClient(d) /\ Grows(d.calls, c.calls)
<1>1. IsSeq(c.calls)
  BY DEF IsClient
<1>2. CASE d = Start(c)
  <2>1. Posts(d, c, StartOf(c))
    BY <1>2, StartOK
  <2> QED BY <1>1, <2>1, CallKinds, GrowsOne DEF Posts
<1>3. CASE d = Stop(c)
  <2>1. Posts(d, c, StopCall)
    BY <1>3, StopOK
  <2> QED BY <1>1, <2>1, CallKinds, GrowsOne DEF Posts
<1> QED BY <1>2, <1>3

\* A request is as it was when more is asked.
LEMMA BoundMore ==
    ASSUME NEW A, NEW B, More(B, A), NEW t, NEW w, NEW q, Bound(q, A, t, w)
    PROVE  Bound(q, B, t, w)
<1>1. q.job \in DOMAIN A /\ q.job \in DOMAIN B /\ B[q.job] = A[q.job]
  BY DEF Bound, More
<1> QED BY <1>1 DEF Bound

\* The worker is left alone.
LEMMA DoneKept ==
    ASSUME DoneOK, UNCHANGED <<worker, transport>>, More(asked', asked)
    PROVE  DoneOK'
<1>1. \A n \in DOMAIN worker.done : Home(worker.done[n], asked', transport, worker)
  BY DEF DoneOK, Home, More
<1> QED BY <1>1 DEF DoneOK

\* So are the requests.
LEMMA SendingKept ==
    ASSUME Sending, UNCHANGED <<worker, transport>>, More(asked', asked), Grows(client'.calls, client.calls)
    PROVE  Sending'
<1> DEFINE k == client'.calls
           s == client.calls
<1>1. \A n \in DOMAIN k : Real(k[n]) => n \in DOMAIN s /\ k[n] = s[n] /\ Real(s[n])
  BY DEF Grows
<1>2. Early(k)
  <2>1. \A m, n \in DOMAIN k : m < n /\ n \in DOMAIN s => m \in DOMAIN s /\ k[m] = s[m]
    BY DEF Grows
  <2>2. Early(s)
    BY DEF Sending
  <2> HIDE DEF k, s
  <2> QED BY <1>1, <2>1, <2>2 DEF Early
<1>3. transport.process = "starting" => NoReal(k)
  BY <1>1 DEF Sending, NoReal
<1>4. Busy => Bound(worker.request, asked', transport, worker)
  BY BoundMore DEF Sending
<1>5. \A n \in DOMAIN k : Real(k[n]) => Bound(k[n].request, asked', transport, worker)
  <2>1. \A n \in DOMAIN s : Real(s[n]) => Bound(s[n].request, asked, transport, worker)
    BY DEF Sending
  <2> HIDE DEF k, s
  <2> QED BY <1>1, <2>1, BoundMore
<1>6. Busy' = Busy
  BY DEF Busy
<1> QED BY <1>2, <1>3, <1>4, <1>5, <1>6 DEF Sending

\* So is whose they are.
LEMMA NamedKept ==
    ASSUME Named, UNCHANGED worker, Grows(client'.calls, client.calls),
           Wire' = 0 \/ (Wire' = Wire /\ active' = active)
    PROVE  Named'
<1> DEFINE k == client'.calls
           s == client.calls
<1>1. \A n \in DOMAIN k : Real(k[n]) => n \in DOMAIN s /\ k[n] = s[n] /\ Real(s[n])
  BY DEF Grows
<1>2. CASE Wire' = 0
  BY <1>2 DEF Named
<1>3. CASE Wire' # 0
  <2>1. Wire' = Wire /\ active' = active /\ Wire # 0 /\ Busy' = Busy
    BY <1>3 DEF Busy
  <2>2. \A n \in DOMAIN s : Real(s[n]) /\ s[n].id = Wire => s[n].request.job = active
    BY <2>1 DEF Named
  <2>3. \A n \in DOMAIN k : Real(k[n]) /\ k[n].id = Wire => k[n].request.job = active
    BY <1>1, <2>2
  <2>4. Busy /\ worker.request.id = Wire => worker.request.job = active
    BY <2>1 DEF Named
  <2> HIDE DEF k, s
  <2> QED BY <2>1, <2>3, <2>4 DEF Named, k
<1> QED BY <1>2, <1>3

\* The jobs are as they were.
LEMMA AtHomeKept ==
    ASSUME AtHome, DOMAIN jobs \subseteq DOMAIN asked, Stays, More(asked', asked),
           client'.epoch = client.epoch, UNCHANGED project
    PROVE  AtHome'
<1>1. SUFFICES ASSUME NEW j \in DOMAIN jobs' PROVE Meant(jobs'[j], asked'[j], client'.epoch, project')
  BY DEF AtHome
<1>2. j \in DOMAIN jobs /\ SameQuery(jobs'[j], jobs[j]) /\ asked'[j] = asked[j]
  BY DEF Stays, More
<1>3. Meant(jobs[j], asked[j], client.epoch, project)
  BY <1>2 DEF AtHome
<1> QED BY <1>2, <1>3 DEF Meant, SameQuery

\* So is what the active job waits for.
LEMMA WiredKept ==
    ASSUME Wired, WaitsOn, UNCHANGED project
    PROVE  Wired'
<1>1. CASE Wire' = 0
  BY <1>1 DEF Wired
<1>2. CASE Wire' # 0
  <2>1. /\ Wire' = Wire /\ active' = active /\ jobs'[active].wireProject = jobs[active].wireProject /\ Wire # 0
        /\ \A n \in DOMAIN frames : Context(n) => n \in DOMAIN frames' /\ Context(n)'
    BY <1>2 DEF WaitsOn
  <2>2. jobs[active].wireProject = project \/ \E n \in DOMAIN frames : Context(n)
    BY <2>1 DEF Wired
  <2>3. jobs'[active'].wireProject = project' \/ \E n \in DOMAIN frames' : Context(n)'
    BY <2>1, <2>2
  <2> QED BY <2>3 DEF Wired
<1> QED BY <1>1, <1>2

\* No message about the active job comes.
LEMMA KnownKept ==
    ASSUME Known, IsSeq(posted), UNCHANGED <<worker, transport, project, revision>>, ~available' => ~available,
           client'.epoch = client.epoch, Hears, Wire' = 0 \/ Wire' = Wire
    PROVE  Known'
<1>1. ASSUME NEW n \in DOMAIN posted', Final(n)', Contextual(posted'[n])
      PROVE  Had(transport, worker, posted'[n].project, posted'[n].revision)
  <2>1. PICK d : Heard(d)
    BY HeardOK
  <2>2. Wire' = Wire /\ About(n)'
    BY <1>1 DEF Final, About
  <2>3. n + d \in DOMAIN posted /\ Final(n + d) /\ posted'[n] = posted[n + d]
    BY <1>1, <2>1, <2>2, HeardSame
  <2> QED BY <1>1, <2>3 DEF Known
<1>2. \A n \in DOMAIN posted' : Final(n)' /\ Contextual(posted'[n]) =>
          Had(transport', worker', posted'[n].project, posted'[n].revision)
  BY <1>1
<1>3. \A n : Contextual(posted[n])' <=> Contextual(posted'[n])
  BY DEF Contextual
<1>4. Had(transport', worker', project', revision') /\ (~available' => project' = 0 /\ revision' = 0)
  BY DEF Known
<1> QED BY <1>2, <1>3, <1>4 DEF Known

\* Fewer jobs, and no command among them becomes inactive.
LEMMA AheadFewer ==
    ASSUME NEW D, NEW J, NEW A, Ahead(D, J, A), NEW I, DOMAIN I \subseteq DOMAIN J, NEW B,
           B = A \/ A \notin DOMAIN I \/ \A n \in DOMAIN D : D[n] # A
    PROVE  Ahead(D, I, B)
  BY DEF Ahead

\* A step of the service that sends no request and leaves the context alone.
LEMMA HomesKept ==
    ASSUME Flights, Homes, UNCHANGED <<worker, transport, project, revision, asked>>, ~available' => ~available,
           Recalls, Hears, Stays, WaitsOn, Lined(jobs', queue', active'), Ahead(worker.done, jobs', active')
    PROVE  Homes'
<1>1. IsClient(client) /\ IsSeq(posted) /\ DOMAIN jobs \subseteq DOMAIN asked
  BY DEF Flights, Tables, Places, Epochs, ClientOK, PostedOK
<1>2. client'.epoch = client.epoch /\ Grows(client'.calls, client.calls)
  BY <1>1, RecallGrows
<1>3. More(asked', asked)
  BY DEF More
<1>4. Wire' = 0 \/ (Wire' = Wire /\ active' = active)
  BY DEF WaitsOn
<1>5. DoneOK'
  BY <1>3, DoneKept DEF Homes
<1>6. Sending' /\ Named'
  BY <1>2, <1>3, <1>4, SendingKept, NamedKept DEF Homes
<1>7. AtHome' /\ Wired'
  BY <1>1, <1>2, <1>3, AtHomeKept, WiredKept DEF Homes
<1>8. Known'
  BY <1>1, <1>2, <1>4, KnownKept DEF Homes
<1> QED BY <1>5, <1>6, <1>7, <1>8 DEF Homes

\* A job that changes in other fields asks for the same.
LEMMA LikeQuery ==
    ASSUME NEW a, NEW b, NEW F, Like(a, b, F), "query" \notin F
    PROVE  a.query = b.query /\ SameQuery(a, b)
<1>1. a.query = b.query
  BY DEF Like, JobFields
<1> QED BY <1>1 DEF SameQuery

\* One job changes, and asks for what it did.
LEMMA ChangesStay ==
    ASSUME NEW j, NEW a, Changes(j, a), SameQuery(a, jobs[j])
    PROVE  Stays /\ \A i \in DOMAIN jobs' : jobs'[i].query.kind = jobs[i].query.kind
<1>1. \A i \in DOMAIN jobs' : i \in DOMAIN jobs /\ SameQuery(jobs'[i], jobs[i])
  BY DEF Changes, SameQuery
<1> QED BY <1>1 DEF Stays, SameQuery

\* The queue and the active job are where they were.
LEMMA PlacedLined ==
    ASSUME Lined(jobs, queue, active), Placed(jobs, queue, active), UNCHANGED <<queue, active>>, DOMAIN jobs' = DOMAIN jobs, Stays
    PROVE  Lined(jobs', queue', active')
<1>1. Members(queue) \subseteq DOMAIN jobs' /\ active \in DOMAIN jobs' \union {0}
  BY DEF Placed
<1>2. \A j \in DOMAIN jobs' : jobs'[j].query.kind = jobs[j].query.kind
  BY DEF Stays, SameQuery
<1> DEFINE I == jobs'
<1>3. Lined(I, queue, active)
  <2>1. Members(queue) \subseteq DOMAIN I /\ active \in DOMAIN I \union {0} /\ \A j \in DOMAIN I : I[j].query.kind = jobs[j].query.kind
    BY <1>1, <1>2
  <2> HIDE DEF I
  <2> QED BY <2>1, LinedSame
<1> QED BY <1>3

\* Steps that leave the jobs and the client alone.
LEMMA IdleHomes ==
    ASSUME Flights, Homes,
           UNCHANGED <<worker, transport, project, revision, asked, jobs, queue, active, client>>,
           ~available' => ~available, Hears,
           \A n \in DOMAIN frames : frames[n].frame = "context" =>
              n \in DOMAIN frames' /\ frames'[n].frame = "context" /\ frames'[n].job = frames[n].job
    PROVE  Homes'
<1>1. Stays
  BY DEF Stays, SameQuery
<1>2. WaitsOn
  BY DEF WaitsOn, Wire, Context
<1>3. Lined(jobs', queue', active') /\ Ahead(worker.done, jobs', active')
  BY DEF Homes
<1> QED BY <1>1, <1>2, <1>3, HomesKept DEF Recalls

\* They are these.
LEMMA QuietHomes ==
    ASSUME Flights, Homes, Rejects \/ Announces \/ TellsRetired \/ Unheard \/ HearsHeartbeat \/ HearsHello
    PROVE  Homes'
<1>1. IsSeq(posted)
  BY DEF Flights, Epochs, PostedOK
<1>2. UNCHANGED <<worker, transport, project, revision, asked, jobs, queue, active, client, frames>> /\ (~available' => ~available)
  <2>1. CASE Rejects
    BY <2>1 DEF Rejects, RejectLater, Aside, table, context, session, sessionVars
  <2>2. CASE Announces
    BY <2>2 DEF Announces, AnalysisCompleted, Aside, table, context, session, sessionVars
  <2>3. CASE TellsRetired
    BY <2>3 DEF TellsRetired, Standalone, Aside, context, session, sessionVars
  <2>4. CASE Unheard
    BY <2>4 DEF Unheard, serviceVars, table, context, session, ghosts
  <2>5. CASE HearsHeartbeat
    BY <2>5 DEF HearsHeartbeat, table, context, session, ghosts
  <2>6. CASE HearsHello
    BY <2>6 DEF HearsHello, SetAvailable, WorkerGone, table, context, ghosts
  <2> QED BY <2>1, <2>2, <2>3, <2>4, <2>5, <2>6
<1>3. Hears
  <2>1. CASE Rejects \/ Announces \/ TellsRetired
    BY <2>1 DEF Rejects, Announces, TellsRetired, Aside, Hears
  <2>2. CASE Unheard
    BY <1>1, <2>2, DropsOK DEF Unheard, Hears
  <2>3. CASE HearsHeartbeat
    BY <1>1, <2>3, HearOK DEF HearsHeartbeat, Hears
  <2>4. CASE HearsHello
    BY <1>1, <2>4, HearOK DEF HearsHello, Hears
  <2> QED BY <2>1, <2>2, <2>3, <2>4
<1> QED BY <1>2, <1>3, IdleHomes

\* Withdrawing.
LEMMA DetachHomes == ASSUME Flights, Homes, Withdraws PROVE Homes'
<1>1. PICK ids \in SUBSET DOMAIN subscriptions : Detached(ids)
  BY DetachCases
<1>2. Places /\ JobTable(jobs) /\ Placed(jobs, queue, active) /\ IsSeq(queue)
  BY DEF Flights, Tables, Places, Placed
<1>3. /\ DOMAIN jobs' = DOMAIN jobs \ Gone(ids)
      /\ \A j \in DOMAIN jobs' : Like(jobs'[j], jobs[j], {"subscribers", "cancelRequested"})
  BY <1>1, <1>2, DetachedJobs
<1>4. active \notin Gone(ids) /\ (active # 0 => active \in DOMAIN jobs')
  <2>1. active \notin Gone(ids)
    BY <1>2 DEF Gone, Emptied, GoesAtOnce, Placed, JobTable
  <2> QED BY <1>2, <1>3, <2>1 DEF Placed
<1>5. UNCHANGED <<worker, transport, project, revision, available, asked, frames, posted, active>>
  BY <1>1, <1>4 DEF Detached, Withdraws, session, context
<1>6. \A j \in DOMAIN jobs' : /\ j \in DOMAIN jobs /\ SameQuery(jobs'[j], jobs[j])
                              /\ jobs'[j].wireProject = jobs[j].wireProject /\ jobs'[j].wire = jobs[j].wire
  <2>1. \A j \in DOMAIN jobs' : SameQuery(jobs'[j], jobs[j])
    BY <1>3, LikeQuery
  <2>2. \A j \in DOMAIN jobs' : jobs'[j].wireProject = jobs[j].wireProject /\ jobs'[j].wire = jobs[j].wire
    BY <1>3 DEF Like, JobFields
  <2> QED BY <1>3, <2>1, <2>2
<1>7. Stays
  BY <1>6 DEF Stays
<1>8. WaitsOn
  BY <1>4, <1>5, <1>6 DEF WaitsOn, Wire, Context
<1>9. Recalls
  <2>1. client' = client \/ client' = Request(client, CancelOf(active))
    BY <1>1, <1>2, DetachClient
  <2>2. CancelOf(active).op = "cancel"
    BY DEF CancelOf
  <2> QED BY <2>1, <2>2 DEF Recalls
<1>10. Lined(jobs', queue', active')
  <2> DEFINE K == {n \in DOMAIN queue : queue[n] \notin Gone(ids)}
             I == jobs'
  <2>1. Selects(queue', queue, K)
    BY <1>1, <1>2, UnqueuedOK DEF Detached
  <2>2. \A k \in K : queue[k] \in DOMAIN I
    BY <1>2, <1>3 DEF Placed, Members
  <2>3. \A k \in K : I[queue[k]].query.kind = jobs[queue[k]].query.kind
    BY <1>6, <2>2 DEF SameQuery
  <2>4. active # 0 => I[active].query.kind = jobs[active].query.kind
    BY <1>4, <1>6 DEF SameQuery
  <2>5. Lined(jobs, queue, active) /\ K \in SUBSET DOMAIN queue
    BY DEF Homes
  <2> DEFINE R == queue'
  <2> HIDE DEF K, I, R
  <2>6. Selects(R, queue, K)
    BY <2>1 DEF R
  <2>7. Lined(I, R, active)
    BY <2>3, <2>4, <2>5, <2>6, LinedFewer
  <2> QED BY <1>5, <2>7 DEF I, R
<1>11. Ahead(worker.done, jobs', active')
  <2>1. Ahead(worker.done, jobs, active)
    BY DEF Homes
  <2>2. \A j \in DOMAIN jobs' : j \in DOMAIN jobs
    BY <1>3
  <2> QED BY <1>5, <2>1, <2>2 DEF Ahead
<1> QED BY <1>5, <1>7, <1>8, <1>9, <1>10, <1>11, HomesKept DEF Hears

\* The active job changes, and waits for nothing.
LEMMA OverHomes ==
    ASSUME Flights, Homes, active # 0, NEW a, Changes(active, a), SameQuery(a, jobs[active]), a.wire = 0,
           UNCHANGED <<queue, active, worker, transport, project, revision, asked, client, available>>, Hears
    PROVE  Homes'
<1>1. Stays /\ DOMAIN jobs' = DOMAIN jobs
  BY ChangesStay DEF Changes
<1>2. WaitsOn
  BY DEF WaitsOn, Wire, Changes
<1>3. Placed(jobs, queue, active) /\ Lined(jobs, queue, active)
  BY DEF Flights, Tables, Places, Homes
<1>4. Lined(jobs', queue', active')
  BY <1>1, <1>3, PlacedLined
<1>5. Ahead(worker.done, jobs', active')
  BY <1>1 DEF Homes, Ahead
<1> QED BY <1>1, <1>2, <1>4, <1>5, HomesKept DEF Recalls

\* A subscriber is told.
LEMMA TellHomes == ASSUME Flights, Homes, TellsNext PROVE Homes'
<1>1. Stack /\ IsSeq(frames)
  BY DEF Flights, Tables, Stack
<1> DEFINE fr == DeliverFrame(Top.job, Top.ids \ {Next1}, Top.work)
<1>2. /\ TellRest /\ Len(frames) \in DOMAIN frames /\ Top.frame = "deliver"
      /\ frames' = [frames EXCEPT ![Len(frames)] = fr]
  BY <1>1, TellCases
<1> HIDE DEF fr
<1>3. DOMAIN frames' = DOMAIN frames /\ \A n \in DOMAIN frames : n # Len(frames) => frames'[n] = frames[n]
  BY <1>1, <1>2, ReplaceAtOK
<1>4. \A n \in DOMAIN frames : frames[n].frame = "context" => n # Len(frames)
  BY <1>2 DEF Top
<1>5. /\ UNCHANGED <<worker, transport, project, revision, asked, jobs, queue, active, client, available, posted>>
  BY <1>2 DEF TellRest, context, session
<1> QED BY <1>3, <1>4, <1>5, IdleHomes DEF Hears

\* A delivery ends, and the active job with it if it is the one.
LEMMA EndHomes == ASSUME Flights, Homes, EndsDelivery PROVE Homes'
<1>1. /\ Stack /\ IsSeq(frames) /\ Placed(jobs, queue, active) /\ JobTable(jobs) /\ IsSeq(queue)
  BY DEF Flights, Tables, Places, Stack, Placed
<1>2. /\ EndRest /\ Len(frames) \in DOMAIN frames /\ Top.frame = "deliver" /\ frames # <<>> /\ frames' = Pop
      /\ DOMAIN jobs' = DOMAIN jobs \ {Top.job} /\ \A j \in DOMAIN jobs' : jobs'[j] = jobs[j]
      /\ RemoveJobs({Top.job} \intersect DOMAIN jobs)
  BY <1>1, EndCases
<1>3. UNCHANGED <<worker, transport, project, revision, asked, client, available, posted>>
  BY <1>2 DEF EndRest, context, session, ghosts
<1> DEFINE S == {Top.job} \intersect DOMAIN jobs
<1>4. queue' = Unqueued(queue, S) /\ active' = IF active \in S THEN 0 ELSE active
  BY <1>2 DEF RemoveJobs
<1>5. S # {} => active \in S
  <2>1. SUFFICES ASSUME Top.job \in DOMAIN jobs PROVE Top.job = active
    OBVIOUS
  <2>2. jobs[Top.job].phase = "delivering"
    BY <1>2, <2>1 DEF Flights, Deliveries, HeldOK, Top
  <2> QED BY <2>1, <2>2, OverFacts
<1>6. \A n \in DOMAIN frames : frames[n].frame = "context" => n \in DOMAIN frames' /\ frames'[n] = frames[n]
  <2>1. DOMAIN Front(frames) = DOMAIN frames \ {Len(frames)} /\ \A n \in DOMAIN Front(frames) : Front(frames)[n] = frames[n]
    BY <1>1, <1>2, FrontOK
  <2> QED BY <1>2, <2>1 DEF Pop, Top
<1>7. Stays
  BY <1>2 DEF Stays, SameQuery
<1>8. DOMAIN jobs' = DOMAIN jobs \ S
  BY <1>2
<1>9. WaitsOn
  <2>1. CASE active \in S
    BY <1>4, <2>1 DEF WaitsOn, Wire
  <2>2. CASE active \notin S
    <3>1. S = {} /\ active' = active /\ DOMAIN jobs' = DOMAIN jobs
      BY <1>4, <1>5, <1>8, <2>2
    <3>2. active # 0 => active \in DOMAIN jobs'
      BY <1>1, <3>1 DEF Placed
    <3>3. active # 0 => jobs'[active] = jobs[active]
      BY <1>2, <3>2
    <3>4. Wire' = Wire
      BY <3>1, <3>3 DEF Wire
    <3>5. \A n \in DOMAIN frames : Context(n) => n \in DOMAIN frames' /\ Context(n)'
      BY <1>6, <3>1 DEF Context
    <3>6. Wire = 0 \/ active # 0
      BY DEF Wire
    <3> QED BY <3>1, <3>3, <3>4, <3>5, <3>6 DEF WaitsOn
  <2> QED BY <2>1, <2>2
<1>10. Lined(jobs', queue', active')
  <2> DEFINE K == {n \in DOMAIN queue : queue[n] \notin S}
             I == jobs'
             R == queue'
             B == active'
  <2>1. Selects(R, queue, K)
    BY <1>1, <1>4, UnqueuedOK
  <2>2. \A k \in K : queue[k] \in DOMAIN I
    BY <1>1, <1>8 DEF Placed, Members
  <2>3. \A k \in K : I[queue[k]].query.kind = jobs[queue[k]].query.kind
    BY <1>2, <2>2
  <2>4. B = active \/ B = 0
    BY <1>4
  <2>5. B # 0 => I[active].query.kind = jobs[active].query.kind
    <3>1. B # 0 => active \in DOMAIN I
      BY <1>1, <1>4, <1>8 DEF Placed
    <3> QED BY <1>2, <3>1
  <2>6. Lined(jobs, queue, active) /\ K \in SUBSET DOMAIN queue
    BY DEF Homes
  <2> HIDE DEF K, I, R, B
  <2>7. Lined(I, R, B)
    BY <2>1, <2>3, <2>4, <2>5, <2>6, LinedFewer
  <2> QED BY <2>7 DEF I, R, B
<1>11. Ahead(worker.done, jobs', active')
  <2>1. Ahead(worker.done, jobs, active)
    BY DEF Homes
  <2>2. \A j \in DOMAIN jobs' : j \in DOMAIN jobs /\ j \notin S
    BY <1>8
  <2> HIDE DEF S
  <2> QED BY <1>4, <2>1, <2>2 DEF Ahead
<1> QED BY <1>3, <1>7, <1>9, <1>10, <1>11, HomesKept DEF Recalls, Hears

\* A finished read goes back to the head of the queue.
LEMMA ConsLined ==
    ASSUME NEW J, NEW Q, IsSeq(Q), NEW j, j # 0, Lined(J, Q, j), NEW I, I[j].query.kind = J[j].query.kind,
           \A n \in DOMAIN Q : I[Q[n]].query.kind = J[Q[n]].query.kind
    PROVE  Lined(I, <<j>> \o Q, 0)
<1> DEFINE R == <<j>> \o Q
<1>1. IsCons(R, j, Q)
  BY ConsOK
<1> HIDE DEF R
<1>2. DOMAIN R = 1..Len(R) /\ Len(R) \in Nat
  BY <1>1, SeqType DEF IsCons
<1>3. ASSUME NEW m \in DOMAIN R, NEW n \in DOMAIN R, m < n PROVE InOrder(I, R[m], R[n])
  <2>1. n # 1 /\ m \in Nat /\ n \in Nat
    BY <1>2, <1>3
  <2>2. n - 1 \in DOMAIN Q /\ R[n] = Q[n - 1]
    BY <1>1, <2>1 DEF IsCons
  <2>3. CASE m = 1
    <3>1. R[m] = j /\ InOrder(J, j, Q[n - 1])
      BY <1>1, <2>2, <2>3 DEF IsCons, Lined
    <3> QED BY <2>2, <3>1 DEF InOrder
  <2>4. CASE m # 1
    <3>1. m - 1 \in DOMAIN Q /\ R[m] = Q[m - 1] /\ m - 1 < n - 1
      BY <1>1, <1>3, <2>1, <2>4 DEF IsCons
    <3>2. InOrder(J, Q[m - 1], Q[n - 1])
      BY <2>2, <3>1 DEF Lined
    <3> QED BY <2>2, <3>1, <3>2 DEF InOrder
  <2> QED BY <2>3, <2>4
<1> QED BY <1>3 DEF Lined, R

\* A delivery begins, or the read is asked for again.
LEMMA DeliverHomes == ASSUME Flights, Homes, Delivers PROVE Homes'
<1>1. JobTable(jobs) /\ Places /\ Placed(jobs, queue, active) /\ IsSeq(queue) /\ IsSeq(frames)
  BY DEF Flights, Tables, Places, Placed, Stack
<1>2. PICK t \in deferred : t.task = "deliver" /\ DeliverRest
                            /\ (DeliverLate(t) \/ DeliverAgain(t) \/ DeliverStarts(t))
  BY DeliverCases
<1>3. UNCHANGED <<worker, transport, project, revision, asked, client, available, posted>>
  BY <1>2 DEF DeliverRest, ghosts, context, session
<1>4. CASE DeliverLate(t)
  <2>1. UNCHANGED <<jobs, queue, active, frames>>
    BY <1>4 DEF DeliverLate, table
  <2> QED BY <1>3, <2>1, IdleHomes DEF Hears
<1>5. CASE DeliverAgain(t)
  <2> DEFINE j == t.job
             a == jobs'[j]
  <2>1. /\ j \in DOMAIN jobs /\ jobs[j].phase = "delivering" /\ jobs' = Requeued(jobs, j, Nothing)
        /\ UNCHANGED frames /\ active' = 0 /\ queue' = <<j>> \o queue /\ jobs[j].query.kind # "command"
    BY <1>5 DEF DeliverAgain, Finishing, Kind
  <2>2. j = active /\ active # 0
    BY <2>1, OverFacts
  <2> HIDE DEF j
  <2>3. jobs' = [jobs EXCEPT ![j] = a] /\ Like(a, jobs[j], {"phase", "result"})
    BY <1>1, <2>1, RequeuedLike
  <2> HIDE DEF a
  <2>4. Changes(j, a)
    BY <1>1, <2>1, <2>3, PutsChanges DEF Puts
  <2>5. SameQuery(a, jobs[j])
    BY <2>3, LikeQuery
  <2>6. Stays /\ DOMAIN jobs' = DOMAIN jobs /\ \A i \in DOMAIN jobs' : jobs'[i].query.kind = jobs[i].query.kind
    BY <2>4, <2>5, ChangesStay DEF Changes
  <2>7. WaitsOn
    BY <2>1 DEF WaitsOn, Wire
  <2>8. Lined(jobs', queue', active')
    <3> DEFINE I == jobs'
    <3>1. \A n \in DOMAIN queue : queue[n] \in DOMAIN jobs
      BY <1>1 DEF Placed, Members
    <3>2. \A n \in DOMAIN queue : I[queue[n]].query.kind = jobs[queue[n]].query.kind
      BY <2>6, <3>1
    <3>3. I[j].query.kind = jobs[j].query.kind
      BY <2>1, <2>6
    <3>4. Lined(jobs, queue, j) /\ j # 0
      BY <2>2 DEF Homes
    <3> HIDE DEF I
    <3>5. Lined(I, <<j>> \o queue, 0)
      BY <1>1, <3>2, <3>3, <3>4, ConsLined
    <3> QED BY <2>1, <3>5 DEF I
  <2>9. \A n \in DOMAIN worker.done : worker.done[n] # active
    <3>1. \A n \in DOMAIN worker.done : asked[worker.done[n]].query.kind = "command"
      BY DEF Homes, DoneOK, Home
    <3>2. asked[j].query.kind # "command"
      BY <2>1 DEF Homes, AtHome, Meant
    <3> QED BY <2>2, <3>1, <3>2
  <2>10. Ahead(worker.done, jobs', active')
    BY <2>6, <2>9 DEF Homes, Ahead
  <2> QED BY <1>3, <2>6, <2>7, <2>8, <2>10, HomesKept DEF Recalls, Hears
<1>6. CASE DeliverStarts(t)
  <2>1. /\ t.job = active /\ active # 0 /\ active \in DOMAIN jobs
        /\ \E a : /\ Puts(active, a) /\ Like(a, jobs[active], {"result"}) /\ a.phase = "delivering"
    BY <1>1, <1>6, DeliverJob
  <2>2. PICK a : Puts(active, a) /\ Like(a, jobs[active], {"result"})
    BY <2>1
  <2>3. Changes(active, a)
    BY <1>1, <2>1, <2>2, PutsChanges
  <2>4. SameQuery(a, jobs[active])
    BY <2>2, LikeQuery
  <2>5. a.wire = 0
    <3>1. jobs[active].wire = 0
      BY <1>6, <2>1, OverFacts DEF DeliverStarts, Finishing
    <3> QED BY <2>2, <3>1 DEF Like, JobFields
  <2>6. UNCHANGED <<queue, active>>
    BY <1>6 DEF DeliverStarts
  <2> QED BY <1>3, <2>1, <2>3, <2>4, <2>5, <2>6, OverHomes DEF Hears
<1> QED BY <1>2, <1>4, <1>5, <1>6

\* A request that is sent is the only one.
LEMMA SendHomes ==
    ASSUME Flights, Homes, NoRequest, available, NEW j \in DOMAIN jobs, NEW a, Changes(j, a), SameQuery(a, jobs[j]),
           a.wire = client'.nextRequest, a.wireProject = project, active' = j,
           NEW q, client' = Request(client, q), {"op", "job", "expected"} \subseteq DOMAIN q,
           q.job = j, q.op # "cancel",
           q.op \in CommandOps => q.op = jobs[j].query.op /\ q.expected = revision,
           UNCHANGED <<worker, transport, project, revision, asked, available>>, Hears,
           Lined(jobs', queue', active'), \A n \in DOMAIN worker.done : worker.done[n] < j,
           Ahead(worker.done, jobs', active')
    PROVE  Homes'
<1>1. /\ IsClient(client) /\ IsSeq(client.calls) /\ client.nextRequest \in Nat
      /\ IsSeq(posted) /\ DOMAIN jobs \subseteq DOMAIN asked /\ j # 0
  BY DEF Flights, Tables, Places, JobTable, Epochs, ClientOK, IsClient, PostedOK
<1>2. Stays /\ DOMAIN jobs' = DOMAIN jobs /\ jobs'[j] = a
  BY ChangesStay DEF Changes
<1>3. More(asked', asked)
  BY DEF More
<1> DEFINE c == SendOf(client, q)
<1>4. /\ Posts(client', client, c) /\ client'.epoch = client.epoch /\ client'.nextRequest = client.nextRequest + 1
  BY <1>1, RequestOK
<1>5. c.request = q /\ c.id = client.nextRequest + 1 /\ Real(c)
  BY CallKinds
<1> HIDE DEF c
<1>6. /\ DOMAIN client'.calls = DOMAIN client.calls \union {Len(client.calls) + 1}
      /\ \A n \in DOMAIN client.calls : client'.calls[n] = client.calls[n] /\ n \in Nat /\ n < Len(client.calls) + 1
      /\ client'.calls[Len(client.calls) + 1] = c /\ Len(client.calls) + 1 \in Nat
  BY <1>4 DEF Posts, Adds
<1>7. NoReal(client.calls) /\ ~Busy
  BY DEF NoRequest
<1>8. \A n \in DOMAIN client'.calls : Real(client'.calls[n]) => n = Len(client.calls) + 1 /\ client'.calls[n] = c
  BY <1>6, <1>7 DEF NoReal
<1>9. /\ transport.epoch = client.epoch /\ transport.process # "starting"
      /\ \A n \in DOMAIN client.calls : ~Boundary(client.calls[n])
  <2>1. transport.epoch = client.epoch
    BY DEF Flights, Epochs, AvailableIsCurrent
  <2>2. \A n \in DOMAIN client.calls : ~Boundary(client.calls[n])
    BY <2>1 DEF Flights, Epochs, Bounds
  <2>3. transport.process # "starting"
    <3>1. transport.process = "running" \/ \E n \in DOMAIN posted : posted[n] = Stopped
      BY DEF Flights, Epochs, AvailableIsCurrent
    <3>2. Stopped.type = "stopped" /\ Stopped.epoch = transport.epoch
      BY DEF Stopped
    <3> QED BY <2>1, <3>1, <3>2 DEF Flights, Epochs, Life
  <2> QED BY <2>1, <2>2, <2>3
<1>10. Early(client'.calls)
  <2>1. \A m \in DOMAIN client'.calls : m < Len(client.calls) + 1 => m \in DOMAIN client.calls
    BY <1>6
  <2>2. \A m \in DOMAIN client'.calls : m < Len(client.calls) + 1 => ~Boundary(client'.calls[m])
    BY <1>6, <1>9, <2>1
  <2> QED BY <1>8, <2>2 DEF Early
<1>11. Bound(q, asked, transport, worker)
  <2>1. Meant(jobs[j], asked[j], client.epoch, project) /\ j \in DOMAIN asked
    BY <1>1 DEF Homes, AtHome
  <2>2. Had(transport, worker, project, revision)
    BY DEF Homes, Known
  <2>3. q.op \in CommandOps => asked[j].query.op = q.op /\ asked[j].query.kind = "command"
    BY <2>1 DEF Meant
  <2>4. q.op \in CommandOps \ {"open"} => asked[j].project = project /\ q.expected = revision
    BY <2>1 DEF Meant
  <2>5. asked[j].process = transport.epoch
    BY <1>9, <2>1 DEF Meant
  <2> QED BY <2>1, <2>2, <2>3, <2>4, <2>5 DEF Bound
<1>12. Busy' = Busy
  BY DEF Busy
<1>13. Sending'
  <2>1. \A n \in DOMAIN client'.calls : Real(client'.calls[n]) => Bound(client'.calls[n].request, asked, transport, worker)
    BY <1>5, <1>8, <1>11
  <2> QED BY <1>7, <1>9, <1>10, <1>12, <2>1 DEF Sending
<1>14. Wire' = client'.nextRequest
  BY <1>1, <1>2 DEF Wire
<1>15. Named'
  <2>1. \A n \in DOMAIN client'.calls : Real(client'.calls[n]) => client'.calls[n].request.job = active'
    BY <1>5, <1>8
  <2> QED BY <1>7, <1>12, <2>1 DEF Named
<1>16. AtHome'
  BY <1>1, <1>2, <1>3, <1>4, AtHomeKept DEF Homes
<1>17. Wired'
  BY <1>2 DEF Wired
<1>18. Known'
  <2>1. \A n \in DOMAIN posted' : ~Final(n)'
    <3>1. SUFFICES ASSUME NEW n \in DOMAIN posted', Final(n)' PROVE FALSE
      OBVIOUS
    <3>2. posted'[n].type = "response" /\ posted'[n].id = client.nextRequest + 1
      BY <1>4, <1>14, <3>1 DEF Final, About
    <3>3. PICK d : Heard(d)
      BY <1>1, HeardOK
    <3>4. n + d \in DOMAIN posted /\ posted'[n] = posted[n + d]
      BY <3>3 DEF Heard
    <3>5. posted'[n].id \in Nat /\ posted'[n].id <= client.nextRequest
      BY <3>2, <3>4 DEF Flights, Wires, Ids
    <3> QED BY <1>1, <3>2, <3>5
  <2>2. Had(transport', worker', project', revision') /\ (~available' => project' = 0 /\ revision' = 0)
    BY DEF Homes, Known
  <2> QED BY <2>1, <2>2 DEF Known
<1>19. DoneOK'
  BY <1>3, DoneKept DEF Homes
<1> QED BY <1>13, <1>15, <1>16, <1>17, <1>18, <1>19 DEF Homes

\* pump takes a job in order.
LEMMA PumpOrder ==
    ASSUME Flights, Homes, Pumps, NEW k, PumpTakes(k)
    PROVE  /\ k \in DOMAIN queue /\ queue[k] \in DOMAIN jobs /\ active = 0 /\ available /\ active' = queue[k]
           /\ \A m \in DOMAIN queue : m < k => Kind(queue[m]) # "command" /\ Kind(queue[k]) # "command"
           /\ queue' = RemoveAt(queue, k)
           /\ jobs[queue[k]].query.exact \notin {0, revision} => UNCHANGED client
           /\ \A n \in DOMAIN worker.done : worker.done[n] < queue[k]
           /\ \A n \in DOMAIN worker.done : \A j \in DOMAIN jobs : worker.done[n] < j
<1>1. /\ k \in DOMAIN queue /\ active = 0 /\ available /\ active' = queue[k] /\ queue' = RemoveAt(queue, k)
  BY DEF PumpTakes
<1>2. IsSeq(queue) /\ IsInjective(queue) /\ Placed(jobs, queue, active) /\ 0 \notin DOMAIN jobs
  BY DEF Flights, Tables, Places, Placed, JobTable
<1>3. queue # <<>>
  BY <1>1, EmptySeqOK
<1>4. Chosen \in DOMAIN queue
  BY <1>2, <1>3, ChosenOK
<1>5. /\ active' = queue[Chosen]
      /\ jobs[queue[Chosen]].query.exact \notin {0, revision} => UNCHANGED client
  BY <1>1, <1>3, PumpChosen
<1>6. k = Chosen
  BY <1>1, <1>2, <1>4, <1>5 DEF IsInjective
<1>7. \A m \in DOMAIN queue : m < Chosen => Kind(queue[m]) # "command" /\ Kind(queue[Chosen]) # "command"
  BY <1>2, <1>3, ChosenFirst
<1>8. queue[k] \in DOMAIN jobs
  BY <1>1, <1>2 DEF Placed, Members
<1>9. \A n \in DOMAIN worker.done : \A j \in DOMAIN jobs : worker.done[n] < j
  BY <1>1, <1>2 DEF Homes, Ahead
<1> QED BY <1>1, <1>5, <1>6, <1>7, <1>8, <1>9

\* pump.
LEMMA PumpHomes == ASSUME Flights, Homes, Pumps PROVE Homes'
<1>1. /\ JobTable(jobs) /\ Placed(jobs, queue, active) /\ IsSeq(queue) /\ Epochs /\ Wires
      /\ IsClient(client) /\ client.nextRequest \in Nat
  BY DEF Flights, Tables, Places, Placed, Epochs, ClientOK, IsClient
<1>2. /\ PumpRest
      /\ \/ PumpIdles
         \/ \E k \in DOMAIN queue : PumpTakes(k) /\ \E result : PumpEnds(queue[k], result)
         \/ \E k \in DOMAIN queue : PumpTakes(k) /\ PumpRuns(queue[k])
  BY <1>1, PumpCases
<1>3. UNCHANGED <<worker, transport, project, revision, asked, available, posted, frames>>
  BY <1>2 DEF PumpRest, ghosts, context, session
<1>4. CASE PumpIdles
  <2>1. UNCHANGED <<jobs, queue, active, client>>
    BY <1>4 DEF PumpIdles, table
  <2> QED BY <1>3, <2>1, IdleHomes DEF Hears
<1>5. ASSUME NEW k, PumpTakes(k), NEW a, Changes(queue[k], a), SameQuery(a, jobs[queue[k]])
      PROVE  Stays /\ Lined(jobs', queue', active') /\ Ahead(worker.done, jobs', active')
  <2>1. /\ k \in DOMAIN queue /\ active' = queue[k] /\ queue' = RemoveAt(queue, k) /\ active = 0
        /\ \A m \in DOMAIN queue : m < k => Kind(queue[m]) # "command" /\ Kind(queue[k]) # "command"
        /\ \A n \in DOMAIN worker.done : \A j \in DOMAIN jobs : worker.done[n] < j
    BY <1>5, PumpOrder
  <2>2. Stays /\ DOMAIN jobs' = DOMAIN jobs /\ \A i \in DOMAIN jobs' : jobs'[i].query.kind = jobs[i].query.kind
    BY <1>5, ChangesStay DEF Changes
  <2>3. Lined(jobs', queue', active')
    <3> DEFINE I == jobs'
    <3>1. \A n \in DOMAIN queue : queue[n] \in DOMAIN jobs
      BY <1>1 DEF Placed, Members
    <3>2. \A n \in DOMAIN queue : I[queue[n]].query.kind = jobs[queue[n]].query.kind
      BY <2>2, <3>1
    <3>3. \A m \in DOMAIN queue : m < k => jobs[queue[m]].query.kind # "command" /\ jobs[queue[k]].query.kind # "command"
      BY <2>1 DEF Kind
    <3>4. Lined(jobs, queue, 0)
      BY <2>1 DEF Homes
    <3> HIDE DEF I
    <3>5. Lined(I, RemoveAt(queue, k), queue[k])
      BY <1>1, <2>1, <3>2, <3>3, <3>4, TakeLined
    <3> QED BY <2>1, <3>5 DEF I
  <2>4. Ahead(worker.done, jobs', active')
    BY <2>1, <2>2 DEF Ahead
  <2> QED BY <2>2, <2>3, <2>4
<1>6. ASSUME NEW k, PumpTakes(k), NEW result, PumpEnds(queue[k], result) PROVE Homes'
  <2> DEFINE j == queue[k]
  <2>1. j \in DOMAIN jobs /\ active' = j /\ IsJob(jobs[j])
    BY <1>1, <1>6, PumpOrder DEF JobTable
  <2>2. Finishes(j, jobs[j], result) /\ UNCHANGED client
    BY <1>6 DEF PumpEnds, Finishes
  <2>3. PICK a : Puts(j, a) /\ Like(a, jobs[j], FinishFields) /\ a.wire = 0
    <3> HIDE DEF j
    <3> QED BY <2>1, <2>2, FinishesReplaces
  <2>4. Changes(j, a)
    <3> HIDE DEF j
    <3> QED BY <1>1, <2>1, <2>3, PutsChanges
  <2>5. SameQuery(a, jobs[j])
    BY <2>3, LikeQuery DEF FinishFields
  <2>6. Stays /\ Lined(jobs', queue', active') /\ Ahead(worker.done, jobs', active')
    BY <1>5, <1>6, <2>4, <2>5
  <2>7. WaitsOn
    <3>1. jobs'[j] = a
      BY <2>4 DEF Changes
    <3> QED BY <2>1, <2>3, <3>1 DEF WaitsOn, Wire
  <2> QED BY <1>3, <2>2, <2>6, <2>7, HomesKept DEF Recalls, Hears
<1>7. ASSUME NEW k, PumpTakes(k), PumpRuns(queue[k]) PROVE Homes'
  <2> DEFINE j == queue[k]
             b == Running(jobs[j], RunPhase(jobs[j]))
             op == RunOp(jobs[j])
             q == Order(j, b, op, 0)
  <2>1. /\ j \in DOMAIN jobs /\ active' = j /\ available /\ active = 0
        /\ jobs[j].query.exact \notin {0, revision} => UNCHANGED client
        /\ \A n \in DOMAIN worker.done : worker.done[n] < j
    BY <1>7, PumpOrder
  <2>2. IsJob(jobs[j]) /\ jobs[j].query \in Queries
    BY <1>1, <2>1 DEF JobTable, IsJob
  <2>3. RunPhase(jobs[j]) \in Phases
    BY DEF RunPhase, Phases
  <2>4. IsJob(b) /\ Like(b, jobs[j], {"phase"})
    <3> DEFINE p == RunPhase(jobs[j])
    <3> HIDE DEF p
    <3> QED BY <2>2, <2>3, RunLike DEF p
  <2>5. b.query = jobs[j].query /\ SameQuery(b, jobs[j])
    <3> HIDE DEF b
    <3> QED BY <2>4, LikeQuery
  <2>6. Sends(j, b, op, 0)
    BY <1>7 DEF PumpRuns
  <2>7. client' = Request(client, q)
    BY <2>6 DEF Sends
  <2> HIDE DEF b, op
  <2>8. PICK a : Puts(j, a) /\ Like(a, b, DispatchFields) /\ a.wire = client'.nextRequest /\ a.wireProject = project
    <3> HIDE DEF j
    <3> QED BY <2>4, <2>6, SendsReplaces
  <2>9. Changes(j, a)
    <3> HIDE DEF j
    <3> QED BY <1>1, <2>1, <2>8, PutsChanges
  <2>10. SameQuery(a, jobs[j])
    <3>1. a.query = b.query
      BY <2>8, LikeQuery DEF DispatchFields
    <3> QED BY <2>5, <3>1 DEF SameQuery
  <2>11. Lined(jobs', queue', active') /\ Ahead(worker.done, jobs', active')
    BY <1>5, <1>7, <2>9, <2>10
  <2>12. /\ {"op", "job", "expected"} \subseteq DOMAIN q /\ q.job = j /\ q.op = op
         /\ q.expected = IF jobs[j].query.exact # 0 THEN jobs[j].query.exact ELSE revision
    BY <2>5 DEF Order
  <2> HIDE DEF q, j
  <2>13. client'.nextRequest = client.nextRequest + 1
    BY <1>1, <2>7, RequestOK
  <2>14. client' # client
    BY <1>1, <2>13
  <2>15. q.expected = revision
    BY <2>1, <2>12, <2>14
  <2>16. op # "cancel" /\ (op \in CommandOps => op = jobs[j].query.op)
    BY <2>2 DEF op, RunOp, CommandOps, Queries
  <2>17. NoRequest
    <3>1. Wire = 0
      BY <2>1 DEF Wire
    <3> QED BY <1>1, <2>1, <3>1, QuietNow
  <2>18. Hears
    BY <1>3 DEF Hears
  <2> QED BY <1>3, <2>1, <2>7, <2>8, <2>9, <2>10, <2>11, <2>12, <2>15, <2>16, <2>17, <2>18,
     SendHomes
<1> QED BY <1>2, <1>4, <1>6, <1>7

\* receive goes on: the job ends, or a graph sends its next request.
LEMMA SettleHomes ==
    ASSUME Flights, Homes, active # 0, Wire # 0, NoRequest, NEW m, Settle(active, m),
           UNCHANGED <<transport, worker, asked>>, Hears
    PROVE  Homes'
<1>1. JobTable(jobs) /\ Tables /\ Epochs /\ JobsLive /\ Placed(jobs, queue, active)
  BY DEF Flights, Tables, Places
<1>2. active \in DOMAIN jobs /\ IsJob(jobs[active]) /\ available
  <2>1. active \in DOMAIN jobs /\ available
    BY <1>1, WireFacts
  <2> QED BY <1>1, <2>1 DEF JobTable
<1>3. /\ SettleRest
      /\ \E job : /\ SameJob(job, jobs[active])
                  /\ \/ \E result : SettleEnds(active, job, m, result)
                     \/ SettleRetries(active, job) \/ SettleViews(active, job, m)
  BY <1>2, SettleCases
<1>4. UNCHANGED <<active, queue, project, revision, available>>
  BY <1>3 DEF SettleRest, context
<1>5. PICK job : /\ SameJob(job, jobs[active])
                 /\ \/ \E result : SettleEnds(active, job, m, result)
                    \/ SettleRetries(active, job) \/ SettleViews(active, job, m)
  BY <1>3
<1>6. IsJob(job) /\ job.query = jobs[active].query
  <2>1. IsJob(job) /\ Like(job, jobs[active], {"discovered", "snapshot"})
    BY <1>5 DEF SameJob
  <2> QED BY <2>1, LikeQuery
<1>7. ASSUME NEW result, SettleEnds(active, job, m, result) PROVE Homes'
  <2>1. Finishes(active, job, result) /\ UNCHANGED client
    BY <1>7 DEF SettleEnds, Ends, Finishes
  <2>2. PICK a : Puts(active, a) /\ Like(a, job, FinishFields) /\ a.wire = 0
    BY <1>6, <2>1, FinishesReplaces
  <2>3. Changes(active, a)
    BY <1>1, <1>2, <2>2, PutsChanges
  <2>4. SameQuery(a, jobs[active])
    <3>1. a.query = job.query
      BY <2>2, LikeQuery DEF FinishFields
    <3> QED BY <1>6, <3>1 DEF SameQuery
  <2> QED BY <1>4, <2>1, <2>2, <2>3, <2>4, OverHomes
<1>8. ASSUME NEW b, IsJob(b), b.query = job.query, b.query.kind = "graph",
             NEW op, op \notin CommandOps, op # "cancel", NEW layout, Sends(active, b, op, layout)
      PROVE  Homes'
  <2>1. PICK a : Puts(active, a) /\ Like(a, b, DispatchFields) /\ a.wire = client'.nextRequest /\ a.wireProject = project
    BY <1>8, SendsReplaces
  <2>2. Changes(active, a)
    BY <1>1, <1>2, <2>1, PutsChanges
  <2>3. SameQuery(a, jobs[active])
    <3>1. a.query = b.query
      BY <2>1, LikeQuery DEF DispatchFields
    <3> QED BY <1>6, <1>8, <3>1 DEF SameQuery
  <2> DEFINE q == Order(active, b, op, layout)
  <2>4. client' = Request(client, q)
    BY <1>8 DEF Sends
  <2>5. {"op", "job", "expected"} \subseteq DOMAIN q /\ q.job = active /\ q.op = op
    BY DEF Order
  <2> HIDE DEF q
  <2>6. Stays /\ DOMAIN jobs' = DOMAIN jobs
    BY <2>2, <2>3, ChangesStay DEF Changes
  <2>7. Lined(jobs', queue', active')
    BY <1>1, <1>4, <2>6, PlacedLined DEF Homes
  <2>8. Ahead(worker.done, jobs', active')
    BY <1>4, <2>6 DEF Homes, Ahead
  <2>9. \A n \in DOMAIN worker.done : worker.done[n] < active
    <3>1. \A n \in DOMAIN worker.done : asked[worker.done[n]].query.kind = "command"
      BY DEF Homes, DoneOK, Home
    <3>2. asked[active].query.kind # "command"
      BY <1>2, <1>6, <1>8 DEF Homes, AtHome, Meant
    <3>3. \A n \in DOMAIN worker.done : worker.done[n] # active
      BY <3>1, <3>2
    <3> QED BY <1>2, <3>3 DEF Homes, Ahead
  <2> QED BY <1>2, <1>4, <1>8, <2>1, <2>2, <2>3, <2>4, <2>5, <2>7, <2>8, <2>9, SendHomes
<1>9. CASE SettleRetries(active, job)
  <2> DEFINE b == Retried(job)
  <2>1. IsJob(b) /\ Like(b, job, {"retried", "phase", "summary"})
    BY <1>6, RetriedLike
  <2>2. Sends(active, b, "cfg_summary", 0) /\ job.query.kind = "graph"
    BY <1>9 DEF SettleRetries, Unfinished
  <2> HIDE DEF b
  <2>3. b.query = job.query
    BY <2>1, LikeQuery
  <2>4. "cfg_summary" \notin CommandOps /\ "cfg_summary" # "cancel"
    BY DEF CommandOps
  <2> QED BY <1>8, <2>1, <2>2, <2>3, <2>4
<1>10. CASE SettleViews(active, job, m)
  <2> DEFINE s == [layout |-> m.layout, revision |-> revision, done |-> m.done]
             b == Viewing(job, s)
  <2>1. Sends(active, b, "cfg_viewport", m.layout) /\ job.query.kind = "graph"
    BY <1>10 DEF SettleViews, Unfinished, Viewed
  <2> HIDE DEF s
  <2>2. IsJob(b) /\ Like(b, job, {"phase", "summary"})
    BY <1>6, ViewportLike
  <2> HIDE DEF b
  <2>3. b.query = job.query
    BY <2>2, LikeQuery
  <2>4. "cfg_viewport" \notin CommandOps /\ "cfg_viewport" # "cancel"
    BY DEF CommandOps
  <2> QED BY <1>8, <2>1, <2>2, <2>3, <2>4
<1> QED BY <1>5, <1>7, <1>9, <1>10

\* After contextChanged.
LEMMA ContextHomes == ASSUME Flights, Homes, ResumesReceive PROVE Homes'
<1>1. Tables /\ Places /\ Stack /\ IsSeq(frames)
  BY DEF Flights, Tables, Stack
<1>2. /\ ContextRest /\ frames # <<>> /\ Len(frames) \in DOMAIN frames
      /\ Top.frame = "context" /\ frames' = Pop
      /\ \/ Resumed
         \/ UNCHANGED <<table, context, session, cache, deferred, client>>
  BY <1>1, ContextCases
<1>3. UNCHANGED <<worker, transport, asked, posted>>
  BY <1>2 DEF ContextRest, ghosts
<1>4. CASE Resumed
  <2>1. active # 0 /\ Context(Len(frames)) /\ Settle(active, Top.reply)
    BY <1>2, <1>4 DEF Resumed, Context, Top
  <2>2. NoRequest /\ Wire # 0
    BY <1>2, <2>1 DEF Flights, Wires, Resuming
  <2> QED BY <1>3, <2>1, <2>2, SettleHomes DEF Hears
<1>5. CASE ~Resumed
  <2>1. UNCHANGED <<jobs, queue, active, project, revision, available, client>>
    BY <1>2, <1>5 DEF table, context, session
  <2>2. CASE active = 0
    <3>1. WaitsOn
      BY <2>1, <2>2 DEF WaitsOn, Wire
    <3>2. Stays
      BY <2>1 DEF Stays, SameQuery
    <3>3. Lined(jobs', queue', active') /\ Ahead(worker.done, jobs', active')
      BY <2>1 DEF Homes
    <3> QED BY <1>3, <2>1, <3>1, <3>2, <3>3, HomesKept DEF Recalls, Hears
  <2>3. CASE active # 0
    <3>1. Top.job # active
      <4>1. SUFFICES ASSUME Top.job = active PROVE FALSE
        OBVIOUS
      <4>2. active \in DOMAIN jobs
        BY <1>1, <2>3 DEF Places, Placed
      <4>3. Settle(active, Top.reply)
        BY <4>1, <4>2 DEF ResumesReceive, ContextChanged
      <4> QED BY <1>5, <2>3, <4>1, <4>2, <4>3 DEF Resumed
    <3>2. \A n \in DOMAIN frames : Context(n) => n \in DOMAIN frames' /\ Context(n)'
      <4>1. DOMAIN Front(frames) = DOMAIN frames \ {Len(frames)} /\ \A n \in DOMAIN Front(frames) : Front(frames)[n] = frames[n]
        BY <1>1, <1>2, FrontOK
      <4>2. \A n \in DOMAIN frames : Context(n) => n # Len(frames)
        BY <3>1 DEF Context, Top
      <4>3. \A n \in DOMAIN frames : Context(n) => n \in DOMAIN frames' /\ frames'[n] = frames[n]
        BY <1>2, <4>1, <4>2 DEF Pop
      <4> QED BY <2>1, <4>3 DEF Context
    <3>3. WaitsOn
      BY <2>1, <3>2 DEF WaitsOn, Wire
    <3>4. Stays
      BY <2>1 DEF Stays, SameQuery
    <3>5. Lined(jobs', queue', active') /\ Ahead(worker.done, jobs', active')
      BY <2>1 DEF Homes
    <3> QED BY <1>3, <2>1, <3>3, <3>4, <3>5, HomesKept DEF Recalls, Hears
  <2> QED BY <2>2, <2>3
<1> QED BY <1>4, <1>5

\* A retired session keeps the order.
LEMMA RetireLined ==
    ASSUME Places, Lined(jobs, queue, active), NEW keep, NEW code, Retire(keep, code)
    PROVE  /\ Lined(jobs', queue', active') /\ Stays
           /\ active' = IF active \in DOMAIN jobs \ {keep} THEN 0 ELSE active
<1>1. JobTable(jobs) /\ Placed(jobs, queue, active) /\ IsSeq(queue)
  BY DEF Places, Placed
<1>2. /\ DOMAIN jobs' = DOMAIN jobs \intersect {keep}
      /\ \A j \in DOMAIN jobs' : Like(jobs'[j], jobs[j], {"epoch"})
  BY RetireJobs
<1>3. \A j \in DOMAIN jobs' : j \in DOMAIN jobs /\ SameQuery(jobs'[j], jobs[j])
  BY <1>2, LikeQuery
<1> DEFINE S == DOMAIN jobs \ {keep}
<1>4. queue' = Unqueued(queue, S) /\ active' = IF active \in S THEN 0 ELSE active
  BY DEF Retire, RemoveJobs, Retired
<1> DEFINE K == {n \in DOMAIN queue : queue[n] \notin S}
           I == jobs'
           R == queue'
           B == active'
<1>5. Selects(R, queue, K)
  BY <1>1, <1>4, UnqueuedOK
<1>6. \A k \in K : queue[k] \in DOMAIN I
  BY <1>1, <1>2 DEF Placed, Members
<1>7. \A k \in K : I[queue[k]].query.kind = jobs[queue[k]].query.kind
  BY <1>3, <1>6 DEF SameQuery
<1>8. B = active \/ B = 0
  BY <1>4
<1>9. B # 0 => I[active].query.kind = jobs[active].query.kind
  <2>1. B # 0 => active \in DOMAIN I
    BY <1>1, <1>2, <1>4 DEF Placed
  <2> QED BY <1>3, <2>1 DEF SameQuery
<1>10. Lined(I, R, B)
  <2>1. K \in SUBSET DOMAIN queue
    OBVIOUS
  <2> HIDE DEF K, I, R, B
  <2> QED BY <1>5, <1>7, <1>8, <1>9, <2>1, LinedFewer
<1> QED BY <1>3, <1>4, <1>10 DEF Stays

\* The service learns what the reply tells.
LEMMA KnownMoves ==
    ASSUME Known, IsSeq(posted), UNCHANGED <<worker, transport, client>>, available', Drops(posted', posted),
           Final(1), Contextual(posted[1]), project' = posted[1].project, revision' = posted[1].revision,
           Wire' = Wire
    PROVE  Known'
<1>1. ASSUME NEW n \in DOMAIN posted', Final(n)', Contextual(posted'[n])
      PROVE  Had(transport, worker, posted'[n].project, posted'[n].revision)
  <2>1. PICK d : Heard(d)
    BY HeardOK DEF Hears
  <2>2. n + d \in DOMAIN posted /\ Final(n + d) /\ posted'[n] = posted[n + d]
    BY <1>1, <2>1, HeardSame DEF Final
  <2> QED BY <1>1, <2>2 DEF Known
<1>2. \A n \in DOMAIN posted' : Final(n)' /\ Contextual(posted'[n]) =>
          Had(transport', worker', posted'[n].project, posted'[n].revision)
  BY <1>1
<1>3. \A n : Contextual(posted[n])' <=> Contextual(posted'[n])
  BY DEF Contextual
<1>4. Had(transport, worker, posted[1].project, posted[1].revision)
  BY DEF Known, Final, About
<1> QED BY <1>2, <1>3, <1>4 DEF Known

\* A reply.
LEMMA ReplyHomes == ASSUME Flights, Homes, HearsReply PROVE Homes'
<1>1. JobTable(jobs) /\ Places /\ Tables /\ Epochs /\ JobsLive /\ Placed(jobs, queue, active) /\ IsSeq(frames) /\ IsSeq(posted)
  BY DEF Flights, Tables, Places, Stack, Epochs, PostedOK
<1>2. ReceiveRest /\ UNCHANGED <<worker, transport, asked>>
  BY ReceiveCases DEF ReceiveRest, ghosts
<1>3. Drops(posted', posted) /\ Hears
  <2>1. posted # <<>> /\ posted' = Tail(posted)
    BY ReceiveCases
  <2> QED BY <1>1, <2>1, DropsOK DEF Hears
<1>4. CASE ReceiveIgnored
  <2>1. UNCHANGED <<jobs, queue, active, project, revision, available, client, frames>>
    BY <1>4 DEF ReceiveIgnored, table, context, session
  <2> QED BY <1>2, <1>3, <2>1, IdleHomes
<1>5. ASSUME ~ReceiveIgnored PROVE Homes'
  <2> DEFINE m == posted[1]
  <2>1. /\ active # 0 /\ Wire # 0 /\ active \in DOMAIN jobs /\ IsJob(jobs[active])
        /\ 1 \in DOMAIN posted /\ Final(1)
        /\ ReceiveFails \/ ReceiveMoves(m) \/ ReceiveOpens(m) \/ ReceiveSettles(m)
    BY <1>5, AwaitedReply
  <2>2. NoRequest /\ available
    BY <1>1, <2>1, WireFacts DEF Flights, Wires, Flight
  <2>3. Moved(m) => Contextual(m)
    BY DEF Moved
  <2>4. CASE ReceiveFails
    <3>1. PICK code : Ends(active, jobs[active], Error(code))
      BY <2>4 DEF ReceiveFails
    <3>2. UNCHANGED <<queue, active, project, revision, available, frames>>
      BY <2>4 DEF ReceiveFails, context, session
    <3> DEFINE r == Error(code)
    <3>3. Finishes(active, jobs[active], r) /\ UNCHANGED client
      BY <3>1 DEF Ends, Finishes
    <3> HIDE DEF r
    <3>4. PICK a : Puts(active, a) /\ Like(a, jobs[active], FinishFields) /\ a.wire = 0
      BY <2>1, <3>3, FinishesReplaces
    <3>5. Changes(active, a)
      BY <1>1, <2>1, <3>4, PutsChanges
    <3>6. SameQuery(a, jobs[active])
      BY <3>4, LikeQuery DEF FinishFields
    <3> QED BY <1>2, <1>3, <2>1, <3>2, <3>3, <3>4, <3>5, <3>6, OverHomes
  <2>5. CASE ReceiveSettles(m)
    <3>1. Settle(active, m)
      BY <2>5 DEF ReceiveSettles
    <3> HIDE DEF m
    <3> QED BY <1>2, <1>3, <2>1, <2>2, <3>1, SettleHomes
  <2>6. ASSUME frames' = Append(frames, ContextFrame(active, m)), active' = active, UNCHANGED client,
               jobs'[active].wire = jobs[active].wire,
               project' = m.project, revision' = m.revision, Moved(m), UNCHANGED available
        PROVE  DoneOK' /\ Sending' /\ Named' /\ Wired' /\ Known'
    <3>1. More(asked', asked) /\ Grows(client'.calls, client.calls)
      BY <1>2, <2>6 DEF More, Grows
    <3>2. Wire' = Wire
      BY <2>6 DEF Wire
    <3>3. DoneOK' /\ Sending' /\ Named'
      BY <1>2, <2>6, <3>1, <3>2, DoneKept, SendingKept, NamedKept DEF Homes
    <3>4. Known'
      BY <1>1, <1>2, <1>3, <2>1, <2>2, <2>3, <2>6, <3>2, KnownMoves DEF Homes
    <3>5. Wired'
      <4> DEFINE fr == ContextFrame(active, m)
      <4>1. fr.frame = "context" /\ fr.job = active
        BY DEF ContextFrame
      <4> HIDE DEF fr
      <4>2. Len(frames) + 1 \in DOMAIN frames' /\ frames'[Len(frames) + 1] = fr
        BY <1>1, <2>6, AppendOK DEF fr
      <4>3. \E n \in DOMAIN frames' : Context(n)'
        BY <2>1, <2>6, <4>1, <4>2 DEF Context
      <4> QED BY <4>3 DEF Wired
    <3> QED BY <3>3, <3>4, <3>5
  <2>7. CASE ReceiveMoves(m)
    <3>1. /\ Moved(m) /\ m.project = jobs[active].wireProject /\ project' = m.project /\ revision' = m.revision
          /\ frames' = Append(frames, ContextFrame(active, m))
          /\ UNCHANGED <<jobs, queue, active, available, client>>
      BY <2>7 DEF ReceiveMoves, table, session
    <3>2. \A n \in DOMAIN frames : ~Context(n)
      BY <2>1 DEF Flights, Wires, Resuming
    <3>3. project' = project
      BY <2>1, <3>1, <3>2 DEF Homes, Wired
    <3>4. DoneOK' /\ Sending' /\ Named' /\ Wired' /\ Known'
      <4> HIDE DEF m
      <4> QED BY <2>6, <3>1
    <3>5. AtHome'
      BY <1>2, <3>1, <3>3 DEF Homes, AtHome
    <3>6. Lined(jobs', queue', active') /\ Ahead(worker'.done, jobs', active')
      BY <1>2, <3>1 DEF Homes
    <3> QED BY <3>4, <3>5, <3>6 DEF Homes
  <2>8. CASE ReceiveOpens(m)
    <3>1. /\ Moved(m) /\ Opening(m) /\ project' = m.project /\ revision' = m.revision
          /\ frames' = Append(frames, ContextFrame(active, m))
          /\ UNCHANGED <<available, client>> /\ Retire(active, "session_changed")
      BY <2>8 DEF ReceiveOpens
    <3>2. Lined(jobs', queue', active') /\ Stays /\ active' = active
      <4>1. Lined(jobs, queue, active)
        BY DEF Homes
      <4> QED BY <1>1, <3>1, <4>1, RetireLined
    <3>3. /\ DOMAIN jobs' = DOMAIN jobs \intersect {active}
          /\ \A j \in DOMAIN jobs' : Like(jobs'[j], jobs[j], {"epoch"})
      BY <1>1, <3>1, RetireJobs
    <3>4. DoneOK' /\ Sending' /\ Named' /\ Wired' /\ Known'
      <4>1. jobs'[active].wire = jobs[active].wire
        BY <2>1, <3>3 DEF Like, JobFields
      <4> HIDE DEF m
      <4> QED BY <2>6, <3>1, <3>2, <4>1
    <3>5. AtHome'
      <4>1. Meant(jobs[active], asked[active], client.epoch, project) /\ jobs[active].query.op = "open"
        BY <2>1, <3>1 DEF Homes, AtHome, Opening
      <4>2. jobs'[active].query = jobs[active].query
        BY <2>1, <3>3, LikeQuery
      <4>3. Meant(jobs'[active], asked[active], client.epoch, project')
        BY <4>1, <4>2 DEF Meant
      <4>4. \A j \in DOMAIN jobs' : j = active
        BY <3>3
      <4> QED BY <1>2, <3>1, <4>3, <4>4 DEF AtHome
    <3>6. Ahead(worker'.done, jobs', active')
      BY <1>2, <3>2, <3>3 DEF Homes, Ahead
    <3> QED BY <3>2, <3>4, <3>5, <3>6 DEF Homes
  <2> QED BY <2>1, <2>4, <2>5, <2>7, <2>8
<1> QED BY <1>4, <1>5

\* What changes the worker is a command.
LEMMA CommandQuery ==
    ASSUME NEW query \in Query, query.op \in CommandOps PROVE query.kind = "command"
  BY QueryAssumption DEF CommandOps

\* A new job comes last.
LEMMA NewLined ==
    ASSUME NEW J, NEW Q, IsSeq(Q), NEW A, Lined(J, Q, A), NEW a, NEW I,
           \A j \in DOMAIN J : j < a /\ I[j].query.kind = J[j].query.kind,
           Members(Q) \subseteq DOMAIN J, A \in DOMAIN J \union {0}
    PROVE  Lined(I, Append(Q, a), A)
<1> DEFINE R == Append(Q, a)
<1>1. Adds(R, Q, a)
  BY AddsOK
<1> HIDE DEF R
<1>2. /\ \A n \in DOMAIN Q : Q[n] \in DOMAIN J /\ R[n] = Q[n] /\ Q[n] < a /\ n \in Nat /\ n < Len(Q) + 1
      /\ DOMAIN R = DOMAIN Q \union {Len(Q) + 1} /\ R[Len(Q) + 1] = a /\ Len(Q) + 1 \in Nat
  BY <1>1 DEF Adds, Members
<1>3. ASSUME NEW m \in DOMAIN R, NEW n \in DOMAIN R, m < n PROVE InOrder(I, R[m], R[n])
  <2>1. m \in DOMAIN Q
    BY <1>2, <1>3
  <2>2. CASE n \in DOMAIN Q
    <3>1. InOrder(J, Q[m], Q[n])
      BY <1>3, <2>1, <2>2 DEF Lined
    <3> QED BY <1>2, <2>1, <2>2, <3>1 DEF InOrder
  <2>3. CASE n = Len(Q) + 1
    BY <1>2, <2>1, <2>3 DEF InOrder
  <2> QED BY <1>2, <2>2, <2>3
<1>4. ASSUME A # 0, NEW n \in DOMAIN R PROVE InOrder(I, A, R[n])
  <2>1. A \in DOMAIN J
    BY <1>4
  <2>2. CASE n \in DOMAIN Q
    <3>1. InOrder(J, A, Q[n])
      BY <1>4, <2>2 DEF Lined
    <3> QED BY <1>2, <2>1, <2>2, <3>1 DEF InOrder
  <2>3. CASE n = Len(Q) + 1
    BY <1>2, <2>1, <2>3 DEF InOrder
  <2> QED BY <1>2, <2>2, <2>3
<1> QED BY <1>3, <1>4 DEF Lined, R

\* Asking.
LEMMA AskHomes == ASSUME Flights, Homes, Asks PROVE Homes'
<1>1. /\ Tables /\ JobTable(jobs) /\ IsSeq(asked) /\ IsSeq(posted) /\ DOMAIN jobs \subseteq DOMAIN asked
      /\ Placed(jobs, queue, active) /\ IsSeq(queue)
  BY DEF Flights, Tables, Places, Placed, Stack, Epochs, PostedOK
<1>2. PICK query \in Query, owner \in Owner :
          /\ AskRest(query, owner)
          /\ \/ AskRefused(Len(asked) + 1, query, owner)
             \/ \E j \in DOMAIN jobs : AskJoins(Len(asked) + 1, query, owner, j)
             \/ AskMakes(Len(asked) + 1, query, owner)
  BY AskCases
<1> DEFINE ask == Len(asked) + 1
<1>3. /\ More(asked', asked) /\ ask \in DOMAIN asked' /\ asked'[ask] = Asked(query, owner)
      /\ ask \notin DOMAIN asked /\ ask # 0 /\ ask \in Nat
  BY <1>1, <1>2, AskNumber DEF More
<1>4. \A i \in DOMAIN asked : i < ask
  BY <1>1, SeqType
<1>5. /\ UNCHANGED <<worker, transport, posted, project, revision, available, active, frames, client>>
  BY <1>2 DEF AskRest, context
<1>6. \/ AskRefused(ask, query, owner)
      \/ \E j \in DOMAIN jobs : AskJoins(ask, query, owner, j)
      \/ AskMakes(ask, query, owner)
  BY <1>2
<1> HIDE DEF ask
<1>7. Grows(client'.calls, client.calls)
  BY <1>5 DEF Grows
<1>8. DoneOK' /\ Sending'
  BY <1>3, <1>5, <1>7, DoneKept, SendingKept DEF Homes
<1>9. ASSUME \A j \in DOMAIN jobs : /\ j \in DOMAIN jobs'
                                   /\ jobs'[j].wire = jobs[j].wire /\ jobs'[j].wireProject = jobs[j].wireProject
      PROVE  Named' /\ Wired' /\ Known'
  <2>1. active \in DOMAIN jobs \union {0}
    BY <1>1 DEF Placed
  <2>2. Wire' = Wire
    BY <1>5, <1>9, <2>1 DEF Wire
  <2>3. Wire # 0 => active \in DOMAIN jobs
    BY <2>1 DEF Wire
  <2>4. WaitsOn
    BY <1>5, <1>9, <2>2, <2>3 DEF WaitsOn, Context, Wire
  <2> QED BY <1>1, <1>5, <1>7, <2>2, <2>4, NamedKept, WiredKept, KnownKept DEF Homes, Hears
<1>10. ASSUME Stays, DOMAIN jobs' = DOMAIN jobs, UNCHANGED queue
       PROVE  Lined(jobs', queue', active') /\ AtHome' /\ Ahead(worker'.done, jobs', active')
  <2>1. Lined(jobs', queue', active')
    BY <1>1, <1>5, <1>10, PlacedLined DEF Homes
  <2>2. AtHome'
    BY <1>1, <1>3, <1>5, <1>10, AtHomeKept DEF Homes
  <2> QED BY <1>5, <1>10, <2>1, <2>2 DEF Homes, Ahead
<1>11. CASE AskRefused(ask, query, owner)
  <2>1. UNCHANGED <<jobs, queue>>
    BY <1>11 DEF AskRefused
  <2>2. Stays
    BY <2>1 DEF Stays, SameQuery
  <2> QED BY <1>8, <1>9, <1>10, <2>1, <2>2 DEF Homes
<1>12. ASSUME NEW j \in DOMAIN jobs, AskJoins(ask, query, owner, j) PROVE Homes'
  <2> DEFINE K == jobs'
  <2>0. PICK seen : seen = query.visible
    OBVIOUS
  <2>1. K = Joined(jobs, j, ask, seen) /\ seen \in BOOLEAN
    BY <1>12, <2>0, QueryType DEF AskJoins, Joined, Queries
  <2> HIDE DEF K
  <2>2. /\ K = [jobs EXCEPT ![j] = K[j]] /\ Like(K[j], jobs[j], {"subscribers", "query"})
        /\ IsJob(K[j]) /\ K[j].bytes = jobs[j].bytes
        /\ K[j].subscribers = jobs[j].subscribers \union {ask}
        /\ \E v \in BOOLEAN : K[j].query = [jobs[j].query EXCEPT !.visible = v]
    BY <1>1, <2>1, JoinedLike
  <2> DEFINE a == K[j]
             b == jobs[j]
  <2>3. a.wire = b.wire /\ a.wireProject = b.wireProject
    BY <2>2 DEF Like, JobFields
  <2>4. SameQuery(a, b)
    <3>1. b.query \in Queries
      BY <1>1 DEF JobTable, IsJob
    <3> HIDE DEF b, a
    <3>2. PICK v \in BOOLEAN : a.query = [b.query EXCEPT !.visible = v]
      BY <2>2 DEF a, b
    <3> QED BY <3>1, <3>2 DEF Queries, SameQuery
  <2>5. K = [jobs EXCEPT ![j] = a] /\ IsJob(a) /\ a.bytes = jobs[j].bytes
    BY <2>2
  <2> HIDE DEF a, b
  <2>6. DOMAIN K = DOMAIN jobs /\ K[j] = a /\ \A i \in DOMAIN jobs : i # j => K[i] = jobs[i]
    BY <1>1, <2>5, ReplaceOK
  <2>7. Stays
    BY <2>4, <2>6 DEF Stays, SameQuery, K, b
  <2>8. DOMAIN jobs' = DOMAIN jobs /\ UNCHANGED queue
    BY <1>12, <2>6 DEF K, AskJoins
  <2>9. \A i \in DOMAIN jobs : /\ i \in DOMAIN jobs' /\ jobs'[i].wire = jobs[i].wire
                               /\ jobs'[i].wireProject = jobs[i].wireProject
    BY <2>3, <2>6 DEF K, b
  <2> QED BY <1>8, <1>9, <1>10, <2>7, <2>8, <2>9 DEF Homes
<1>13. CASE AskMakes(ask, query, owner)
  <2> DEFINE r == NewJob(query, ask)
  <2>1. r.query = query
    BY QueryType, NewJobOK
  <2>2. jobs' = Extended(jobs, ask, r) /\ queue' = Append(queue, ask)
    BY <1>13 DEF AskMakes
  <2> HIDE DEF r
  <2>3. Extends(jobs', jobs, ask, r)
    BY <2>2, ExtendedOK
  <2>4. /\ DOMAIN jobs' = DOMAIN jobs \union {ask} /\ jobs'[ask] = r
        /\ \A j \in DOMAIN jobs : j # ask /\ jobs'[j] = jobs[j] /\ j < ask
    BY <1>1, <1>3, <1>4, <2>3 DEF Extends
  <2>5. Lined(jobs', queue', active')
    <3> DEFINE I == jobs'
    <3>1. \A j \in DOMAIN jobs : j < ask /\ I[j].query.kind = jobs[j].query.kind
      BY <2>4
    <3>2. Members(queue) \subseteq DOMAIN jobs /\ active \in DOMAIN jobs \union {0} /\ Lined(jobs, queue, active)
      BY <1>1 DEF Placed, Homes
    <3> HIDE DEF I
    <3>3. Lined(I, Append(queue, ask), active)
      BY <1>1, <3>1, <3>2, NewLined
    <3> QED BY <1>5, <2>2, <3>3 DEF I
  <2>6. AtHome'
    <3>1. Meant(r, Asked(query, owner), client.epoch, project)
      <4>1. Asked(query, owner).query = query /\ Asked(query, owner).process = client.epoch
            /\ Asked(query, owner).project = project
        BY DEF Asked
      <4> QED BY <2>1, <4>1, CommandQuery DEF Meant
    <3>2. \A j \in DOMAIN jobs : asked'[j] = asked[j] /\ Meant(jobs[j], asked[j], client.epoch, project)
      BY <1>1, <1>3 DEF Homes, AtHome, More
    <3>3. \A j \in DOMAIN jobs' : Meant(jobs'[j], asked'[j], client.epoch, project)
      BY <1>3, <2>4, <3>1, <3>2
    <3> QED BY <1>5, <3>3 DEF AtHome
  <2>7. Ahead(worker'.done, jobs', active')
    <3>1. \A n \in DOMAIN worker.done : worker.done[n] < ask
      BY <1>4 DEF Homes, DoneOK, Home
    <3>2. Ahead(worker.done, jobs, active)
      BY DEF Homes
    <3> QED BY <1>5, <2>4, <3>1, <3>2 DEF Ahead
  <2> QED BY <1>8, <1>9, <2>4, <2>5, <2>6, <2>7 DEF Homes
<1> QED BY <1>6, <1>11, <1>12, <1>13

\* A session that ends leaves no job, and no context.
LEMMA GoneHomes ==
    ASSUME Homes, Flights', DOMAIN jobs' = {}, active' = 0, project' = 0, revision' = 0,
           UNCHANGED <<asked, transport, worker>>, Grows(client'.calls, client.calls)
    PROVE  Homes'
<1>1. More(asked', asked)
  BY DEF More
<1>2. DoneOK' /\ Sending'
  BY <1>1, DoneKept, SendingKept DEF Homes
<1>3. Wire' = 0 /\ \A n : ~Final(n)'
  BY DEF Wire, Final, About
<1>4. Named' /\ Wired' /\ AtHome'
  BY <1>3 DEF Named, Wired, AtHome
<1>5. Known'
  <2>1. Had(transport, worker, 0, 0)
    BY DEF Homes, DoneOK, Had
  <2> QED BY <1>3, <2>1 DEF Known
<1>6. Lined(jobs', queue', active')
  <2>1. DOMAIN queue' = {}
    <3>1. Members(queue') = {}
      BY DEF Flights, Tables, Places, Placed, Members
    <3> QED BY <3>1 DEF Members
  <2> QED BY <2>1 DEF Lined
<1>7. Ahead(worker'.done, jobs', active')
  BY DEF Ahead
<1> QED BY <1>2, <1>4, <1>5, <1>6, <1>7 DEF Homes

\* What a session that ends forgets.
LEMMA UnavailableContext ==
    ASSUME Known, SetUnavailable PROVE project' = 0 /\ revision' = 0
  BY DEF SetUnavailable, Known, context

\* A restart, an open without a worker, and a worker that is lost.
LEMMA LeaveHomes ==
    ASSUME Flights, Flights', Homes, Restart \/ OpenStartsWorker \/ HearsFatal \/ HearsStopped
    PROVE  Homes'
<1>1. /\ Tables /\ Epochs /\ JobsLive /\ IsClient(client) /\ Known
  BY DEF Flights, Epochs, ClientOK, Homes
<1>2. /\ DOMAIN jobs' = {} /\ active' = 0 /\ project' = 0 /\ revision' = 0
      /\ UNCHANGED <<asked, transport, worker>>
  <2>1. CASE Restart \/ HearsFatal \/ HearsStopped
    <3>1. SetUnavailable /\ UNCHANGED <<asked, transport, worker>>
      BY <2>1 DEF Restart, HearsFatal, HearsStopped, WorkerGone, ghosts
    <3> QED BY <1>1, <3>1, UnavailableJobs, UnavailableContext
  <2>2. CASE OpenStartsWorker
    <3>1. UNCHANGED <<asked, transport, worker, jobs, active, project, revision>> /\ ~available
      BY <2>2 DEF OpenStartsWorker, WorkerGone, ghosts, table, context
    <3>2. active = 0 /\ DOMAIN jobs = {}
      BY <1>1, <3>1, WireFacts
    <3> QED BY <1>1, <3>1, <3>2 DEF Known
  <2> QED BY <2>1, <2>2
<1>3. Grows(client'.calls, client.calls)
  <2>1. CASE Restart
    <3> DEFINE c == Stop(client)
    <3>1. client' = Start(c)
      BY <2>1 DEF Restart
    <3>2. IsClient(c) /\ Grows(c.calls, client.calls)
      BY <1>1, BoundaryGrows
    <3> HIDE DEF c
    <3>3. Grows(client'.calls, c.calls)
      BY <3>1, <3>2, BoundaryGrows
    <3> QED BY <3>2, <3>3, GrowsTwice
  <2>2. CASE OpenStartsWorker \/ HearsFatal
    <3>1. client' = Start(client) \/ client' = Stop(client)
      BY <2>2 DEF OpenStartsWorker, HearsFatal
    <3> QED BY <1>1, <3>1, BoundaryGrows
  <2>3. CASE HearsStopped
    <3>1. UNCHANGED client
      BY <2>3 DEF HearsStopped
    <3> QED BY <3>1 DEF Grows
  <2> QED BY <2>1, <2>2, <2>3
<1> QED BY <1>2, <1>3, GoneHomes

\* The worker serves what it did; and the calls that are left.
SameWork(v, w) == v.done = w.done /\ v.revision = w.revision /\ v.project = w.project
Rest(k, s) == \A n \in DOMAIN k : \E m \in DOMAIN s : k[n] = s[m]

\* Calls that are left are in order, and a boundary has no request behind it.
LEMMA EarlyDrops ==
    ASSUME NEW s, NEW k, Drops(k, s), Early(s)
    PROVE  Early(k) /\ Rest(k, s) /\ (Boundary(s[1]) => NoReal(k))
<1>1. \A n \in DOMAIN k : n \in Nat /\ n + 1 \in DOMAIN s /\ k[n] = s[n + 1] /\ 1 < n + 1
  <2>1. \A n \in DOMAIN k : n \in Nat /\ n + 1 \in DOMAIN s /\ k[n] = s[n + 1]
    BY DEF Drops
  <2>3. 0 \notin DOMAIN k
    <3>1. IsSeq(k)
      BY DEF Drops
    <3> QED BY <3>1, SeqType
  <2>4. \A n \in DOMAIN k : n # 0
    BY <2>3
  <2> QED BY <2>1, <2>4
<1>2. 1 \in DOMAIN s
  BY DEF Drops
<1>3. \A m, n \in DOMAIN k : m < n => m + 1 < n + 1
  BY <1>1
<1> QED BY <1>1, <1>2, <1>3 DEF Early, Rest, NoReal

\* What the worker had it still has.
LEMMA HadOn ==
    ASSUME NEW t, NEW w, NEW v, w.revision \in Nat,
           v.revision = w.revision + 1 \/ (v.revision = w.revision /\ v.project = w.project), NEW p, NEW r, Had(t, w, p, r)
    PROVE  Had(t, v, p, r)
<1>1. CASE v.revision = w.revision + 1
  <2>1. r \in Nat /\ (t.process = "running" => r <= w.revision)
    BY DEF Had
  <2>2. r \in Nat /\ (t.process = "running" => r <= v.revision /\ r # v.revision)
    BY <1>1, <2>1
  <2> QED BY <2>2 DEF Had
<1>2. CASE v.revision = w.revision /\ v.project = w.project
  BY <1>2 DEF Had
<1> QED BY <1>1, <1>2

\* So a request is for it as before.
LEMMA BoundSame ==
    ASSUME NEW q, NEW A, NEW t, NEW w, NEW v, SameWork(v, w), Bound(q, A, t, w) PROVE Bound(q, A, t, v)
  BY DEF SameWork, Bound, Had

\* A process that is over accepts nothing.
LEMMA BoundOver ==
    ASSUME NEW q, NEW A, NEW t, NEW w, NEW u, NEW v, Bound(q, A, t, w), u.epoch = t.epoch, u.process # "running",
           DOMAIN v.done = {}
    PROVE  Bound(q, A, u, v)
  BY DEF Bound, Had

\* A request with its number is the request.
LEMMA BoundTaken ==
    ASSUME NEW q, NEW id, NEW A, NEW t, NEW w, Bound(q, A, t, w) PROVE Bound(Extended(q, "id", id), A, t, w)
<1> DEFINE x == Extended(q, "id", id)
<1>1. Extends(x, q, "id", id)
  BY ExtendedOK
<1> HIDE DEF x
<1>2. {"op", "job", "expected"} \subseteq DOMAIN q
  BY DEF Bound
<1>3. {"op", "job", "expected"} \subseteq DOMAIN x /\ x.op = q.op /\ x.job = q.job /\ x.expected = q.expected
  BY <1>1, <1>2 DEF Extends
<1> QED BY <1>3 DEF Bound, x

\* While the worker has a request, no other is on its way.
LEMMA BusyAlone == ASSUME Flights, Homes, Busy PROVE NoReal(client.calls)
<1>1. Guarded(client.calls) /\ Early(client.calls)
  BY DEF Flights, Wires, Apart, Homes, Sending
<1> QED BY <1>1 DEF Guarded, Early, NoReal

\* The transport and the worker leave the jobs alone.
LEMMA AwayHomes ==
    ASSUME Homes, Elsewhere, client'.epoch = client.epoch
    PROVE  /\ Away /\ UNCHANGED <<asked, project, revision>>
           /\ Lined(jobs', queue', active') /\ AtHome' /\ Wired'
<1>1. UNCHANGED <<jobs, active, frames, available, queue, asked, project, revision>>
  BY DEF Elsewhere, serviceVars, table, session, context, ghosts
<1>2. Away
  BY <1>1 DEF Away
<1>3. Wire' = Wire /\ \A n : Context(n)' <=> Context(n)
  BY <1>2, AwaySame
<1>4. Lined(jobs', queue', active') /\ AtHome'
  BY <1>1 DEF Homes, AtHome
<1>5. Wired'
  BY <1>1, <1>3 DEF Homes, Wired
<1> QED BY <1>1, <1>2, <1>4, <1>5

\* What is posted: no reply, or one that tells a revision the worker had.
Tells(m) ==
    /\ m.type = "response" /\ m.epoch = client.epoch /\ Wire # 0 /\ m.id = Wire
    /\ m.code # "progress" /\ Contextual(m)
Utters == UNCHANGED posted \/ \E m : Post(m) /\ (Tells(m) => Had(transport', worker', m.project, m.revision))

\* The service knows what it knew, and what it will hear is known.
LEMMA KnownPosts ==
    ASSUME Known, IsSeq(posted), Away, UNCHANGED <<project, revision>>, client'.epoch = client.epoch, Utters,
           \A p, r : Had(transport, worker, p, r) => Had(transport', worker', p, r)
    PROVE  Known'
<1>1. Had(transport', worker', project', revision') /\ (~available' => project' = 0 /\ revision' = 0)
  BY DEF Known, Away
<1>2. \A n : Contextual(posted[n])' <=> Contextual(posted'[n])
  BY DEF Contextual
<1>3. ASSUME NEW n \in DOMAIN posted', Final(n)', Contextual(posted'[n])
      PROVE  Had(transport', worker', posted'[n].project, posted'[n].revision)
  <2>1. CASE UNCHANGED posted
    <3>1. Final(n)
      BY <1>3, <2>1, AwaySame DEF Final, About
    <3>2. Had(transport, worker, posted[n].project, posted[n].revision)
      BY <1>3, <2>1, <3>1 DEF Known
    <3> QED BY <2>1, <3>2
  <2>2. ASSUME NEW m, Post(m), Tells(m) => Had(transport', worker', m.project, m.revision)
        PROVE  Had(transport', worker', posted'[n].project, posted'[n].revision)
    <3>1. Posted(m)
      BY <2>2, PostOK
    <3>2. CASE n \in DOMAIN posted
      <4>1. Final(n) /\ posted'[n] = posted[n]
        BY <1>3, <3>1, <3>2, PostedSame DEF Posted
      <4>2. Had(transport, worker, posted[n].project, posted[n].revision)
        BY <1>3, <3>2, <4>1 DEF Known
      <4> QED BY <4>1, <4>2
    <3>3. CASE n \notin DOMAIN posted
      <4>1. posted'[n] = m /\ About(n)' /\ m.code # "progress"
        BY <1>3, <3>1, <3>3, PostedSame DEF Final
      <4>2. m.type = "response" /\ m.epoch = client.epoch /\ Wire # 0 /\ m.id = Wire
        BY <1>3, <3>1, <3>3, <4>1, PostedSame
      <4>3. Tells(m)
        BY <1>3, <4>1, <4>2 DEF Tells
      <4> QED BY <2>2, <4>1, <4>3
    <3> QED BY <3>2, <3>3
  <2> QED BY <2>1, <2>2 DEF Utters
<1> QED BY <1>1, <1>2, <1>3 DEF Known

\* The worker keeps its request, or it takes the one that is first.
Takes == /\ 1 \in DOMAIN client.calls /\ Real(client.calls[1])
         /\ worker'.request = Extended(client.calls[1].request, "id", client.calls[1].id)

\* A step that leaves the worker's content alone.
LEMMA WorkHomes ==
    ASSUME Flights, Homes, Elsewhere, UNCHANGED transport, client'.epoch = client.epoch, SameWork(worker', worker),
           client'.calls = client.calls \/ Drops(client'.calls, client.calls),
           Busy' => (Busy /\ worker'.request = worker.request) \/ Takes, Utters
    PROVE  Homes'
<1>1. /\ Away /\ UNCHANGED <<asked, project, revision>>
      /\ Lined(jobs', queue', active') /\ AtHome' /\ Wired'
  BY AwayHomes
<1>2. IsSeq(posted) /\ DoneOK /\ Sending /\ Named /\ Known /\ Ahead(worker.done, jobs, active)
  BY DEF Flights, Epochs, PostedOK, Homes
<1>3. DoneOK'
  <2>1. \A n \in DOMAIN worker.done : Home(worker.done[n], asked, transport, worker')
    BY <1>2 DEF DoneOK, Home, SameWork
  <2> QED BY <1>1, <1>2, <2>1 DEF DoneOK, SameWork
<1>4. Ahead(worker'.done, jobs', active')
  BY <1>1, <1>2 DEF Away, SameWork
<1>5. \A p, r : Had(transport, worker, p, r) => Had(transport', worker', p, r)
  BY DEF Had, SameWork
<1>6. Known'
  BY <1>1, <1>2, <1>5, KnownPosts
<1>7. Early(client'.calls) /\ Rest(client'.calls, client.calls)
  <2>1. Early(client.calls)
    BY <1>2 DEF Sending
  <2>2. CASE client'.calls = client.calls
    BY <2>1, <2>2 DEF Rest
  <2>3. CASE Drops(client'.calls, client.calls)
    BY <2>1, <2>3, EarlyDrops
  <2> QED BY <2>2, <2>3
<1>8. Sending'
  <2>1. transport'.process = "starting" => NoReal(client'.calls)
    BY <1>2, <1>7 DEF Sending, Rest, NoReal
  <2>2. \A n \in DOMAIN client'.calls : Real(client'.calls[n]) => Bound(client'.calls[n].request, asked, transport, worker')
    <3>1. \A m \in DOMAIN client.calls : Real(client.calls[m]) => Bound(client.calls[m].request, asked, transport, worker')
      BY <1>2, BoundSame DEF Sending
    <3> QED BY <1>7, <3>1 DEF Rest
  <2>3. Busy' => Bound(worker'.request, asked, transport, worker')
    <3>1. CASE Busy /\ worker'.request = worker.request
      <4>1. Bound(worker.request, asked, transport, worker')
        BY <1>2, <3>1, BoundSame DEF Sending
      <4> QED BY <3>1, <4>1
    <3>2. CASE Takes
      <4>1. Bound(client.calls[1].request, asked, transport, worker')
        BY <1>2, <3>2, BoundSame DEF Sending, Takes
      <4>2. Bound(Extended(client.calls[1].request, "id", client.calls[1].id), asked, transport, worker')
        BY <4>1, BoundTaken
      <4> QED BY <3>2, <4>2 DEF Takes
    <3> QED BY <3>1, <3>2
  <2> QED BY <1>1, <1>7, <2>1, <2>2, <2>3 DEF Sending
<1>9. Named'
  <2>1. SUFFICES ASSUME Wire' # 0
        PROVE  /\ \A n \in DOMAIN client'.calls : Real(client'.calls[n]) /\ client'.calls[n].id = Wire' =>
                     client'.calls[n].request.job = active'
               /\ Busy' /\ worker'.request.id = Wire' => worker'.request.job = active'
    BY DEF Named
  <2>2. Wire' = Wire /\ active' = active
    BY <1>1, AwaySame DEF Away
  <2>3. /\ \A n \in DOMAIN client.calls : Real(client.calls[n]) /\ client.calls[n].id = Wire =>
               client.calls[n].request.job = active
        /\ Busy /\ worker.request.id = Wire => worker.request.job = active
    BY <1>2, <2>1, <2>2 DEF Named
  <2>4. \A n \in DOMAIN client'.calls : Real(client'.calls[n]) /\ client'.calls[n].id = Wire =>
            client'.calls[n].request.job = active
    BY <1>7, <2>3 DEF Rest
  <2>5. Busy' /\ worker'.request.id = Wire => worker'.request.job = active
    <3>1. CASE Busy /\ worker'.request = worker.request
      BY <2>3, <3>1
    <3>2. CASE Takes
      <4> DEFINE q == client.calls[1].request
                 i == client.calls[1].id
      <4>1. Bound(q, asked, transport, worker)
        BY <1>2, <3>2 DEF Sending, Takes
      <4>2. "job" \in DOMAIN q
        BY <4>1 DEF Bound
      <4>3. i = Wire => q.job = active
        BY <2>3, <3>2 DEF Takes
      <4>4. Extends(Extended(q, "id", i), q, "id", i)
        BY ExtendedOK
      <4>5. worker'.request = Extended(q, "id", i)
        BY <3>2 DEF Takes
      <4> HIDE DEF q, i
      <4>6. worker'.request.id = i /\ worker'.request.job = q.job
        BY <4>2, <4>4, <4>5 DEF Extends
      <4> QED BY <4>3, <4>6
    <3> QED BY <3>1, <3>2
  <2> QED BY <2>2, <2>4, <2>5
<1> QED BY <1>1, <1>3, <1>4, <1>6, <1>8, <1>9 DEF Homes

\* A worker that has nothing yet, behind no request that it could accept.
LEMMA FreshHomes ==
    ASSUME Flights, Homes, Elsewhere, client'.epoch = client.epoch, worker' = FreshWorker,
           transport'.process # "running", Early(client'.calls), Utters,
           \/ NoReal(client'.calls)
           \/ UNCHANGED client /\ transport'.epoch = transport.epoch /\ transport'.process # "starting"
    PROVE  Homes'
<1>1. /\ Away /\ UNCHANGED <<asked, project, revision>>
      /\ Lined(jobs', queue', active') /\ AtHome' /\ Wired'
  BY AwayHomes
<1>2. IsSeq(posted) /\ Sending /\ Named /\ Known
  BY DEF Flights, Epochs, PostedOK, Homes
<1>3. /\ worker'.revision = 0 /\ worker'.project = 0 /\ worker'.done = <<>> /\ ~Busy'
  BY DEF FreshWorker, Busy
<1>4. IsSeq(worker'.done) /\ DOMAIN worker'.done = {}
  BY <1>3, EmptySeqOK
<1>5. DoneOK' /\ Ahead(worker'.done, jobs', active')
  BY <1>3, <1>4 DEF DoneOK, Ahead
<1>6. \A p, r : Had(transport, worker, p, r) => Had(transport', worker', p, r)
  BY DEF Had
<1>7. Known'
  BY <1>1, <1>2, <1>6, KnownPosts
<1>8. Sending'
  <2>1. CASE NoReal(client'.calls)
    BY <1>3, <2>1 DEF Sending, NoReal
  <2>2. CASE UNCHANGED client /\ transport'.epoch = transport.epoch /\ transport'.process # "starting"
    <3>1. \A n \in DOMAIN client.calls : Real(client.calls[n]) => Bound(client.calls[n].request, asked, transport', worker')
      BY <1>2, <1>4, <2>2, BoundOver DEF Sending
    <3> QED BY <1>1, <1>3, <2>2, <3>1 DEF Sending
  <2> QED BY <2>1, <2>2
<1>9. Named'
  <2>1. Wire' = Wire /\ active' = active
    BY <1>1, AwaySame DEF Away
  <2>2. CASE NoReal(client'.calls)
    BY <1>3, <2>2 DEF Named, NoReal
  <2>3. CASE UNCHANGED client
    BY <1>2, <1>3, <2>1, <2>3 DEF Named
  <2> QED BY <2>2, <2>3
<1> QED BY <1>1, <1>5, <1>7, <1>8, <1>9 DEF Homes

\* The transport's steps.
LEMMA TransportHomes == ASSUME Flights, Homes, Transport PROVE Homes'
<1>1. /\ Tables /\ Epochs /\ Wires /\ Ids /\ IsClient(client) /\ IsWorker(worker) /\ Elsewhere /\ IsSeq(posted)
      /\ TransportOK /\ Early(client.calls)
  BY ElsewhereOnly DEF Flights, Epochs, ClientOK, Wires, WorkerOK, PostedOK, Homes, Sending
<1>2. ASSUME NEW name, NextCall(name)
      PROVE  client'.epoch = client.epoch /\ Drops(client'.calls, client.calls) /\ client.calls[1].call = name
  BY <1>1, <1>2, NextCallOK
<1>3. CASE Starts \/ Stops
  <2>1. (TransportStart \/ TransportStop) /\ UNCHANGED posted /\ worker' = FreshWorker
    BY <1>3 DEF Starts, Stops, TransportStart, TransportStop
  <2>2. PICK name \in {"start", "stop"} : NextCall(name)
    BY <2>1 DEF TransportStart, TransportStop
  <2>3. /\ client'.epoch = client.epoch /\ Drops(client'.calls, client.calls) /\ Boundary(client.calls[1])
    BY <1>2, <2>2 DEF Boundary
  <2>4. transport'.process # "running"
    BY <1>1, <2>1 DEF TransportStart, TransportStop, TransportOK
  <2>5. Early(client'.calls) /\ NoReal(client'.calls)
    BY <1>1, <2>3, EarlyDrops
  <2> QED BY <1>1, <2>1, <2>3, <2>4, <2>5, FreshHomes DEF Utters
<1>4. ASSUME NextCall("send") PROVE /\ Head(client.calls) = client.calls[1] /\ client.calls[1].call = "send"
                                    /\ 1 \in DOMAIN client.calls
  BY <1>1, <1>4, TakeSend
<1>5. CASE Refuses \/ Fills
  <2> DEFINE call == Head(client.calls)
  <2>1. PICK code \in {"transport_unavailable", "queue_full"} :
           NextCall("send") /\ UNCHANGED <<transport, worker>> /\ Post(Unsent(call.id, code))
    BY <1>5 DEF Refuses, Fills, TransportUnavailable, TransportFull
  <2>2. PICK m : m = Unsent(call.id, code)
    OBVIOUS
  <2>3. ~Tells(m) /\ Post(m)
    BY <2>1, <2>2 DEF Unsent, Tells, Contextual
  <2>4. Utters
    BY <2>3 DEF Utters
  <2>5. SameWork(worker', worker) /\ (Busy' => Busy /\ worker'.request = worker.request)
    BY <2>1 DEF SameWork, Busy
  <2>6. client'.epoch = client.epoch /\ Drops(client'.calls, client.calls)
    BY <1>2, <2>1
  <2> QED BY <1>1, <2>1, <2>4, <2>5, <2>6, WorkHomes
<1>6. CASE WorkerReads
  <2> DEFINE call == client.calls[1]
  <2>1. /\ NextCall("send") /\ UNCHANGED transport /\ Head(client.calls) = call /\ call.call = "send"
        /\ 1 \in DOMAIN client.calls
    BY <1>4, <1>6 DEF WorkerReads, TransportWrite
  <2>2. client'.epoch = client.epoch /\ Drops(client'.calls, client.calls)
    BY <1>2, <2>1
  <2>3. CASE call.request.op = "cancel"
    <3> DEFINE r == worker.recalled \/ worker.request.id = call.request.target
    <3>1. PICK m : m = Reply(worker, call.id, "cancel", "ok")
      OBVIOUS
    <3>2. worker' = [worker EXCEPT !.recalled = r] /\ Post(m)
      BY <1>6, <2>1, <2>3, <3>1 DEF WorkerReads
    <3>3. m.id = call.id
      BY <3>1 DEF Reply
    <3>4. call.id # Wire
      BY <1>1, <2>1, <2>3 DEF Ids, Real
    <3>5. Utters
      BY <3>2, <3>3, <3>4 DEF Utters, Tells
    <3> HIDE DEF r
    <3>6. SameWork(worker', worker) /\ worker'.request = worker.request
      BY <1>1, <3>2 DEF SameWork, IsWorker, WorkerFields
    <3>7. Busy' => Busy /\ worker'.request = worker.request
      BY <3>6 DEF Busy
    <3> QED BY <1>1, <2>1, <2>2, <3>5, <3>6, <3>7, WorkHomes
  <2>4. CASE call.request.op # "cancel"
    <3> DEFINE r == Extended(call.request, "id", call.id)
    <3>1. worker' = [worker EXCEPT !.request = r] /\ UNCHANGED posted
      BY <1>6, <2>1, <2>4 DEF WorkerReads
    <3>2. Real(client.calls[1])
      BY <2>1, <2>4 DEF Real
    <3> HIDE DEF r
    <3>3. SameWork(worker', worker) /\ worker'.request = r
      BY <1>1, <3>1 DEF SameWork, IsWorker, WorkerFields
    <3>4. Takes
      BY <2>1, <3>2, <3>3 DEF Takes, r
    <3> QED BY <1>1, <2>1, <2>2, <3>1, <3>3, <3>4, WorkHomes DEF Utters
  <2> QED BY <2>3, <2>4
<1> QED BY <1>3, <1>5, <1>6 DEF Transport

\* The process speaks first, before anything is sent to it.
LEMMA BeginHomes == ASSUME Flights, Homes, SaysHello \/ SaysFatal PROVE Homes'
<1>1. /\ Tables /\ Epochs /\ JobsLive /\ WorkerOK /\ TransportOK /\ Sending /\ DoneOK /\ Known /\ Named
      /\ Ahead(worker.done, jobs, active)
  BY DEF Flights, Epochs, Wires, Homes
<1>2. /\ transport.process = "starting" /\ transport' = [transport EXCEPT !.process = "running"]
      /\ UNCHANGED <<client, worker>> /\ Elsewhere
  BY DEF SaysHello, SaysFatal, ProcessStarted
<1>3. transport'.epoch = transport.epoch /\ transport'.process = "running"
  BY <1>1, <1>2 DEF TransportOK
<1>4. ~available
  BY <1>1, <1>2 DEF Epochs, Life, AvailableIsCurrent
<1>5. Wire = 0 /\ project = 0 /\ revision = 0
  BY <1>1, <1>4, WireFacts DEF Known
<1>6. NoReal(client.calls) /\ ~Busy
  BY <1>1, <1>2 DEF Sending, WorkerOK
<1>7. /\ Away /\ UNCHANGED <<asked, project, revision>>
      /\ Lined(jobs', queue', active') /\ AtHome' /\ Wired'
  BY <1>2, AwayHomes
<1>8. Wire' = 0 /\ \A n : ~Final(n)'
  BY <1>5, <1>7, AwaySame DEF Final, About
<1>9. Known'
  <2>1. Had(transport', worker, 0, 0)
    BY <1>1 DEF DoneOK, Had
  <2> QED BY <1>2, <1>5, <1>7, <1>8, <2>1 DEF Known
<1>10. Named' /\ Ahead(worker'.done, jobs', active')
  BY <1>1, <1>2, <1>7, <1>8 DEF Named, Away
<1>11. Sending'
  BY <1>1, <1>2, <1>3, <1>6 DEF Sending, NoReal, Busy
<1>12. DoneOK'
  <2>1. \A n \in DOMAIN worker.done : Home(worker.done[n], asked, transport', worker)
    BY <1>1, <1>3 DEF DoneOK, Home
  <2> QED BY <1>1, <1>2, <1>7, <2>1 DEF DoneOK
<1> QED BY <1>7, <1>9, <1>10, <1>11, <1>12 DEF Homes

\* The worker's steps, but its answers.
LEMMA QuietProcessHomes ==
    ASSUME Flights, Homes, Exits \/ WorkerProgress \/ WorkerDiscovers \/ WorkerBeats \/ UNCHANGED vars
    PROVE  Homes'
<1>1. /\ IsWorker(worker) /\ TransportOK /\ IsSeq(posted) /\ Early(client.calls)
  BY DEF Flights, Epochs, Wires, WorkerOK, PostedOK, Homes, Sending
<1>2. UNCHANGED client /\ Elsewhere
  BY DEF Exits, ProcessExits, WorkerProgress, WorkerDiscovers, WorkerBeats, vars, clientVars,
     Elsewhere
<1>3. CASE Exits
  <2>1. transport' = [transport EXCEPT !.process = "none"] /\ Post(Stopped) /\ worker' = FreshWorker
    BY <1>3 DEF Exits, ProcessExits
  <2>2. PICK m : m = Stopped
    OBVIOUS
  <2>3. Post(m) /\ ~Tells(m)
    BY <2>1, <2>2 DEF Stopped, Tells
  <2>4. transport'.epoch = transport.epoch /\ transport'.process = "none"
    BY <1>1, <2>1 DEF TransportOK
  <2>5. Utters
    BY <2>3 DEF Utters
  <2> QED BY <1>1, <1>2, <2>1, <2>4, <2>5, FreshHomes
<1>4. ASSUME UNCHANGED transport, SameWork(worker', worker), worker'.request = worker.request, Utters PROVE Homes'
  <2>1. Busy' => Busy /\ worker'.request = worker.request
    BY <1>4 DEF Busy
  <2> QED BY <1>2, <1>4, <2>1, WorkHomes
<1>5. ASSUME UNCHANGED <<transport, worker>>, NEW m, Post(m), ~Tells(m) PROVE Homes'
  BY <1>4, <1>5 DEF Utters, SameWork
<1>6. CASE WorkerProgress
  <2>1. UNCHANGED <<transport, worker>> /\ Post(Reply(worker, worker.request.id, "open", "progress"))
    BY <1>6 DEF WorkerProgress
  <2>2. PICK m : m = Reply(worker, worker.request.id, "open", "progress")
    OBVIOUS
  <2>3. Post(m) /\ ~Tells(m)
    BY <2>1, <2>2 DEF Reply, Tells
  <2> QED BY <1>5, <2>1, <2>3
<1>7. CASE WorkerDiscovers
  <2>1. UNCHANGED <<transport, posted>>
    BY <1>7 DEF WorkerDiscovers, clientVars
  <2>2. PICK graph : worker' = [worker EXCEPT !.gen = @ + 1, !.graph = graph]
    BY <1>7 DEF WorkerDiscovers
  <2>3. SameWork(worker', worker) /\ worker'.request = worker.request
    BY <1>1, <2>2 DEF SameWork, IsWorker, WorkerFields
  <2> QED BY <1>4, <2>1, <2>3 DEF Utters
<1>8. CASE WorkerBeats
  <2>1. UNCHANGED <<transport, worker>>
    BY <1>8 DEF WorkerBeats
  <2>2. PICK gen : Post([type |-> "heartbeat", epoch |-> transport.epoch,
                         of |-> <<worker.project, worker.revision>>, gen |-> gen])
    BY <1>8 DEF WorkerBeats
  <2>3. PICK m : m = [type |-> "heartbeat", epoch |-> transport.epoch,
                      of |-> <<worker.project, worker.revision>>, gen |-> gen]
    OBVIOUS
  <2>4. Post(m) /\ ~Tells(m)
    BY <2>2, <2>3 DEF Tells
  <2> QED BY <1>5, <2>1, <2>4
<1>9. CASE UNCHANGED vars
  <2>1. UNCHANGED <<transport, worker, posted>>
    BY <1>9 DEF vars, clientVars
  <2> QED BY <1>4, <2>1 DEF Utters, SameWork
<1> QED BY <1>3, <1>6, <1>7, <1>8, <1>9

\* What an answer makes of the worker's content: nothing new, the opened
\* project, or one more command that expected the revision it found.
Reads(v, w) == v.done = w.done /\ v.project = w.project /\ v.revision \in {w.revision, w.revision + 1}
Opens(v, w) ==
    /\ w.request.op = "open" /\ v.done = <<w.request.job>>
    /\ v.project = w.revision + 1 /\ v.revision = w.revision + 1
Commits(v, w) ==
    /\ w.request.op \in {"edit", "section", "save"} /\ w.request.expected = w.revision
    /\ v.done = Append(w.done, w.request.job)
    /\ v.project = w.project /\ v.revision \in {w.revision, w.revision + 1}

\* What each operation does.
LEMMA WorkerMoves ==
    ASSUME NEW w, IsWorker(w)
    PROVE  /\ Reads(w, w) /\ Reads(Analyzed(w), w) /\ \A v \in LaidOut(w) : Reads(v, w)
           /\ w.request.op = "open" => Opens(Opened(w), w)
           /\ w.request.op \in {"edit", "section"} /\ w.request.expected = w.revision =>
                 Commits(Edited(w), w) /\ Commits([Edited(w) EXCEPT !.analyzed = FALSE], w)
           /\ w.request.op = "save" /\ w.request.expected = w.revision => Commits(Did(w), w)
<1>1. Reads(w, w)
  BY DEF Reads
<1>2. Reads(Analyzed(w), w)
  BY DEF Reads, Analyzed, IsWorker, WorkerFields
<1>3. IsWorker(Did(w)) /\ IsWorker(Edited(w)) /\ IsWorker(Analyzed(w))
  BY WorkerMade
<1>4. Did(w).done = Append(w.done, w.request.job) /\ Did(w).project = w.project /\ Did(w).revision = w.revision
  BY DEF Did, IsWorker, WorkerFields
<1>5. /\ Edited(w).done = Append(w.done, w.request.job) /\ Edited(w).project = w.project
      /\ Edited(w).revision = w.revision + 1
  <2> DEFINE d == Did(w)
  <2>1. Edited(w) = [d EXCEPT !.revision = @ + 1, !.graph = 0]
    BY DEF Edited
  <2>2. IsWorker(d) /\ d.done = Append(w.done, w.request.job) /\ d.project = w.project /\ d.revision = w.revision
    BY <1>3, <1>4
  <2> HIDE DEF d
  <2>3. Edited(w).done = d.done /\ Edited(w).project = d.project /\ Edited(w).revision = d.revision + 1
    BY <2>1, <2>2 DEF IsWorker, WorkerFields
  <2> QED BY <2>2, <2>3
<1>6. SameWork([Edited(w) EXCEPT !.analyzed = FALSE], Edited(w))
  <2> DEFINE e == Edited(w)
  <2>1. IsWorker(e)
    BY <1>3
  <2> HIDE DEF e
  <2>2. SameWork([e EXCEPT !.analyzed = FALSE], e)
    BY <2>1 DEF SameWork, IsWorker, WorkerFields
  <2> QED BY <2>2 DEF e
<1>7. \A v \in LaidOut(w) : Reads(v, w)
  <2>1. CASE w.graph # 0
    BY <1>1, <2>1 DEF LaidOut
  <2>2. CASE w.graph = 0
    <3> DEFINE g == w.revision
    <3>1. LaidOut(w) = {[v EXCEPT !.graph = g] : v \in {w, Analyzed(w)}}
      BY <2>2 DEF LaidOut
    <3>2. ASSUME NEW v, IsWorker(v), Reads(v, w) PROVE Reads([v EXCEPT !.graph = g], w)
      <4> HIDE DEF g
      <4>1. SameWork([v EXCEPT !.graph = g], v)
        BY <3>2 DEF SameWork, IsWorker, WorkerFields
      <4> QED BY <3>2, <4>1 DEF SameWork, Reads
    <3>3. \A v \in {w, Analyzed(w)} : Reads([v EXCEPT !.graph = g], w)
      BY <1>1, <1>2, <1>3, <3>2
    <3> HIDE DEF g
    <3> QED BY <3>1, <3>3
  <2> QED BY <2>1, <2>2
<1>8. w.request.op = "open" => Opens(Opened(w), w)
  BY DEF Opens, Opened, IsWorker, WorkerFields
<1>9. w.request.op \in {"edit", "section"} /\ w.request.expected = w.revision =>
          Commits(Edited(w), w) /\ Commits([Edited(w) EXCEPT !.analyzed = FALSE], w)
  BY <1>5, <1>6 DEF Commits, SameWork
<1>10. w.request.op = "save" /\ w.request.expected = w.revision => Commits(Did(w), w)
  BY <1>4 DEF Commits
<1> QED BY <1>1, <1>2, <1>7, <1>8, <1>9, <1>10

\* So does any outcome.
LEMMA OutcomeMoves ==
    ASSUME NEW w, IsWorker(w), NEW o \in Outcomes(w)
    PROVE  Reads(o[1], w) \/ Opens(o[1], w) \/ Commits(o[1], w)
<1> DEFINE s == [Edited(w) EXCEPT !.analyzed = FALSE]
           op == w.request.op
           reads == {w, Analyzed(w)} \union LaidOut(w)
<1>1. \A v \in reads : Reads(v, w)
  BY WorkerMoves
<1>2. /\ op = "open" => Opens(Opened(w), w)
      /\ op \in {"edit", "section"} /\ w.request.expected = w.revision => Commits(Edited(w), w) /\ Commits(s, w)
      /\ op = "save" /\ w.request.expected = w.revision => Commits(Did(w), w)
  BY WorkerMoves
<1>3. \/ \E v \in reads : \E code : o = <<v, code>>
      \/ op = "open" /\ \E code : o = <<Opened(w), code>>
      \/ op \in {"edit", "section"} /\ w.request.expected = w.revision /\ \E v \in {Edited(w), s} : \E code : o = <<v, code>>
      \/ op = "save" /\ w.request.expected = w.revision /\ \E code : o = <<Did(w), code>>
  <2> HIDE DEF s
  <2>1. CASE w.request.expected # w.revision
    BY <2>1 DEF Outcomes
  <2>2. CASE w.request.expected = w.revision /\ w.request.op = "open"
    BY <2>2 DEF Outcomes
  <2>3. CASE w.request.expected = w.revision /\ w.request.op # "open"
    BY <2>3 DEF Outcomes, s
  <2> QED BY <2>1, <2>2, <2>3
<1> HIDE DEF s, op, reads
<1> QED BY <1>1, <1>2, <1>3

\* The commands the worker ran, with the one it has just run: they were meant
\* for it, in this order, and every job but the active one was asked for later.
LEMMA RanHomes ==
    ASSUME Flights, Homes, Busy, Opens(worker', worker) \/ Commits(worker', worker), UNCHANGED transport,
           UNCHANGED <<jobs, active, asked>>
    PROVE  DoneOK' /\ Ahead(worker'.done, jobs', active')
<1> DEFINE w == worker
           c == worker.request.job
           A == asked
<1>1. /\ Tables /\ Epochs /\ JobsLive /\ Placed(jobs, queue, active) /\ DoneOK /\ w.revision \in Nat /\ IsSeq(w.done)
      /\ transport.process = "running" /\ Lined(jobs, queue, active) /\ AtHome /\ Ahead(w.done, jobs, active)
      /\ Bound(worker.request, asked, transport, worker) /\ Named
  BY DEF Flights, Tables, Places, Wires, WorkerOK, Homes, DoneOK, Sending
<1>2. /\ c \in DOMAIN A /\ A[c].process = transport.epoch /\ A[c].query.kind = "command"
      /\ A[c].query.op = worker.request.op /\ \A n \in DOMAIN w.done : w.done[n] < c
  BY <1>1 DEF Bound, Opens, Commits, CommandOps
<1>3. \A j \in DOMAIN jobs : c < j \/ (c = j /\ j = active)
  <2>1. SUFFICES ASSUME NEW j \in DOMAIN jobs PROVE c < j \/ (c = j /\ j = active)
    OBVIOUS
  <2>2. available /\ Wire # 0 /\ worker.request.id = Wire
    BY <1>1, <2>1 DEF JobsLive, Flights, Wires, Flight
  <2>3. c = active /\ active # 0
    BY <2>2 DEF Homes, Named, Wire
  <2>4. active \in DOMAIN jobs
    BY <1>1, <2>3 DEF Placed
  <2>5. jobs[active].query.kind = "command"
    BY <1>1, <1>2, <2>3, <2>4 DEF AtHome, Meant
  <2>6. CASE j # active
    <3>1. j \in Members(queue)
      BY <1>1, <2>6 DEF Placed
    <3>2. PICK n \in DOMAIN queue : queue[n] = j
      BY <3>1 DEF Members
    <3>3. InOrder(jobs, active, j)
      BY <1>1, <2>3, <3>2 DEF Lined
    <3> QED BY <2>3, <2>5, <3>3 DEF InOrder
  <2> QED BY <2>3, <2>6
<1>4. CASE Opens(worker', worker)
  <2>1. /\ worker'.done = <<c>> /\ worker'.revision = w.revision + 1 /\ A[c].query.op = "open"
    BY <1>2, <1>4 DEF Opens
  <2>2. IsSeq(worker'.done) /\ DOMAIN worker'.done = {1} /\ worker'.done[1] = c
    <3>1. <<c>> \in Seq({c}) /\ DOMAIN <<c>> = {1} /\ <<c>>[1] = c
      OBVIOUS
    <3>2. IsSeq(<<c>>)
      BY <3>1, TypedSeq
    <3> HIDE DEF c
    <3> QED BY <2>1, <3>1, <3>2
  <2>3. worker'.revision \in Nat /\ worker'.revision # 0
    BY <1>1, <2>1
  <2> HIDE DEF c, A, w
  <2>4. Home(c, A, transport, worker')
    BY <1>2, <2>1 DEF Home
  <2>5. DoneOK'
    BY <2>2, <2>3, <2>4 DEF DoneOK, A
  <2> QED BY <1>3, <2>2, <2>5 DEF Ahead
<1>5. CASE Commits(worker', worker)
  <2>1. /\ worker'.done = Append(w.done, c) /\ worker'.project = w.project
        /\ worker'.revision \in {w.revision, w.revision + 1} /\ A[c].project = w.project
    <3>1. /\ worker'.done = Append(w.done, c) /\ worker'.project = w.project
          /\ worker'.revision \in {w.revision, w.revision + 1} /\ worker.request.expected = worker.revision
      BY <1>5 DEF Commits
    <3>2. Had(transport, worker, A[c].project, worker.request.expected)
      BY <1>1, <1>5 DEF Bound, Commits, CommandOps
    <3> QED BY <1>1, <3>1, <3>2 DEF Had
  <2>2. Adds(worker'.done, w.done, c)
    BY <1>1, <2>1, AddsOK
  <2>3. worker'.revision \in Nat /\ (worker'.revision = 0 => worker'.project = 0)
    <3>1. w.revision = 0 => w.project = 0
      BY <1>1 DEF DoneOK
    <3> QED BY <1>1, <2>1, <3>1
  <2>4. \A n \in DOMAIN w.done : Home(w.done[n], A, transport, worker')
    BY <1>1, <2>1 DEF DoneOK, Home
  <2>5. \A m, n \in DOMAIN w.done : m < n => w.done[m] < w.done[n]
    BY <1>1 DEF DoneOK
  <2> HIDE DEF c, A, w
  <2>6. Home(c, A, transport, worker')
    BY <1>2, <2>1 DEF Home
  <2> DEFINE l == Len(w.done) + 1
             d == worker'.done
  <2>7. /\ IsSeq(d) /\ DOMAIN d = DOMAIN w.done \union {l} /\ d[l] = c /\ l \in Nat
        /\ \A n \in DOMAIN w.done : d[n] = w.done[n] /\ n \in Nat /\ n < l
    BY <2>2 DEF Adds
  <2> HIDE DEF l, d
  <2>8. \A m, n \in DOMAIN d : m < n => d[m] < d[n]
    <3>1. SUFFICES ASSUME NEW m \in DOMAIN d, NEW n \in DOMAIN d, m < n PROVE d[m] < d[n]
      OBVIOUS
    <3>2. m \in DOMAIN w.done
      BY <2>7, <3>1
    <3> QED BY <1>2, <2>5, <2>7, <3>1, <3>2
  <2>9. \A n \in DOMAIN d : Home(d[n], A, transport, worker')
    BY <2>4, <2>6, <2>7
  <2>10. DoneOK'
    BY <2>3, <2>7, <2>8, <2>9 DEF DoneOK, d, A
  <2>11. Ahead(d, jobs, active)
    <3>1. Ahead(w.done, jobs, active)
      BY <1>1
    <3> QED BY <1>3, <2>7, <3>1 DEF Ahead
  <2> QED BY <2>10, <2>11 DEF d
<1> QED BY <1>4, <1>5

\* The worker's answers.
LEMMA AnswerHomes == ASSUME Flights, Homes, WorkerAnswers PROVE Homes'
<1>1. /\ Epochs /\ IsWorker(worker) /\ IsSeq(posted) /\ DoneOK /\ Known /\ Sending /\ Ahead(worker.done, jobs, active)
      /\ worker.revision \in Nat
  BY DEF Flights, Epochs, Wires, WorkerOK, PostedOK, Homes, DoneOK
<1>2. UNCHANGED <<client, transport>> /\ Busy /\ Elsewhere
  BY DEF WorkerAnswers, Busy
<1>3. /\ Away /\ UNCHANGED <<asked, project, revision>>
      /\ Lined(jobs', queue', active') /\ AtHome' /\ Wired'
  BY <1>2, AwayHomes
<1>4. PICK outcome \in Outcomes(worker) \union {<<worker, "cancelled">>} :
         /\ worker' = [outcome[1] EXCEPT !.request = Idle, !.recalled = FALSE]
         /\ \E code : Post(Reply(outcome[1], worker.request.id, worker.request.op, code))
  BY DEF WorkerAnswers
<1>5. PICK code : Post(Reply(outcome[1], worker.request.id, worker.request.op, code))
  BY <1>4
<1> DEFINE w == outcome[1]
<1>6. IsWorker(w) /\ (Reads(w, worker) \/ Opens(w, worker) \/ Commits(w, worker))
  <2>1. CASE outcome \in Outcomes(worker)
    BY <1>1, <2>1, OutcomeWorker, OutcomeMoves
  <2>2. CASE outcome = <<worker, "cancelled">>
    BY <1>1, <2>2, WorkerMoves
  <2> QED BY <1>4, <2>1, <2>2
<1>7. PICK m : m = Reply(w, worker.request.id, worker.request.op, code)
  OBVIOUS
<1>8. Post(m) /\ m.project = w.project /\ m.revision = w.revision
  BY <1>5, <1>7 DEF Reply
<1>9. worker' = [w EXCEPT !.request = Idle, !.recalled = FALSE]
  BY <1>4
<1> HIDE DEF w
<1>10. SameWork(worker', w) /\ ~Busy'
  <2>1. SameWork(worker', w) /\ worker'.request = Idle
    BY <1>6, <1>9 DEF SameWork, IsWorker, WorkerFields
  <2> QED BY <2>1 DEF Busy
<1>11. Reads(worker', worker) \/ Opens(worker', worker) \/ Commits(worker', worker)
  BY <1>6, <1>10 DEF SameWork, Reads, Opens, Commits
<1>12. worker'.revision = worker.revision + 1 \/ (worker'.revision = worker.revision /\ worker'.project = worker.project)
  BY <1>11 DEF Reads, Opens, Commits
<1>13. Known'
  <2>1. \A p, r : Had(transport, worker, p, r) => Had(transport', worker', p, r)
    <3>1. \A p, r : Had(transport, worker, p, r) => Had(transport, worker', p, r)
      BY <1>1, <1>12, HadOn
    <3> QED BY <1>2, <3>1
  <2>2. Utters
    <3>1. m.revision = worker'.revision /\ m.project = worker'.project /\ worker'.revision \in Nat
      BY <1>1, <1>8, <1>10, <1>12 DEF SameWork
    <3>2. Had(transport', worker', m.project, m.revision)
      BY <3>1 DEF Had
    <3> QED BY <1>8, <3>2 DEF Utters
  <2>3. client'.epoch = client.epoch
    BY <1>2
  <2> QED BY <1>1, <1>3, <2>1, <2>2, <2>3, KnownPosts
<1>14. Sending' /\ Named'
  <2>1. NoReal(client.calls)
    BY <1>2, BusyAlone
  <2> QED BY <1>1, <1>2, <1>10, <2>1 DEF Sending, Named, NoReal
<1>15. DoneOK' /\ Ahead(worker'.done, jobs', active')
  <2>1. CASE Reads(worker', worker)
    <3>1. worker'.revision \in Nat /\ (worker'.revision = 0 => worker'.project = 0)
      <4>1. worker.revision = 0 => worker.project = 0
        BY <1>1 DEF DoneOK
      <4> QED BY <1>1, <2>1, <4>1 DEF Reads
    <3>2. \A n \in DOMAIN worker.done : Home(worker.done[n], asked, transport, worker')
      BY <1>1, <2>1 DEF DoneOK, Home, Reads
    <3> QED BY <1>1, <1>2, <1>3, <2>1, <3>1, <3>2 DEF DoneOK, Reads, Away
  <2>2. CASE Opens(worker', worker) \/ Commits(worker', worker)
    BY <1>2, <1>3, <2>2, RanHomes DEF Away
  <2> QED BY <1>11, <2>1, <2>2
<1> QED BY <1>3, <1>13, <1>14, <1>15 DEF Homes

\* At first nothing was run, or the open was.
LEMMA HomesInit == ASSUME Init \/ OpenedInit PROVE Homes
<1>1. /\ jobs = <<>> /\ posted = <<>> /\ queue = <<>> /\ frames = <<>> /\ active = 0
      /\ ~available => project = 0 /\ revision = 0
  BY DEF Init, ServiceInit, OpenedInit
<1>2. DOMAIN jobs = {} /\ DOMAIN posted = {} /\ DOMAIN queue = {} /\ Wire = 0
  BY <1>1, EmptySeqOK DEF Wire
<1>3. Named /\ Wired /\ AtHome /\ Lined(jobs, queue, active) /\ Ahead(worker.done, jobs, active)
  BY <1>1, <1>2 DEF Named, Wired, AtHome, Lined, Ahead
<1>4. CASE Init
  <2>1. /\ worker.done = <<>> /\ worker.revision = 0 /\ worker.project = 0 /\ ~Busy
        /\ transport.process = "none" /\ project = 0 /\ revision = 0
    BY <1>4 DEF Init, ServiceInit, FreshWorker, Busy, NewTransport
  <2>2. DoneOK
    BY <2>1, EmptySeqOK DEF DoneOK
  <2>3. Known
    BY <1>1, <1>2, <2>1 DEF Known, Had
  <2>4. \A n \in DOMAIN client.calls : ~Real(client.calls[n])
    <3>1. IsClient(NewClient) /\ NewClient.calls = <<>>
      BY EmptySeqOK DEF NewClient, IsClient
    <3> DEFINE c == NewClient
    <3>2. client = Start(c)
      BY <1>4 DEF Init
    <3>3. IsClient(c) /\ DOMAIN c.calls = {}
      BY <3>1, EmptySeqOK
    <3> HIDE DEF c
    <3>4. Grows(client.calls, c.calls)
      BY <3>2, <3>3, BoundaryGrows
    <3> QED BY <3>3, <3>4 DEF Grows
  <2>5. Sending
    BY <2>1, <2>4 DEF Sending, Early, NoReal
  <2> QED BY <1>3, <2>2, <2>3, <2>5 DEF Homes
<1>5. CASE OpenedInit
  <2>1. PICK x : asked = <<x>> /\ x.query.kind = "command" /\ x.query.op = "open" /\ x.process = 1
    BY <1>5 DEF OpenedInit
  <2>2. /\ worker.done = <<1>> /\ worker.revision = 1 /\ worker.project = 1 /\ ~Busy
        /\ transport.process = "running" /\ transport.epoch = 1 /\ project = 1 /\ revision = 1
    BY <1>5 DEF OpenedInit, FreshWorker, Busy
  <2>3. available /\ client.calls = <<>>
    BY <1>5 DEF OpenedInit
  <2>4. DOMAIN asked = {1} /\ asked[1] = x
    BY <2>1
  <2>5. IsSeq(worker.done) /\ DOMAIN worker.done = {1} /\ worker.done[1] = 1
    <3>1. <<1>> \in Seq({1}) /\ DOMAIN <<1>> = {1} /\ <<1>>[1] = 1
      OBVIOUS
    <3> QED BY <2>2, <3>1, TypedSeq
  <2>6. DoneOK
    BY <2>1, <2>2, <2>4, <2>5 DEF DoneOK, Home
  <2>7. Known
    BY <1>2, <2>2, <2>3 DEF Known, Had
  <2>8. Sending
    <3>1. DOMAIN client.calls = {}
      BY <2>3, EmptySeqOK
    <3> QED BY <2>2, <3>1 DEF Sending, Early, NoReal
  <2> QED BY <1>3, <2>6, <2>7, <2>8 DEF Homes
<1> QED BY <1>4, <1>5

\* Every step keeps commands at home.
LEMMA HomesStep == ASSUME Flights, Flights', Homes, [Next]_vars PROVE Homes'
<1>1. CASE Users
  BY <1>1, AskHomes, DetachHomes, LeaveHomes DEF Users
<1>2. CASE EventLoop
  BY <1>2, PumpHomes, QuietHomes, DeliverHomes, ContextHomes, TellHomes, EndHomes, LeaveHomes,
     ReplyHomes DEF EventLoop
<1>3. CASE Transport
  BY <1>3, TransportHomes
<1>4. CASE Process \/ UNCHANGED vars
  BY <1>4, BeginHomes, QuietProcessHomes, AnswerHomes DEF Process
<1> QED BY <1>1, <1>2, <1>3, <1>4 DEF Next

\* What the worker ran is what it was meant to run: commands run in the order
\* they were accepted, each at most once, by the process and on the project
\* they were meant for, however restarts, losses of the worker, opens and
\* retirements fall between the asking and the running.
THEOREM CommandsAreHome == Spec \/ OpenedSpec => []CommandsStayHome
<1> DEFINE Inv == Flights /\ Homes
<1>1. Init \/ OpenedInit => Inv
  BY TablesInit, EpochsInit, RequestsInit, HomesInit DEF Flights
<1>2. Inv /\ [Next]_vars => Inv'
  BY FlightsStep, HomesStep
<1>3. Inv => CommandsStayHome
  BY DEF Homes, DoneOK, Home, CommandsStayHome, Range
<1> QED BY <1>1, <1>2, <1>3, PTL DEF Spec, OpenedSpec
=============================================================================
