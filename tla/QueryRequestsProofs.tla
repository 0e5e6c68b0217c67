------------------------- MODULE QueryRequestsProofs ------------------------
(***************************************************************************)
(* Proofs about QuerySession: the service sends only to the process the    *)
(* client started last, and the worker never holds two requests.           *)
(*                                                                         *)
(* On top of Tables the invariant has two more groups: Epochs, for the     *)
(* processes, their calls and their messages, and Flights, for where the   *)
(* request of the active job is.                                           *)
(***************************************************************************)
EXTENDS QueryTablesProofs
-----------------------------------------------------------------------------
(* Processes, calls and messages.                                         *)

Boundary(c) == c.call \in {"start", "stop"}
Real(c) == c.call = "send" /\ c.request.op # "cancel"
CallOK(c, e, r) ==
    /\ c.call \in {"start", "stop", "send"}
    /\ c.call = "start" => c.epoch \in Nat /\ c.epoch <= e
    /\ c.call = "send" => c.id \in Nat /\ c.id # 0 /\ c.id <= r
IsClient(c) ==
    /\ c = [f \in {"epoch", "nextRequest", "calls"} |-> c[f]]
    /\ c.epoch \in Nat /\ c.nextRequest \in Nat /\ IsSeq(c.calls)
\* Nothing ends the process that the last start is for.
StartsLast(c) ==
    \A n \in DOMAIN c.calls : c.calls[n].call = "start" /\ c.calls[n].epoch = c.epoch =>
        \A m \in DOMAIN c.calls : m > n => ~Boundary(c.calls[m])
ClientOK ==
    /\ IsClient(client) /\ StartsLast(client)
    /\ \A n \in DOMAIN client.calls : CallOK(client.calls[n], client.epoch, client.nextRequest)
TransportOK ==
    /\ transport = [f \in {"epoch", "process"} |-> transport[f]]
    /\ transport.epoch \in Nat /\ transport.epoch <= client.epoch
    /\ transport.process \in {"none", "starting", "running"}
PostedOK ==
    /\ IsSeq(posted)
    /\ \A n \in DOMAIN posted :
          /\ posted[n].epoch \in Nat /\ posted[n].epoch <= client.epoch
          /\ posted[n].epoch = client.epoch => transport.epoch = client.epoch

\* A current process has no start or stop on its way.
Bounds ==
    transport.epoch = client.epoch => \A n \in DOMAIN client.calls : ~Boundary(client.calls[n])

\* A current process says hello once, before it is available, and its end is
\* posted after that.
Hello(n) == n \in DOMAIN posted /\ posted[n].type = "hello" /\ posted[n].epoch = client.epoch
Life ==
    /\ transport.epoch = client.epoch /\ transport.process = "starting" =>
          ~available /\ \A n \in DOMAIN posted : ~Hello(n)
    /\ \A m, n \in DOMAIN posted : Hello(m) /\ Hello(n) => m = n
    /\ \A n \in DOMAIN posted : Hello(n) =>
          /\ ~available
          /\ transport.process # "running" => \E m \in DOMAIN posted : m > n /\ posted[m] = Stopped
    /\ \A n \in DOMAIN posted :
          posted[n].type = "stopped" /\ posted[n].epoch = client.epoch => transport.process = "none"
Epochs == ClientOK /\ TransportOK /\ PostedOK /\ Bounds /\ Life /\ AvailableIsCurrent

-----------------------------------------------------------------------------
\* The jobs of a session that is over are gone; who flies waits for a reply.
Aloft(job) == job.phase \in {"reading", "summary", "viewport"}
Waits(job, newest) == job.wire \in Nat /\ job.wire <= newest /\ (job.wire # 0 <=> Aloft(job))
JobsLive ==
    /\ ~available => DOMAIN jobs = {}
    /\ \A j \in DOMAIN jobs : Waits(jobs[j], client.nextRequest)

\* A finished job is delivered by one task or one frame.
TaskOK(t) ==
    /\ t = [task |-> "deliver", job |-> t.job] /\ t.job \in DOMAIN asked
    /\ t.job \in DOMAIN jobs =>
          /\ jobs[t.job].phase = "delivering"
          /\ \A n \in DOMAIN frames : frames[n].frame = "deliver" => frames[n].job # t.job
HeldOK(n) ==
    frames[n].frame = "deliver" /\ frames[n].job \in DOMAIN jobs =>
        /\ jobs[frames[n].job].phase = "delivering"
        /\ \A m \in DOMAIN frames :
              frames[m].frame = "deliver" /\ frames[m].job = frames[n].job => m = n
Deliveries ==
    /\ \A t \in deferred : t.task = "deliver" => TaskOK(t)
    /\ \A n \in DOMAIN frames : frames[n].job \in DOMAIN asked /\ HeldOK(n)

\* The request the active job waits for.
Wire == IF active = 0 THEN 0 ELSE jobs[active].wire
WireOp == jobs[active].wireOp

Busy == worker.request # Idle
WorkerFields == {"project", "revision", "analyzed", "gen", "graph", "done", "request", "recalled"}
IsWorker(w) == w = [f \in WorkerFields |-> w[f]]
WorkerOK ==
    /\ IsWorker(worker)
    /\ Busy => /\ worker.request.id \in Nat /\ worker.request.id # 0
               /\ worker.request.id <= client.nextRequest
               /\ transport.process = "running"
Ids ==
    /\ \A n \in DOMAIN client.calls :
          client.calls[n].call = "send" /\ ~Real(client.calls[n]) => client.calls[n].id # Wire
    /\ \A n \in DOMAIN posted :
          posted[n].type = "response" => posted[n].id \in Nat /\ posted[n].id <= client.nextRequest

\* Requests of the service never meet: one that the worker holds, or that is on
\* its way to it, has a start or a stop before the next.
Guarded(k) == \A n \in DOMAIN k : Real(k[n]) => \E m \in DOMAIN k : m < n /\ Boundary(k[m])
Spread(k) ==
    \A m, n \in DOMAIN k : m < n /\ Real(k[m]) /\ Real(k[n]) =>
        \E b \in DOMAIN k : m < b /\ b < n /\ Boundary(k[b])
Passed(k, n) == \E m \in DOMAIN k : n < m /\ Boundary(k[m])
NoReal(k) == \A n \in DOMAIN k : ~Real(k[n])
NoRequest == ~Busy /\ NoReal(client.calls)
Ours(call) == Wire # 0 /\ call.id = Wire /\ "op" \in DOMAIN call.request /\ call.request.op = WireOp
Lost == ~available /\ transport.epoch = client.epoch /\ transport.process = "none"
Apart ==
    /\ Busy => Guarded(client.calls)
    /\ Spread(client.calls)
    /\ \A n \in DOMAIN client.calls : Real(client.calls[n]) =>
          Passed(client.calls, n) \/ Ours(client.calls[n]) \/ Lost
    /\ \A n \in DOMAIN posted : Hello(n) => NoRequest

\* Where the request of the active job is: on its way, with the worker, or
\* answered, and then its reply is on its way or being told of.
About(n) == /\ n \in DOMAIN posted /\ posted[n].type = "response"
            /\ posted[n].epoch = client.epoch /\ Wire # 0 /\ posted[n].id = Wire
Final(n) == About(n) /\ posted[n].code # "progress"
Context(n) == n \in DOMAIN frames /\ frames[n].frame = "context" /\ active # 0 /\ frames[n].job = active
Flight ==
    /\ available /\ Busy => Wire # 0 /\ worker.request.id = Wire /\ worker.request.op = WireOp
    /\ \A n \in DOMAIN posted : Final(n) =>
          NoRequest /\ \A m \in DOMAIN posted : Final(m) => m = n
    /\ \A n \in DOMAIN posted : About(n) /\ posted[n].code = "progress" => posted[n].op = WireOp
Resuming ==
    /\ \A n \in DOMAIN frames : Context(n) =>
          /\ NoRequest /\ Wire # 0 /\ (\A m \in DOMAIN posted : ~Final(m))
          /\ \A m \in DOMAIN frames : Context(m) => m = n
    /\ \A n \in DOMAIN frames :
          frames[n].frame = "context" /\ frames[n].job \in DOMAIN jobs => frames[n].job = active
-----------------------------------------------------------------------------
(* Calls and messages.                                                     *)

\* t is s and then x; t is s without its first.
Adds(t, s, x) ==
    /\ IsSeq(t) /\ DOMAIN t = DOMAIN s \union {Len(s) + 1} /\ Len(s) + 1 \in Nat
    /\ \A n \in DOMAIN s : t[n] = s[n] /\ n \in Nat /\ n < Len(s) + 1
    /\ t[Len(s) + 1] = x
Drops(t, s) ==
    /\ IsSeq(t) /\ 1 \in DOMAIN s /\ Head(s) = s[1]
    /\ \A n \in DOMAIN t : n \in Nat /\ n + 1 \in DOMAIN s /\ t[n] = s[n + 1]
    /\ \A n \in DOMAIN s : n \in Nat /\ (n # 1 => n - 1 \in DOMAIN t /\ t[n - 1] = s[n])

\* Append and Tail do that.
LEMMA AddsOK == ASSUME NEW s, IsSeq(s), NEW x PROVE Adds(Append(s, x), s, x)
<1>1. DOMAIN s = 1..Len(s) /\ Len(s) \in Nat
  BY SeqType
<1>2. \A n \in DOMAIN s : n \in Nat /\ n < Len(s) + 1
  BY <1>1
<1> DEFINE t == Append(s, x)
<1>3. /\ IsSeq(t) /\ DOMAIN t = DOMAIN s \union {Len(s) + 1}
      /\ \A n \in DOMAIN s : t[n] = s[n]
      /\ t[Len(s) + 1] = x
  BY AppendOK
<1> HIDE DEF t
<1>4. Adds(t, s, x)
  BY <1>1, <1>2, <1>3 DEF Adds
<1> QED BY <1>4 DEF t

\* Tail does.
LEMMA DropsOK == ASSUME NEW s, IsSeq(s), s # <<>> PROVE Drops(Tail(s), s)
<1>1. \A n \in DOMAIN s : n \in Nat
  BY SeqType
<1> QED BY <1>1, TailOK DEF Drops

\* A client that posted one more call.
Posts(d, c, call) ==
    IsClient(d) /\ Adds(d.calls, c.calls, call) /\ d.nextRequest \in Nat /\ d.nextRequest >= c.nextRequest
SendOf(c, request) == [call |-> "send", id |-> c.nextRequest + 1, request |-> request]
StartOf(c) == [call |-> "start", epoch |-> c.epoch + 1]
StopCall == [call |-> "stop"]

\* EngineClient::request.
LEMMA RequestOK ==
    ASSUME NEW c, IsClient(c), NEW request, NEW d, d = Request(c, request)
    PROVE  /\ Posts(d, c, SendOf(c, request)) /\ d.epoch = c.epoch /\ d.nextRequest = c.nextRequest + 1
<1> DEFINE k == Append(c.calls, SendOf(c, request))
<1>1. d = [c EXCEPT !.nextRequest = c.nextRequest + 1, !.calls = k]
  BY DEF Request, SendOf
<1>2. Adds(k, c.calls, SendOf(c, request)) /\ IsSeq(k)
  BY AddsOK DEF IsClient, Adds
<1> HIDE DEF k
<1>3. d.epoch = c.epoch /\ d.nextRequest = c.nextRequest + 1 /\ d.calls = k
      /\ d = [f \in {"epoch", "nextRequest", "calls"} |-> d[f]]
  BY <1>1 DEF IsClient
<1> QED BY <1>2, <1>3 DEF IsClient, Posts

\* EngineClient::start.
LEMMA StartOK ==
    ASSUME NEW c, IsClient(c), NEW d, d = Start(c)
    PROVE  /\ Posts(d, c, StartOf(c)) /\ d.epoch = c.epoch + 1 /\ d.nextRequest = c.nextRequest
<1> DEFINE k == Append(c.calls, StartOf(c))
<1>1. d = [c EXCEPT !.epoch = c.epoch + 1, !.calls = k]
  BY DEF Start, StartOf
<1>2. Adds(k, c.calls, StartOf(c)) /\ IsSeq(k)
  BY AddsOK DEF IsClient, Adds
<1> HIDE DEF k
<1>3. d.epoch = c.epoch + 1 /\ d.nextRequest = c.nextRequest /\ d.calls = k
      /\ d = [f \in {"epoch", "nextRequest", "calls"} |-> d[f]]
  BY <1>1 DEF IsClient
<1> QED BY <1>2, <1>3 DEF IsClient, Posts

\* EngineClient::stop.
LEMMA StopOK ==
    ASSUME NEW c, IsClient(c), NEW d, d = Stop(c)
    PROVE  /\ Posts(d, c, StopCall) /\ d.epoch = c.epoch + 1 /\ d.nextRequest = c.nextRequest
<1> DEFINE k == Append(c.calls, StopCall)
<1>1. d = [c EXCEPT !.epoch = c.epoch + 1, !.calls = k]
  BY DEF Stop, StopCall
<1>2. Adds(k, c.calls, StopCall) /\ IsSeq(k)
  BY AddsOK DEF IsClient, Adds
<1> HIDE DEF k
<1>3. d.epoch = c.epoch + 1 /\ d.nextRequest = c.nextRequest /\ d.calls = k
      /\ d = [f \in {"epoch", "nextRequest", "calls"} |-> d[f]]
  BY <1>1 DEF IsClient
<1> QED BY <1>2, <1>3 DEF IsClient, Posts

\* The transport takes the next call.
LEMMA NextCallOK ==
    ASSUME IsClient(client), NEW name, NextCall(name)
    PROVE  /\ IsClient(client') /\ client'.epoch = client.epoch
           /\ client'.nextRequest = client.nextRequest /\ client.calls # <<>>
           /\ Drops(client'.calls, client.calls) /\ client.calls[1].call = name
<1> DEFINE k == Tail(client.calls)
<1>1. client' = [client EXCEPT !.calls = k] /\ client.calls # <<>> /\ Head(client.calls).call = name
  BY DEF NextCall
<1>2. Drops(k, client.calls)
  BY <1>1, DropsOK DEF IsClient
<1>3. IsSeq(k) /\ client.calls[1].call = name
  BY <1>1, <1>2 DEF Drops
<1> HIDE DEF k
<1>4. client'.epoch = client.epoch /\ client'.nextRequest = client.nextRequest /\ client'.calls = k
      /\ client' = [f \in {"epoch", "nextRequest", "calls"} |-> client'[f]]
  BY <1>1 DEF IsClient
<1> QED BY <1>1, <1>2, <1>3, <1>4 DEF IsClient

CancelOf(j) == [op |-> "cancel", target |-> jobs[j].wire]
RecallEach(S) == FoldSet(LAMBDA j, c : Request(c, CancelOf(j)), client, S)

\* Nobody is recalled.
LEMMA RecallNone == RecallEach({}) = client
<1> DEFINE I(g) == [s \in SUBSET {} |->
                       IF s = {} THEN client
                       ELSE LET x == CHOOSE x \in s : TRUE IN Request(g[s \ {x}], CancelOf(x))]
           g0 == [s \in SUBSET {} |-> client]
           it == CHOOSE g : g = I(g)
<1>1. g0 = I(g0)
  OBVIOUS
<1>2. it = I(it)
  <2> HIDE DEF I, g0
  <2> QED BY <1>1
<1>3. it[{}] = client
  <2> HIDE DEF it
  <2> QED BY <1>2
<1>4. RecallEach({}) = it[{}]
  BY DEF RecallEach, FoldSet, MapThenFoldSet
<1> QED BY <1>3, <1>4

\* One is.
LEMMA RecallOne == ASSUME NEW a PROVE RecallEach({a}) = Request(client, CancelOf(a))
<1> DEFINE P == SUBSET {a}
           one == Request(client, CancelOf(a))
           I(g) == [s \in P |->
                       IF s = {} THEN client
                       ELSE LET x == CHOOSE x \in s : TRUE IN Request(g[s \ {x}], CancelOf(x))]
           g0 == [s \in P |-> IF s = {} THEN client ELSE one]
           it == CHOOSE g : g = I(g)
<1>0. \A s \in P : s = {} \/ s = {a}
  OBVIOUS
<1>1. g0 = I(g0)
  <2>1. ASSUME NEW s \in P, s # {}
        PROVE  one = LET x == CHOOSE x \in s : TRUE IN Request(g0[s \ {x}], CancelOf(x))
    <3>1. (CHOOSE x \in s : TRUE) = a /\ s \ {a} = {} /\ {} \in P
      BY <1>0, <2>1
    <3>2. g0[{}] = client
      BY <3>1
    <3> QED BY <3>1, <3>2
  <2> QED BY <2>1
<1>2. it = I(it)
  <2> HIDE DEF I, g0
  <2> QED BY <1>1
<1> HIDE DEF it
<1>3. it[{}] = client
  BY <1>2
<1>4. it[{a}] = one
  <2>1. {a} \in P /\ {a} # {} /\ (CHOOSE x \in {a} : TRUE) = a /\ {a} \ {a} = {}
    OBVIOUS
  <2>2. it[{a}] = LET x == CHOOSE x \in {a} : TRUE IN Request(it[{a} \ {x}], CancelOf(x))
    BY <1>2, <2>1
  <2> QED BY <1>3, <2>1, <2>2
<1>5. RecallEach({a}) = it[{a}]
  BY DEF RecallEach, FoldSet, MapThenFoldSet, it
<1> QED BY <1>4, <1>5

\* Detach recalls the active job at most.
LEMMA DetachClient ==
    ASSUME Places, NEW ids, Detached(ids)
    PROVE  \/ client' = client /\ Recalled(ids) = {}
           \/ /\ client' = Request(client, CancelOf(active)) /\ Recalled(ids) = {active}
              /\ active \in DOMAIN jobs /\ Flying(active)
<1>1. client' = RecallEach(Recalled(ids))
  BY DEF Detached, RecallEach, CancelOf
<1>2. Recalled(ids) \subseteq {active}
  BY DEF Recalled, Emptied, Flying, Places, Placed
<1>3. CASE Recalled(ids) = {}
  BY <1>1, <1>3, RecallNone
<1>4. CASE Recalled(ids) = {active}
  <2>1. active \in DOMAIN jobs /\ Flying(active)
    BY <1>4 DEF Recalled, Emptied
  <2>2. RecallEach({active}) = Request(client, CancelOf(active))
    BY RecallOne
  <2> QED BY <1>1, <1>4, <2>1, <2>2
<1> QED BY <1>2, <1>3, <1>4
-----------------------------------------------------------------------------
(* A process is known by its epoch.                                        *)

CallsOK(c) == \A n \in DOMAIN c.calls : CallOK(c.calls[n], c.epoch, c.nextRequest)

\* The client's calls after one more.
LEMMA PostedCall ==
    ASSUME NEW c, IsClient(c), StartsLast(c), CallsOK(c), NEW call, NEW d, Posts(d, c, call),
           CallOK(call, d.epoch, d.nextRequest), d.epoch >= c.epoch,
           d.epoch = c.epoch => ~Boundary(call)
    PROVE  IsClient(d) /\ StartsLast(d) /\ CallsOK(d)
<1> DEFINE e == Len(c.calls) + 1
<1>1. /\ IsClient(d) /\ DOMAIN d.calls = DOMAIN c.calls \union {e} /\ e \in Nat
      /\ \A n \in DOMAIN c.calls : d.calls[n] = c.calls[n] /\ n \in Nat /\ n < e
      /\ d.calls[e] = call /\ d.nextRequest >= c.nextRequest
  BY DEF Posts, Adds
<1>2. /\ c.epoch \in Nat /\ d.epoch \in Nat /\ c.nextRequest \in Nat /\ d.nextRequest \in Nat
  BY <1>1 DEF IsClient
<1> HIDE DEF e
<1>3. ASSUME NEW n \in DOMAIN d.calls PROVE CallOK(d.calls[n], d.epoch, d.nextRequest)
  <2>1. CASE n = e
    BY <1>1, <2>1
  <2>2. CASE n \in DOMAIN c.calls
    <3>1. CallOK(c.calls[n], c.epoch, c.nextRequest) /\ d.calls[n] = c.calls[n]
      BY <1>1, <2>2 DEF CallsOK
    <3> QED BY <1>1, <1>2, <3>1 DEF CallOK
  <2> QED BY <1>1, <2>1, <2>2
<1>4. ASSUME NEW n \in DOMAIN d.calls, d.calls[n].call = "start", d.calls[n].epoch = d.epoch,
             NEW m \in DOMAIN d.calls, m > n
      PROVE  ~Boundary(d.calls[m])
  <2>1. n # e /\ n \in DOMAIN c.calls
    BY <1>1, <1>4
  <2>2. CallOK(c.calls[n], c.epoch, c.nextRequest) /\ c.calls[n] = d.calls[n]
    BY <1>1, <2>1 DEF CallsOK
  <2>3. d.epoch = c.epoch
    BY <1>2, <1>4, <2>2 DEF CallOK
  <2>4. CASE m = e
    BY <1>1, <2>3, <2>4
  <2>5. CASE m # e
    BY <1>1, <1>4, <2>1, <2>2, <2>3, <2>5 DEF StartsLast
  <2> QED BY <2>4, <2>5
<1> QED BY <1>1, <1>3, <1>4 DEF StartsLast, CallsOK

\* Each of the client's operations.
LEMMA ClientCalls ==
    ASSUME NEW c, IsClient(c), StartsLast(c), CallsOK(c), NEW d,
           d = Start(c) \/ d = Stop(c) \/ \E request : d = Request(c, request)
    PROVE  /\ IsClient(d) /\ StartsLast(d) /\ CallsOK(d) /\ d.nextRequest >= c.nextRequest
           /\ d = Start(c) \/ d = Stop(c) => d.epoch = c.epoch + 1
<1>0. c.epoch \in Nat /\ c.nextRequest \in Nat
  BY DEF IsClient
<1>1. CASE d = Start(c)
  <2>1. Posts(d, c, StartOf(c)) /\ d.epoch = c.epoch + 1 /\ d.nextRequest = c.nextRequest
    BY <1>1, StartOK
  <2> DEFINE call == StartOf(c)
  <2>2. CallOK(call, d.epoch, d.nextRequest)
    BY <1>0, <2>1 DEF StartOf, CallOK
  <2>3. d.epoch >= c.epoch /\ d.epoch # c.epoch
    BY <1>0, <2>1
  <2> HIDE DEF call
  <2>4. IsClient(d) /\ StartsLast(d) /\ CallsOK(d)
    BY <2>1, <2>2, <2>3, PostedCall DEF call
  <2> QED BY <1>0, <2>1, <2>4
<1>2. CASE d = Stop(c)
  <2>1. Posts(d, c, StopCall) /\ d.epoch = c.epoch + 1 /\ d.nextRequest = c.nextRequest
    BY <1>2, StopOK
  <2>2. CallOK(StopCall, d.epoch, d.nextRequest)
    BY DEF StopCall, CallOK
  <2>3. d.epoch >= c.epoch /\ d.epoch # c.epoch
    BY <1>0, <2>1
  <2>4. IsClient(d) /\ StartsLast(d) /\ CallsOK(d)
    BY <2>1, <2>2, <2>3, PostedCall
  <2> QED BY <1>0, <2>1, <2>4
<1>3. ASSUME NEW request, d = Request(c, request)
      PROVE  IsClient(d) /\ StartsLast(d) /\ CallsOK(d) /\ d.nextRequest >= c.nextRequest
  <2> DEFINE call == SendOf(c, request)
  <2>1. Posts(d, c, call) /\ d.epoch = c.epoch /\ d.nextRequest = c.nextRequest + 1
    BY <1>3, RequestOK
  <2>2. CallOK(call, d.epoch, d.nextRequest) /\ ~Boundary(call)
    BY <1>0, <2>1 DEF SendOf, CallOK, Boundary
  <2>3. d.epoch >= c.epoch
    BY <1>0, <2>1
  <2> HIDE DEF call
  <2>4. IsClient(d) /\ StartsLast(d) /\ CallsOK(d)
    BY <2>1, <2>2, <2>3, PostedCall
  <2> QED BY <1>0, <2>1, <2>4
<1>4. CASE d = Start(c) \/ d = Stop(c)
  BY <1>1, <1>2, <1>4
<1>5. CASE ~(d = Start(c) \/ d = Stop(c))
  BY <1>3, <1>5
<1> QED BY <1>4, <1>5

\* A message less.
LEMMA HearLife ==
    ASSUME PostedOK, Life, UNCHANGED transport, available' => available,
           client'.epoch = client.epoch, Drops(posted', posted)
    PROVE  PostedOK' /\ Life'
<1>1. /\ IsSeq(posted')
      /\ \A n \in DOMAIN posted' : n \in Nat /\ n + 1 \in DOMAIN posted /\ posted'[n] = posted[n + 1]
      /\ \A n \in DOMAIN posted : n \in Nat /\ (n # 1 => n - 1 \in DOMAIN posted' /\ posted'[n - 1] = posted[n])
  BY DEF Drops
<1>2. PostedOK'
  BY <1>1 DEF PostedOK
<1>3. ASSUME NEW n \in DOMAIN posted', Hello(n)' PROVE Hello(n + 1)
  BY <1>1, <1>3 DEF Hello
<1>4. ASSUME transport.epoch = client.epoch, transport.process = "starting"
      PROVE  ~available' /\ \A n \in DOMAIN posted' : ~Hello(n)'
  BY <1>1, <1>3, <1>4 DEF Life
<1>5. ASSUME NEW m \in DOMAIN posted', NEW n \in DOMAIN posted', Hello(m)', Hello(n)' PROVE m = n
  <2>1. m + 1 = n + 1 /\ m \in Nat /\ n \in Nat
    BY <1>1, <1>3, <1>5 DEF Life
  <2> QED BY <2>1
<1>6. ASSUME NEW n \in DOMAIN posted', Hello(n)'
      PROVE  /\ ~available'
             /\ transport.process # "running" => \E m \in DOMAIN posted' : m > n /\ posted'[m] = Stopped
  <2>1. n \in Nat /\ n + 1 \in DOMAIN posted /\ Hello(n + 1)
    BY <1>1, <1>3, <1>6
  <2>2. ~available'
    BY <2>1 DEF Life
  <2>3. ASSUME transport.process # "running" PROVE \E m \in DOMAIN posted' : m > n /\ posted'[m] = Stopped
    <3>1. PICK k \in DOMAIN posted : k > n + 1 /\ posted[k] = Stopped
      BY <2>1, <2>3 DEF Life
    <3>2. k \in Nat /\ k # 1 /\ k - 1 > n
      BY <1>1, <2>1, <3>1
    <3> QED BY <1>1, <3>1, <3>2
  <2> QED BY <2>2, <2>3
<1>7. ASSUME NEW n \in DOMAIN posted', posted'[n].type = "stopped", posted'[n].epoch = client.epoch
      PROVE  transport.process = "none"
  BY <1>1, <1>7 DEF Life
<1>8. Stopped' = Stopped
  BY DEF Stopped
<1> QED BY <1>2, <1>4, <1>5, <1>6, <1>7, <1>8 DEF Life

\* Messages heard that end nothing.
LEMMA HearPosted ==
    ASSUME PostedOK, Life, AvailableIsCurrent, UNCHANGED <<transport, available>>,
           client'.epoch = client.epoch,
           \/ UNCHANGED posted
           \/ /\ Drops(posted', posted)
              /\ ~(posted[1].type = "stopped" /\ posted[1].epoch = client.epoch)
    PROVE  PostedOK' /\ Life' /\ AvailableIsCurrent'
<1>1. CASE UNCHANGED posted
  BY <1>1 DEF PostedOK, Life, AvailableIsCurrent, Hello, Stopped
<1>2. CASE /\ Drops(posted', posted)
           /\ ~(posted[1].type = "stopped" /\ posted[1].epoch = client.epoch)
  <2>1. PostedOK' /\ Life'
    BY <1>2, HearLife
  <2>2. ASSUME available, transport.process # "running" PROVE \E n \in DOMAIN posted' : posted'[n] = Stopped
    <3>1. PICK k \in DOMAIN posted : posted[k] = Stopped /\ transport.epoch = client.epoch
      BY <2>2 DEF AvailableIsCurrent
    <3>2. k # 1
      BY <1>2, <3>1 DEF Stopped
    <3> QED BY <1>2, <3>1, <3>2 DEF Drops
  <2> QED BY <2>1, <2>2 DEF AvailableIsCurrent, Stopped
<1> QED BY <1>1, <1>2

\* The client sends at most a request, the process and the session go on.
Talks ==
    /\ UNCHANGED <<transport, available>>
    /\ \/ UNCHANGED client
       \/ \E request : client' = Request(client, request)
Listens ==
    \/ UNCHANGED posted
    \/ /\ Drops(posted', posted)
       /\ ~(posted[1].type = "stopped" /\ posted[1].epoch = client.epoch)

\* That disturbs nobody.
LEMMA TalkEpochs == ASSUME Epochs, Talks, Listens PROVE Epochs'
<1>1. ClientOK /\ TransportOK /\ PostedOK /\ Bounds /\ Life /\ AvailableIsCurrent
      /\ IsClient(client) /\ StartsLast(client) /\ CallsOK(client)
  BY DEF Epochs, ClientOK, CallsOK
<1>2. UNCHANGED <<transport, available>>
  BY DEF Talks
<1>3. CASE UNCHANGED client
  <2>1. ClientOK' /\ TransportOK' /\ Bounds'
    BY <1>1, <1>2, <1>3 DEF ClientOK, TransportOK, Bounds, IsClient, StartsLast, CallOK, Boundary
  <2>2. PostedOK' /\ Life' /\ AvailableIsCurrent'
    BY <1>1, <1>2, <1>3, HearPosted DEF Listens
  <2> QED BY <2>1, <2>2 DEF Epochs
<1>4. ASSUME NEW request, client' = Request(client, request) PROVE Epochs'
  <2>1. Posts(client', client, SendOf(client, request)) /\ client'.epoch = client.epoch
    BY <1>1, <1>4, RequestOK
  <2>2. IsClient(client') /\ StartsLast(client') /\ CallsOK(client')
    BY <1>1, <1>4, ClientCalls
  <2>3. ClientOK'
    BY <2>2 DEF ClientOK, IsClient, StartsLast, CallsOK, CallOK, Boundary
  <2>4. TransportOK'
    BY <1>1, <1>2, <2>1 DEF TransportOK
  <2>5. Bounds'
    <3> SUFFICES ASSUME transport'.epoch = client'.epoch, NEW n \in DOMAIN client'.calls
                 PROVE  ~Boundary(client'.calls[n])
      BY DEF Bounds, Boundary
    <3>1. \A m \in DOMAIN client.calls : ~Boundary(client.calls[m])
      BY <1>1, <1>2, <2>1 DEF Bounds
    <3>2. \/ n \in DOMAIN client.calls /\ client'.calls[n] = client.calls[n]
          \/ client'.calls[n] = SendOf(client, request)
      BY <2>1 DEF Posts, Adds
    <3> QED BY <3>1, <3>2 DEF Boundary, SendOf
  <2>6. PostedOK' /\ Life' /\ AvailableIsCurrent'
    BY <1>1, <1>2, <2>1, HearPosted DEF Listens
  <2> QED BY <2>3, <2>4, <2>5, <2>6 DEF Epochs
<1> QED BY <1>3, <1>4 DEF Talks

\* A message is heard.
LEMMA HearOK ==
    ASSUME IsSeq(posted), NEW type, NextPosted(type)
    PROVE  Drops(posted', posted) /\ posted[1].type = type /\ Head(posted) = posted[1]
<1>1. posted # <<>> /\ Head(posted).type = type /\ posted' = Tail(posted)
  BY DEF NextPosted
<1>2. Drops(Tail(posted), posted)
  BY <1>1, DropsOK
<1> QED BY <1>1, <1>2 DEF Drops

\* The session is left behind: everything on its way belongs to another.
LEMMA LeaveEpochs ==
    ASSUME Epochs, UNCHANGED transport, IsClient(client'), StartsLast(client'), CallsOK(client'),
           client'.epoch > client.epoch, ~available', UNCHANGED posted \/ Drops(posted', posted)
    PROVE  Epochs'
<1>1. client.epoch \in Nat /\ client'.epoch \in Nat /\ transport.epoch \in Nat
      /\ transport.epoch <= client.epoch
  BY DEF Epochs, ClientOK, IsClient, TransportOK
<1>2. transport'.epoch # client'.epoch
  BY <1>1
<1>3. IsSeq(posted') /\ \A n \in DOMAIN posted' : \E m \in DOMAIN posted : posted'[n] = posted[m]
  BY DEF Epochs, PostedOK, Drops
<1>4. \A m \in DOMAIN posted : posted[m].epoch \in Nat /\ posted[m].epoch <= client.epoch
  BY DEF Epochs, PostedOK
<1>5. \A n \in DOMAIN posted' : posted'[n].epoch \in Nat /\ posted'[n].epoch <= client.epoch
  BY <1>3, <1>4
<1>6. \A n \in DOMAIN posted' : posted'[n].epoch <= client'.epoch /\ posted'[n].epoch # client'.epoch
  BY <1>1, <1>5
<1>7. ClientOK'
  BY DEF ClientOK, IsClient, StartsLast, CallsOK, CallOK, Boundary
<1>8. TransportOK'
  BY <1>1 DEF Epochs, TransportOK
<1>9. PostedOK' /\ Bounds' /\ AvailableIsCurrent'
  BY <1>2, <1>3, <1>5, <1>6 DEF PostedOK, Bounds, AvailableIsCurrent
<1>10. Life'
  BY <1>2, <1>6 DEF Life, Hello
<1> QED BY <1>7, <1>8, <1>9, <1>10 DEF Epochs

\* Without a session the service is not available.
LEMMA UnavailableOK == ASSUME available \in BOOLEAN, SetUnavailable PROVE available' = FALSE
  BY DEF SetUnavailable, session

\* Restart, OpenStartsWorker and HearsFatal leave it.
LEMMA LeavingEpochs ==
    ASSUME Epochs, available \in BOOLEAN, Restart \/ OpenStartsWorker \/ HearsFatal
    PROVE  Epochs'
<1>1. IsClient(client) /\ StartsLast(client) /\ CallsOK(client) /\ IsSeq(posted)
  BY DEF Epochs, ClientOK, CallsOK, PostedOK
<1>2. client.epoch \in Nat
  BY <1>1 DEF IsClient
<1>3. CASE Restart
  <2> DEFINE c == Stop(client)
  <2>1. client' = Start(c) /\ ~available' /\ UNCHANGED <<transport, posted>>
    BY <1>3, UnavailableOK DEF Restart, WorkerGone
  <2>2. IsClient(c) /\ StartsLast(c) /\ CallsOK(c) /\ c.epoch = client.epoch + 1
    BY <1>1, ClientCalls
  <2> HIDE DEF c
  <2>3. IsClient(client') /\ StartsLast(client') /\ CallsOK(client') /\ client'.epoch = c.epoch + 1
    BY <2>1, <2>2, ClientCalls
  <2>4. client'.epoch > client.epoch
    BY <1>2, <2>2, <2>3
  <2> QED BY <2>1, <2>3, <2>4, LeaveEpochs
<1>4. CASE OpenStartsWorker
  <2>1. client' = Start(client) /\ ~available' /\ UNCHANGED <<transport, posted>>
    BY <1>4 DEF OpenStartsWorker, WorkerGone, session
  <2>2. IsClient(client') /\ StartsLast(client') /\ CallsOK(client') /\ client'.epoch = client.epoch + 1
    BY <1>1, <2>1, ClientCalls
  <2>3. client'.epoch > client.epoch
    BY <1>2, <2>2
  <2> QED BY <2>1, <2>2, <2>3, LeaveEpochs
<1>5. CASE HearsFatal
  <2>1. client' = Stop(client) /\ ~available' /\ UNCHANGED transport /\ Drops(posted', posted)
    BY <1>1, <1>5, UnavailableOK, HearOK DEF HearsFatal, WorkerGone
  <2>2. IsClient(client') /\ StartsLast(client') /\ CallsOK(client') /\ client'.epoch = client.epoch + 1
    BY <1>1, <2>1, ClientCalls
  <2>3. client'.epoch > client.epoch
    BY <1>2, <2>2
  <2> QED BY <2>1, <2>2, <2>3, LeaveEpochs
<1> QED BY <1>3, <1>4, <1>5

\* A process says hello, and becomes available.
LEMMA HelloEpochs == ASSUME Epochs, HearsHello PROVE Epochs'
<1>1. ClientOK /\ TransportOK /\ PostedOK /\ Bounds /\ Life /\ IsSeq(posted)
  BY DEF Epochs, PostedOK
<1>2. /\ UNCHANGED <<client, transport>> /\ available' = TRUE
      /\ Drops(posted', posted) /\ posted[1].type = "hello" /\ posted[1].epoch = client.epoch
  BY <1>1, HearOK DEF HearsHello, SetAvailable, WorkerGone, Current
<1>3. /\ IsSeq(posted') /\ 1 \in DOMAIN posted
      /\ \A n \in DOMAIN posted' : n \in Nat /\ n + 1 \in DOMAIN posted /\ posted'[n] = posted[n + 1]
      /\ \A n \in DOMAIN posted : n \in Nat /\ (n # 1 => n - 1 \in DOMAIN posted' /\ posted'[n - 1] = posted[n])
  BY <1>2 DEF Drops
<1>4. Hello(1)
  BY <1>2, <1>3 DEF Hello
<1>5. transport.epoch = client.epoch /\ transport.process # "starting"
  BY <1>1, <1>2, <1>3, <1>4 DEF PostedOK, Life
<1>6. \A n \in DOMAIN posted' : ~Hello(n)'
  <2> SUFFICES ASSUME NEW n \in DOMAIN posted', Hello(n)' PROVE FALSE
    OBVIOUS
  <2>1. Hello(n + 1) /\ n + 1 \in DOMAIN posted /\ n \in Nat
    BY <1>2, <1>3 DEF Hello
  <2>2. n + 1 = 1
    BY <1>1, <1>3, <1>4, <2>1 DEF Life
  <2>3. DOMAIN posted' = 1..Len(posted') /\ Len(posted') \in Nat
    BY <1>3, SeqType
  <2> QED BY <2>2, <2>3
<1>7. ASSUME transport.process # "running" PROVE \E n \in DOMAIN posted' : posted'[n] = Stopped
  <2>1. PICK m \in DOMAIN posted : m > 1 /\ posted[m] = Stopped
    BY <1>1, <1>3, <1>4, <1>7 DEF Life
  <2> QED BY <1>3, <2>1
<1>8. ClientOK' /\ TransportOK' /\ Bounds'
  BY <1>1, <1>2 DEF ClientOK, TransportOK, Bounds, IsClient, StartsLast, CallOK, Boundary
<1>9. PostedOK'
  BY <1>1, <1>2, <1>3 DEF PostedOK
<1>10. Life'
  BY <1>1, <1>2, <1>3, <1>5, <1>6 DEF Life
<1>11. AvailableIsCurrent'
  BY <1>2, <1>5, <1>7 DEF AvailableIsCurrent, Stopped
<1> QED BY <1>8, <1>9, <1>10, <1>11 DEF Epochs

\* A process is gone, and its session with it.
LEMMA StoppedEpochs == ASSUME Epochs, available \in BOOLEAN, HearsStopped PROVE Epochs'
<1>1. ClientOK /\ TransportOK /\ PostedOK /\ Bounds /\ Life /\ IsSeq(posted)
  BY DEF Epochs, PostedOK
<1>2. /\ UNCHANGED <<client, transport>> /\ available' = FALSE /\ Drops(posted', posted)
  BY <1>1, HearOK, UnavailableOK DEF HearsStopped, WorkerGone
<1>3. ClientOK' /\ TransportOK' /\ Bounds'
  BY <1>1, <1>2 DEF ClientOK, TransportOK, Bounds, IsClient, StartsLast, CallOK, Boundary
<1>4. PostedOK' /\ Life'
  BY <1>1, <1>2, HearLife
<1>5. AvailableIsCurrent'
  BY <1>2 DEF AvailableIsCurrent
<1> QED BY <1>3, <1>4, <1>5 DEF Epochs

\* The transport takes a call.
LEMMA TakeCalls ==
    ASSUME ClientOK, NEW name, NextCall(name)
    PROVE  /\ ClientOK' /\ client'.epoch = client.epoch
           /\ 1 \in DOMAIN client.calls /\ client.calls[1].call = name
           /\ Head(client.calls) = client.calls[1]
           /\ \A n \in DOMAIN client'.calls :
                 n \in Nat /\ n + 1 \in DOMAIN client.calls /\ client'.calls[n] = client.calls[n + 1] /\ n + 1 > 1
<1>1. /\ IsClient(client') /\ client'.epoch = client.epoch /\ client'.nextRequest = client.nextRequest
      /\ Drops(client'.calls, client.calls) /\ client.calls[1].call = name
  BY NextCallOK DEF ClientOK
<1> DEFINE D == DOMAIN client'.calls
<1>2. /\ \A n \in D : n \in Nat /\ n + 1 \in DOMAIN client.calls /\ client'.calls[n] = client.calls[n + 1]
      /\ 1 \in DOMAIN client.calls /\ Head(client.calls) = client.calls[1]
  BY <1>1 DEF Drops
<1>3. D = 1..Len(client'.calls) /\ Len(client'.calls) \in Nat
  BY <1>1, SeqType DEF IsClient
<1>4. \A n \in D : n + 1 > 1
  BY <1>3
<1>5. StartsLast(client)'
  <2> SUFFICES ASSUME NEW n \in D, client'.calls[n].call = "start", client'.calls[n].epoch = client'.epoch,
                      NEW m \in D, m > n
               PROVE  ~Boundary(client'.calls[m])
    BY DEF StartsLast, Boundary
  <2>1. m + 1 > n + 1
    BY <1>2
  <2> QED BY <1>1, <1>2, <2>1 DEF ClientOK, StartsLast
<1>6. \A n \in D : CallOK(client'.calls[n], client'.epoch, client'.nextRequest)
  BY <1>1, <1>2 DEF ClientOK
<1>7. ClientOK'
  BY <1>1, <1>5, <1>6 DEF ClientOK, IsClient, CallOK
<1> QED BY <1>1, <1>2, <1>4, <1>7

\* It starts or stops a process: whatever it had is not of this session.
LEMMA ProcessEpochs == ASSUME Epochs, TransportStart \/ TransportStop, UNCHANGED available PROVE Epochs'
<1>1. ClientOK /\ TransportOK /\ PostedOK /\ Bounds /\ Life /\ AvailableIsCurrent
  BY DEF Epochs
<1>2. PICK name \in {"start", "stop"} :
         /\ NextCall(name) /\ UNCHANGED posted
         /\ name = "start" => transport' = [epoch |-> Head(client.calls).epoch, process |-> "starting"]
         /\ name = "stop" => transport' = [transport EXCEPT !.process = "none"]
  BY DEF TransportStart, TransportStop
<1> DEFINE D == DOMAIN client'.calls
<1>3. /\ ClientOK' /\ client'.epoch = client.epoch
      /\ 1 \in DOMAIN client.calls /\ client.calls[1].call = name /\ Head(client.calls) = client.calls[1]
      /\ \A n \in D : n \in Nat /\ n + 1 \in DOMAIN client.calls /\ client'.calls[n] = client.calls[n + 1] /\ n + 1 > 1
  BY <1>1, <1>2, TakeCalls
<1>4. transport.epoch # client.epoch
  BY <1>1, <1>3 DEF Bounds, Boundary
<1>5. ~available /\ \A n \in DOMAIN posted : posted[n].epoch # client.epoch
  BY <1>1, <1>4 DEF AvailableIsCurrent, PostedOK
<1>6. /\ transport' = [f \in {"epoch", "process"} |-> transport'[f]]
      /\ name = "start" => transport'.epoch = client.calls[1].epoch /\ transport'.process = "starting"
      /\ name = "stop" => transport'.epoch = transport.epoch /\ transport'.process = "none"
  BY <1>1, <1>2, <1>3 DEF TransportOK
<1>7. TransportOK'
  BY <1>1, <1>3, <1>6 DEF TransportOK, ClientOK, CallOK
<1>8. PostedOK' /\ AvailableIsCurrent' /\ Life'
  BY <1>1, <1>2, <1>3, <1>5 DEF PostedOK, AvailableIsCurrent, Life, Hello
<1>9. Bounds'
  <2> SUFFICES ASSUME transport'.epoch = client'.epoch, NEW n \in D PROVE ~Boundary(client'.calls[n])
    BY DEF Bounds, Boundary
  <2>1. name = "start" /\ client.calls[1].epoch = client.epoch
    BY <1>3, <1>4, <1>6
  <2> QED BY <1>1, <1>3, <2>1 DEF ClientOK, StartsLast
<1> QED BY <1>3, <1>7, <1>8, <1>9 DEF Epochs

\* A message of the transport's process that tells nothing of its life.
Speaks ==
    \/ UNCHANGED posted
    \/ \E m : /\ posted' = Append(posted, m) /\ m.epoch = transport.epoch
              /\ m.type \in {"response", "heartbeat"}

\* The transport and the worker answer.
LEMMA SpeakEpochs ==
    ASSUME Epochs, UNCHANGED <<transport, available>>, UNCHANGED client \/ NextCall("send"), Speaks
    PROVE  Epochs'
<1>1. ClientOK /\ TransportOK /\ PostedOK /\ Bounds /\ Life /\ AvailableIsCurrent /\ IsSeq(posted)
  BY DEF Epochs, PostedOK
<1>2. ClientOK' /\ client'.epoch = client.epoch /\ TransportOK' /\ Bounds'
  <2>1. CASE UNCHANGED client
    BY <1>1, <2>1 DEF ClientOK, TransportOK, Bounds, IsClient, StartsLast, CallOK, Boundary
  <2>2. CASE NextCall("send")
    <3>1. /\ ClientOK' /\ client'.epoch = client.epoch
          /\ \A n \in DOMAIN client'.calls :
                n + 1 \in DOMAIN client.calls /\ client'.calls[n] = client.calls[n + 1]
      BY <1>1, <2>2, TakeCalls
    <3>2. TransportOK'
      BY <1>1, <3>1 DEF TransportOK
    <3>3. Bounds'
      BY <1>1, <3>1 DEF Bounds, Boundary
    <3> QED BY <3>1, <3>2, <3>3
  <2> QED BY <2>1, <2>2
<1>3. CASE UNCHANGED posted
  <2>1. PostedOK' /\ Life' /\ AvailableIsCurrent'
    BY <1>1, <1>2, <1>3, HearPosted
  <2> QED BY <1>2, <2>1 DEF Epochs
<1>4. ASSUME NEW m, posted' = Append(posted, m), m.epoch = transport.epoch,
             m.type \in {"response", "heartbeat"}
      PROVE  Epochs'
  <2> DEFINE e == Len(posted) + 1
  <2>1. /\ IsSeq(posted') /\ DOMAIN posted' = DOMAIN posted \union {e} /\ posted'[e] = m
        /\ \A n \in DOMAIN posted : posted'[n] = posted[n] /\ n # e
    <3>1. Adds(Append(posted, m), posted, m)
      BY <1>1, AddsOK
    <3> QED BY <1>4, <3>1 DEF Adds
  <2> HIDE DEF e
  <2>2. PostedOK'
    BY <1>1, <1>2, <1>4, <2>1 DEF PostedOK, TransportOK
  <2>3. \A n : Hello(n)' <=> Hello(n)
    BY <1>2, <1>4, <2>1 DEF Hello
  <2>4. \A n : Hello(n) => n \in DOMAIN posted /\ n \in DOMAIN posted'
    BY <2>1 DEF Hello
  <2>5. Stopped' = Stopped
    BY DEF Stopped
  <2>6. Life'
    <3>1. \A n \in DOMAIN posted' : Hello(n)' =>
            /\ ~available'
            /\ transport'.process # "running" => \E k \in DOMAIN posted' : k > n /\ posted'[k] = Stopped
      BY <1>1, <2>1, <2>3, <2>4 DEF Life
    <3>2. \A n \in DOMAIN posted' :
            posted'[n].type = "stopped" /\ posted'[n].epoch = client.epoch => transport.process = "none"
      BY <1>1, <1>4, <2>1 DEF Life
    <3>3. \A k, n \in DOMAIN posted' : Hello(k)' /\ Hello(n)' => k = n
      BY <1>1, <2>3, <2>4 DEF Life
    <3>4. transport.epoch = client.epoch /\ transport.process = "starting" =>
             ~available /\ \A n \in DOMAIN posted' : ~Hello(n)'
      BY <1>1, <2>3, <2>4 DEF Life
    <3> QED BY <1>2, <2>5, <3>1, <3>2, <3>3, <3>4 DEF Life
  <2>7. AvailableIsCurrent'
    BY <1>1, <1>2, <2>1, <2>5 DEF AvailableIsCurrent
  <2> QED BY <1>2, <2>2, <2>6, <2>7 DEF Epochs
<1> QED BY <1>3, <1>4 DEF Speaks

\* The process starts, with hello or fatal.
LEMMA BeginEpochs ==
    ASSUME Epochs, UNCHANGED available, NEW type \in {"hello", "fatal"}, ProcessStarted(type)
    PROVE  Epochs'
<1>1. ClientOK /\ TransportOK /\ PostedOK /\ Bounds /\ Life /\ AvailableIsCurrent /\ IsSeq(posted)
  BY DEF Epochs, PostedOK
<1> DEFINE m == [type |-> type, epoch |-> transport.epoch]
           e == Len(posted) + 1
<1>2. /\ transport.process = "starting" /\ UNCHANGED client
      /\ transport' = [transport EXCEPT !.process = "running"] /\ posted' = Append(posted, m)
  BY DEF ProcessStarted, Post
<1>3. /\ transport' = [f \in {"epoch", "process"} |-> transport'[f]]
      /\ transport'.epoch = transport.epoch /\ transport'.process = "running"
  BY <1>1, <1>2 DEF TransportOK
<1>4. m.type = type /\ m.epoch = transport.epoch
  OBVIOUS
<1> HIDE DEF m
<1>5. /\ IsSeq(posted') /\ DOMAIN posted' = DOMAIN posted \union {e} /\ posted'[e] = m
      /\ \A n \in DOMAIN posted : posted'[n] = posted[n] /\ n # e
  <2>1. Adds(Append(posted, m), posted, m)
    BY <1>1, AddsOK
  <2> QED BY <1>2, <2>1 DEF Adds
<1> HIDE DEF e
<1>6. ClientOK' /\ TransportOK' /\ Bounds'
  BY <1>1, <1>2, <1>3 DEF ClientOK, TransportOK, Bounds, IsClient, StartsLast, CallOK, Boundary
<1>7. PostedOK'
  BY <1>1, <1>2, <1>3, <1>4, <1>5 DEF PostedOK, TransportOK
<1>8. CASE transport.epoch = client.epoch
  <2>1. ~available /\ \A n \in DOMAIN posted : ~Hello(n)
    BY <1>1, <1>2, <1>8 DEF Life
  <2>2. \A n \in DOMAIN posted' : Hello(n)' => n = e
    BY <1>2, <1>5, <2>1 DEF Hello
  <2>3. \A n \in DOMAIN posted' : ~(posted'[n].type = "stopped" /\ posted'[n].epoch = client.epoch)
    BY <1>1, <1>2, <1>4, <1>5 DEF Life
  <2>4. Life'
    BY <1>2, <1>3, <2>1, <2>2, <2>3 DEF Life
  <2>5. AvailableIsCurrent'
    BY <2>1 DEF AvailableIsCurrent
  <2> QED BY <1>6, <1>7, <2>4, <2>5 DEF Epochs
<1>9. CASE transport.epoch # client.epoch
  <2>1. ~available /\ \A n \in DOMAIN posted' : posted'[n].epoch # client.epoch
    BY <1>1, <1>4, <1>5, <1>9 DEF AvailableIsCurrent, PostedOK
  <2>2. Life' /\ AvailableIsCurrent'
    BY <1>2, <1>3, <1>9, <2>1 DEF Life, Hello, AvailableIsCurrent
  <2> QED BY <1>6, <1>7, <2>2 DEF Epochs
<1> QED BY <1>8, <1>9

\* It ends, and `stopped' is on its way.
LEMMA ExitEpochs == ASSUME Epochs, UNCHANGED available, ProcessExits PROVE Epochs'
<1>1. ClientOK /\ TransportOK /\ PostedOK /\ Bounds /\ Life /\ AvailableIsCurrent /\ IsSeq(posted)
  BY DEF Epochs, PostedOK
<1> DEFINE e == Len(posted) + 1
<1>2. /\ transport.process \in {"starting", "running"} /\ UNCHANGED client
      /\ transport' = [transport EXCEPT !.process = "none"] /\ posted' = Append(posted, Stopped)
  BY DEF ProcessExits, Post
<1>3. /\ transport' = [f \in {"epoch", "process"} |-> transport'[f]]
      /\ transport'.epoch = transport.epoch /\ transport'.process = "none"
  BY <1>1, <1>2 DEF TransportOK
<1>4. Stopped.type = "stopped" /\ Stopped.epoch = transport.epoch /\ Stopped' = Stopped
  BY <1>3 DEF Stopped
<1>5. /\ IsSeq(posted') /\ DOMAIN posted' = DOMAIN posted \union {e} /\ posted'[e] = Stopped
      /\ \A n \in DOMAIN posted : posted'[n] = posted[n] /\ n # e /\ e > n
  <2>1. Adds(Append(posted, Stopped), posted, Stopped)
    BY <1>1, AddsOK
  <2> QED BY <1>2, <2>1 DEF Adds
<1> HIDE DEF e
<1>6. ClientOK' /\ TransportOK' /\ Bounds'
  BY <1>1, <1>2, <1>3 DEF ClientOK, TransportOK, Bounds, IsClient, StartsLast, CallOK, Boundary
<1>7. PostedOK'
  BY <1>1, <1>2, <1>3, <1>4, <1>5 DEF PostedOK, TransportOK
<1>8. \A n \in DOMAIN posted' : Hello(n)' => Hello(n) /\ n \in DOMAIN posted
  BY <1>2, <1>4, <1>5 DEF Hello
<1>9. Life'
  <2>1. \A n \in DOMAIN posted' : Hello(n)' =>
          ~available /\ \E k \in DOMAIN posted' : k > n /\ posted'[k] = Stopped
    BY <1>1, <1>5, <1>8 DEF Life
  <2>2. \A k, n \in DOMAIN posted' : Hello(k)' /\ Hello(n)' => k = n
    BY <1>1, <1>8 DEF Life
  <2> QED BY <1>3, <1>4, <2>1, <2>2 DEF Life
<1>10. AvailableIsCurrent'
  BY <1>1, <1>2, <1>3, <1>4, <1>5 DEF AvailableIsCurrent
<1> QED BY <1>6, <1>7, <1>9, <1>10 DEF Epochs

\* A job's reply sends at most a request.
LEMMA SettleTalks == ASSUME NEW j, IsJob(jobs[j]), NEW m, Settle(j, m), UNCHANGED transport PROVE Talks
<1>1. SettleRest /\ (UNCHANGED client \/ \E request : client' = Request(client, request))
  <2>1. PICK job : \/ \E result : SettleEnds(j, job, m, result)
                   \/ SettleRetries(j, job) \/ SettleViews(j, job, m)
    BY SettleCases
  <2>2. SettleRest
    BY SettleCases
  <2> QED BY <2>1, <2>2 DEF SettleEnds, SettleRetries, SettleViews, Ends, Finishes, Sends
<1> QED BY <1>1 DEF Talks, SettleRest

\* The service talks to a worker no other way.
LEMMA ServiceTalks ==
    ASSUME Tables, \/ Asks \/ Withdraws \/ Pumps \/ Rejects \/ Announces \/ TellsRetired \/ Delivers
                   \/ ResumesReceive \/ TellsNext \/ EndsDelivery
    PROVE  Talks /\ UNCHANGED posted
<1>0. Places /\ Stack /\ IsSeq(queue)
  BY DEF Tables, Places, Placed
<1>1. CASE Asks
  BY <1>1, AskCases DEF AskRest, Talks
<1>2. CASE Withdraws
  <2>1. PICK ids \in SUBSET DOMAIN subscriptions : Detached(ids)
    BY <1>2, DetachCases
  <2>2. UNCHANGED client \/ client' = Request(client, CancelOf(active))
    BY <1>0, <2>1, DetachClient
  <2> QED BY <2>1, <2>2 DEF Detached, Talks, session
<1>3. CASE Pumps
  BY <1>0, <1>3, PumpCases DEF PumpRest, PumpIdles, PumpEnds, PumpRuns, Finishes, Sends, Talks,
     session
<1>4. CASE Rejects \/ Announces \/ TellsRetired
  BY <1>4 DEF Rejects, RejectLater, Announces, AnalysisCompleted, TellsRetired, Standalone,
     Aside, Talks, session
<1>5. CASE Delivers \/ TellsNext \/ EndsDelivery
  BY <1>0, <1>5, DeliverCases, TellCases, EndCases
     DEF DeliverRest, TellRest, EndRest, Talks, session
<1>6. CASE ResumesReceive
  <2>1. /\ ContextRest
        /\ Resumed \/ UNCHANGED <<table, context, session, cache, deferred, client>>
    BY <1>0, <1>6, ContextCases
  <2>2. Resumed => IsJob(jobs[active]) /\ Settle(active, Top.reply)
    BY <1>0 DEF Resumed, Places, JobTable
  <2>3. UNCHANGED transport
    BY <2>1 DEF ContextRest
  <2>4. Talks
    BY <2>1, <2>2, <2>3, SettleTalks DEF Talks, session
  <2> QED BY <2>1, <2>4 DEF ContextRest
<1> QED BY <1>1, <1>2, <1>3, <1>4, <1>5, <1>6

\* So do replies.
LEMMA ReplyTalks == ASSUME Tables, IsSeq(posted), HearsReply PROVE Talks /\ Listens
<1> DEFINE m == Head(posted)
<1>1. /\ ReceiveRest /\ posted # <<>> /\ posted' = Tail(posted) /\ m.type = "response"
      /\ \/ ReceiveIgnored
         \/ /\ Awaited(m)
            /\ ReceiveFails \/ ReceiveMoves(m) \/ ReceiveOpens(m) \/ ReceiveSettles(m)
  BY ReceiveCases
<1>2. Listens
  <2>1. Drops(Tail(posted), posted)
    BY <1>1, DropsOK
  <2> QED BY <1>1, <2>1 DEF Drops, Listens
<1> HIDE DEF m
<1>3. UNCHANGED transport
  BY <1>1 DEF ReceiveRest
<1>4. CASE ReceiveIgnored \/ ReceiveFails \/ ReceiveMoves(m) \/ ReceiveOpens(m)
  BY <1>2, <1>3, <1>4 DEF ReceiveIgnored, ReceiveFails, ReceiveMoves, ReceiveOpens, Ends,
     Finishes, Talks, session
<1>5. CASE Awaited(m) /\ ReceiveSettles(m)
  <2>1. IsJob(jobs[active]) /\ Settle(active, m)
    BY <1>5 DEF Awaited, ReceiveSettles, Tables, Places, Placed, JobTable
  <2> QED BY <1>2, <1>3, <2>1, SettleTalks
<1> QED BY <1>1, <1>4, <1>5

\* Every step knows its process.
LEMMA EpochsStep == ASSUME Tables, Epochs, [Next]_vars PROVE Epochs'
<1>0. available \in BOOLEAN /\ IsSeq(posted)
  BY DEF Tables, Stack, Epochs, PostedOK
<1>1. CASE Restart \/ OpenStartsWorker \/ HearsFatal
  BY <1>0, <1>1, LeavingEpochs
<1>2. CASE HearsHello \/ HearsStopped
  BY <1>0, <1>2, HelloEpochs, StoppedEpochs
<1>3. CASE Unheard
  <2>1. Drops(Tail(posted), posted) /\ posted' = Tail(posted) /\ Head(posted).epoch # client.epoch
    BY <1>0, <1>3, DropsOK DEF Unheard, Current
  <2>2. Talks /\ Listens
    BY <1>3, <2>1 DEF Unheard, Drops, Talks, Listens, serviceVars, session
  <2> QED BY <2>2, TalkEpochs
<1>4. CASE HearsHeartbeat
  <2>1. Drops(posted', posted) /\ posted[1].type = "heartbeat"
    BY <1>0, <1>4, HearOK DEF HearsHeartbeat
  <2>2. Talks /\ Listens
    BY <1>4, <2>1 DEF HearsHeartbeat, Talks, Listens, session
  <2> QED BY <2>2, TalkEpochs
<1>5. CASE HearsReply
  BY <1>0, <1>5, ReplyTalks, TalkEpochs
<1>6. CASE Users
  BY <1>1, <1>6, ServiceTalks, TalkEpochs DEF Users, Listens
<1>7. CASE EventLoop
  <2>1. CASE \/ Pumps \/ Rejects \/ Announces \/ TellsRetired \/ Delivers
             \/ ResumesReceive \/ TellsNext \/ EndsDelivery
    BY <2>1, ServiceTalks, TalkEpochs DEF Listens
  <2> QED BY <1>1, <1>2, <1>3, <1>4, <1>5, <1>7, <2>1 DEF EventLoop
<1>8. CASE (Transport \/ Process) \/ UNCHANGED vars
  <2>1. UNCHANGED available
    BY <1>8, ElsewhereOnly DEF Elsewhere, vars, serviceVars, session
  <2>2. CASE Starts \/ Stops
    BY <2>1, <2>2, ProcessEpochs DEF Starts, Stops
  <2>3. CASE SaysHello \/ SaysFatal \/ Exits
    BY <2>1, <2>3, BeginEpochs, ExitEpochs DEF SaysHello, SaysFatal, Exits
  <2>4. CASE Refuses \/ Fills
    <3>1. Unsent(Head(client.calls).id, "transport_unavailable").epoch = transport.epoch
          /\ Unsent(Head(client.calls).id, "transport_unavailable").type = "response"
          /\ Unsent(Head(client.calls).id, "queue_full").epoch = transport.epoch
          /\ Unsent(Head(client.calls).id, "queue_full").type = "response"
      BY DEF Unsent
    <3>2. Speaks /\ NextCall("send") /\ UNCHANGED transport
      BY <2>4, <3>1 DEF Refuses, Fills, TransportUnavailable, TransportFull, Post, Speaks
    <3> QED BY <2>1, <3>2, SpeakEpochs
  <2>5. \A w, id, op, code : Reply(w, id, op, code).epoch = transport.epoch
                             /\ Reply(w, id, op, code).type = "response"
    BY DEF Reply
  <2>6. CASE WorkerReads
    <3>1. NextCall("send") /\ UNCHANGED transport
      BY <2>6 DEF WorkerReads, TransportWrite
    <3>2. UNCHANGED posted \/ Post(Reply(worker, Head(client.calls).id, "cancel", "ok"))
      BY <2>6 DEF WorkerReads
    <3>3. Speaks
      BY <2>5, <3>2 DEF Post, Speaks
    <3> QED BY <2>1, <3>1, <3>3, SpeakEpochs
  <2>7. CASE WorkerAnswers
    <3>1. PICK w, code : Post(Reply(w, worker.request.id, worker.request.op, code))
      BY <2>7 DEF WorkerAnswers
    <3>2. Speaks /\ UNCHANGED <<client, transport>>
      BY <2>5, <2>7, <3>1 DEF WorkerAnswers, Post, Speaks
    <3> QED BY <2>1, <3>2, SpeakEpochs
  <2>8. CASE WorkerProgress
    <3>1. Speaks /\ UNCHANGED <<client, transport>>
      BY <2>5, <2>8 DEF WorkerProgress, Post, Speaks
    <3> QED BY <2>1, <3>1, SpeakEpochs
  <2>9. CASE WorkerBeats
    <3>1. Speaks /\ UNCHANGED <<client, transport>>
      BY <2>9 DEF WorkerBeats, Post, Speaks
    <3> QED BY <2>1, <3>1, SpeakEpochs
  <2>10. CASE WorkerDiscovers \/ UNCHANGED vars
    <3>1. Speaks /\ UNCHANGED <<client, transport>>
      BY <2>10 DEF WorkerDiscovers, vars, clientVars, Speaks
    <3> QED BY <2>1, <3>1, SpeakEpochs
  <2> QED BY <1>8, <2>2, <2>3, <2>4, <2>6, <2>7, <2>8, <2>9, <2>10 DEF Transport, Process
<1> QED BY <1>6, <1>7, <1>8 DEF Next

\* So it is at first.
LEMMA EpochsInit == ASSUME Init \/ OpenedInit PROVE Epochs
<1>1. IsSeq(<<>>) /\ DOMAIN <<>> = {}
  BY EmptySeqOK
<1>2. CASE Init
  <2>1. client = Start(NewClient) /\ transport = NewTransport /\ posted = <<>> /\ available = FALSE
    BY <1>2 DEF Init, ServiceInit
  <2> DEFINE c == NewClient
  <2>2. IsClient(c) /\ StartsLast(c) /\ CallsOK(c) /\ c.epoch = 0
    BY <1>1 DEF NewClient, IsClient, StartsLast, CallsOK
  <2> HIDE DEF c
  <2>3. IsClient(client) /\ StartsLast(client) /\ CallsOK(client) /\ client.epoch = 1
    BY <2>1, <2>2, ClientCalls DEF c
  <2>4. transport.epoch = 0 /\ TransportOK
    BY <2>1, <2>3 DEF NewTransport, TransportOK
  <2> QED BY <1>1, <2>1, <2>3, <2>4 DEF Epochs, ClientOK, CallsOK, PostedOK, Bounds, Life,
     AvailableIsCurrent
<1>3. CASE OpenedInit
  <2>1. /\ client = [epoch |-> 1, nextRequest |-> 1, calls |-> <<>>]
        /\ transport = [epoch |-> 1, process |-> "running"] /\ posted = <<>>
    BY <1>3 DEF OpenedInit
  <2> QED BY <1>1, <2>1 DEF Epochs, ClientOK, IsClient, StartsLast, TransportOK, PostedOK,
     Bounds, Life,
                            AvailableIsCurrent
<1> QED BY <1>2, <1>3

\* The service sends only to the process of the client's own epoch, and only
\* until it hears that this process is gone: over restarts, processes that
\* die before or after hello, and messages that come late.
THEOREM AvailableWhileCurrent == Spec \/ OpenedSpec => []AvailableIsCurrent
<1>1. Init \/ OpenedInit => Tables /\ Epochs
  BY TablesInit, EpochsInit
<1>2. Tables /\ Epochs /\ [Next]_vars => Tables' /\ Epochs'
  BY TablesStep, EpochsStep
<1>3. Epochs => AvailableIsCurrent
  BY DEF Epochs
<1> QED BY <1>1, <1>2, <1>3, PTL DEF Spec, OpenedSpec
-----------------------------------------------------------------------------
(* One request at a time.                                                  *)

\* One more call.
LEMMA AddsCalls ==
    ASSUME NEW k, NEW s, NEW c, Adds(k, s, c), Spread(s)
    PROVE  /\ ~Real(c) => Spread(k) /\ (Guarded(s) => Guarded(k)) /\ (NoReal(s) => NoReal(k))
           /\ NoReal(s) => Spread(k)
           /\ Boundary(c) => \A n \in DOMAIN k : Real(k[n]) => Passed(k, n)
           /\ \A n \in DOMAIN s : Passed(s, n) => Passed(k, n)
<1> DEFINE e == Len(s) + 1
<1>1. /\ DOMAIN k = DOMAIN s \union {e} /\ e \in Nat /\ k[e] = c
      /\ \A n \in DOMAIN s : k[n] = s[n] /\ n \in Nat /\ n < e
  BY DEF Adds
<1> HIDE DEF e
<1>2. ASSUME ~Real(c) \/ NoReal(s) PROVE Spread(k)
  <2> SUFFICES ASSUME NEW m \in DOMAIN k, NEW n \in DOMAIN k, m < n, Real(k[m]), Real(k[n])
               PROVE  \E b \in DOMAIN k : m < b /\ b < n /\ Boundary(k[b])
    BY DEF Spread
  <2>1. m # e
    BY <1>1
  <2>2. m \in DOMAIN s /\ Real(s[m])
    BY <1>1, <2>1
  <2>3. n \in DOMAIN s /\ Real(s[n])
    BY <1>1, <1>2, <2>2 DEF NoReal
  <2> QED BY <1>1, <2>2, <2>3 DEF Spread
<1>3. ~Real(c) /\ Guarded(s) => Guarded(k)
  BY <1>1 DEF Guarded
<1>4. ~Real(c) /\ NoReal(s) => NoReal(k)
  BY <1>1 DEF NoReal
<1>5. Boundary(c) => \A n \in DOMAIN k : Real(k[n]) => Passed(k, n)
  BY <1>1 DEF Passed, Boundary, Real
<1>6. \A n \in DOMAIN s : Passed(s, n) => Passed(k, n)
  BY <1>1 DEF Passed
<1> QED BY <1>2, <1>3, <1>4, <1>5, <1>6

\* One call less.
LEMMA DropsCalls ==
    ASSUME NEW k, NEW s, Drops(k, s), Spread(s)
    PROVE  /\ Spread(k)
           /\ ~Boundary(s[1]) /\ Guarded(s) => Guarded(k)
           /\ ~Boundary(s[1]) /\ Real(s[1]) => Guarded(k)
           /\ NoReal(s) => NoReal(k)
           /\ \A n \in DOMAIN k : Passed(s, n + 1) => Passed(k, n)
           /\ \A n \in DOMAIN k : n + 1 \in DOMAIN s /\ k[n] = s[n + 1]
<1>1. /\ \A n \in DOMAIN k : n \in Nat /\ n + 1 \in DOMAIN s /\ k[n] = s[n + 1]
      /\ \A n \in DOMAIN s : n \in Nat /\ (n # 1 => n - 1 \in DOMAIN k /\ k[n - 1] = s[n])
      /\ 1 \in DOMAIN s /\ \A n \in DOMAIN k : n + 1 > 1
  <2>1. DOMAIN k = 1..Len(k) /\ Len(k) \in Nat
    BY SeqType DEF Drops
  <2>2. \A n \in DOMAIN k : n + 1 > 1
    BY <2>1
  <2> QED BY <2>2 DEF Drops
<1>2. Spread(k)
  <2> SUFFICES ASSUME NEW m \in DOMAIN k, NEW n \in DOMAIN k, m < n, Real(k[m]), Real(k[n])
               PROVE  \E b \in DOMAIN k : m < b /\ b < n /\ Boundary(k[b])
    BY DEF Spread
  <2>1. PICK b \in DOMAIN s : m + 1 < b /\ b < n + 1 /\ Boundary(s[b])
    <3>1. m + 1 < n + 1 /\ Real(s[m + 1]) /\ Real(s[n + 1])
      BY <1>1
    <3> DEFINE p == m + 1
               q == n + 1
    <3>2. p \in DOMAIN s /\ q \in DOMAIN s /\ p < q /\ Real(s[p]) /\ Real(s[q])
      BY <1>1, <3>1
    <3> HIDE DEF p, q
    <3>3. \E b \in DOMAIN s : p < b /\ b < q /\ Boundary(s[b])
      BY <3>2 DEF Spread
    <3> QED BY <3>3 DEF p, q
  <2>2. b \in Nat /\ b # 1 /\ b - 1 \in DOMAIN k /\ k[b - 1] = s[b] /\ m < b - 1 /\ b - 1 < n
    BY <1>1, <2>1
  <2> QED BY <2>1, <2>2
<1>3. ASSUME ~Boundary(s[1]), Guarded(s) \/ Real(s[1]) PROVE Guarded(k)
  <2> SUFFICES ASSUME NEW n \in DOMAIN k, Real(k[n]) PROVE \E m \in DOMAIN k : m < n /\ Boundary(k[m])
    BY DEF Guarded
  <2> DEFINE q == n + 1
  <2>1. q \in DOMAIN s /\ Real(s[q]) /\ 1 < q /\ 1 \in DOMAIN s /\ q \in Nat /\ n \in Nat /\ q = n + 1
    BY <1>1
  <2> HIDE DEF q
  <2>2. PICK m \in DOMAIN s : m < q /\ Boundary(s[m])
    BY <1>3, <2>1 DEF Guarded, Spread
  <2>3. m \in Nat /\ m # 1 /\ m - 1 \in DOMAIN k /\ k[m - 1] = s[m] /\ m - 1 < n
    BY <1>1, <1>3, <2>1, <2>2
  <2> QED BY <2>2, <2>3
<1>4. NoReal(s) => NoReal(k)
  BY <1>1 DEF NoReal
<1>5. ASSUME NEW n \in DOMAIN k, Passed(s, n + 1) PROVE Passed(k, n)
  <2>1. PICK m \in DOMAIN s : n + 1 < m /\ Boundary(s[m])
    BY <1>5 DEF Passed
  <2>2. m \in Nat /\ m # 1 /\ n \in Nat /\ n < m - 1 /\ m - 1 \in DOMAIN k /\ k[m - 1] = s[m]
    BY <1>1, <2>1
  <2> QED BY <2>1, <2>2 DEF Passed
<1> QED BY <1>1, <1>2, <1>3, <1>4, <1>5

\* A current process has no boundary on its way, so what flies is ours.
LEMMA CurrentCalls ==
    ASSUME Epochs, transport.epoch = client.epoch
    PROVE  /\ \A n \in DOMAIN client.calls : ~Passed(client.calls, n)
           /\ Guarded(client.calls) => NoReal(client.calls)
           /\ \A m, n \in DOMAIN client.calls :
                 Spread(client.calls) /\ Real(client.calls[m]) /\ Real(client.calls[n]) => m = n
<1>1. \A n \in DOMAIN client.calls : ~Boundary(client.calls[n])
  BY DEF Epochs, Bounds
<1>2. \A n \in DOMAIN client.calls : n \in Nat
  <2>1. IsSeq(client.calls)
    BY DEF Epochs, ClientOK, IsClient
  <2>2. DOMAIN client.calls = 1..Len(client.calls) /\ Len(client.calls) \in Nat
    BY <2>1, SeqType
  <2> QED BY <2>2
<1>3. ASSUME NEW m \in DOMAIN client.calls, NEW n \in DOMAIN client.calls,
             Spread(client.calls), Real(client.calls[m]), Real(client.calls[n]), m # n
      PROVE  FALSE
  <2>1. m < n \/ n < m
    BY <1>2, <1>3
  <2> QED BY <1>1, <1>3, <2>1 DEF Spread
<1> QED BY <1>1, <1>3 DEF Passed, Guarded, NoReal

\* What was posted, or what is left of it after the first.
Heard(d) ==
    d \in {0, 1} /\ \A n \in DOMAIN posted' : n \in Nat /\ n + d \in DOMAIN posted /\ posted'[n] = posted[n + d]
Hears == UNCHANGED posted \/ Drops(posted', posted)

\* Messages keep their order.
LEMMA HeardOK == ASSUME IsSeq(posted), Hears PROVE \E d : Heard(d)
<1>1. DOMAIN posted = 1..Len(posted) /\ Len(posted) \in Nat
  BY SeqType
<1>2. CASE UNCHANGED posted
  <2>1. Heard(0)
    BY <1>1, <1>2 DEF Heard
  <2> QED BY <2>1
<1>3. CASE Drops(posted', posted)
  <2>1. Heard(1)
    BY <1>3 DEF Heard, Drops
  <2> QED BY <2>1
<1> QED BY <1>2, <1>3 DEF Hears

\* So a message about the job, or its process, was one before.
LEMMA HeardSame ==
    ASSUME NEW d, Heard(d), client'.epoch = client.epoch
    PROVE  /\ \A n \in DOMAIN posted' : Hello(n)' => n + d \in DOMAIN posted /\ Hello(n + d)
           /\ Wire' = Wire => \A n \in DOMAIN posted' :
                /\ About(n)' => n + d \in DOMAIN posted /\ About(n + d) /\ posted'[n] = posted[n + d]
                /\ Final(n)' => n + d \in DOMAIN posted /\ Final(n + d)
           /\ \A m, n \in DOMAIN posted' : m + d = n + d => m = n
<1>1. /\ d \in {0, 1}
      /\ \A n \in DOMAIN posted' : n \in Nat /\ n + d \in DOMAIN posted /\ posted'[n] = posted[n + d]
  BY DEF Heard
<1>2. \A m, n \in DOMAIN posted' : m + d = n + d => m = n
  BY <1>1
<1>3. \A n \in DOMAIN posted' : Hello(n)' => Hello(n + d)
  BY <1>1 DEF Hello
<1>4. Wire' = Wire => \A n \in DOMAIN posted' : About(n)' => About(n + d)
  BY <1>1 DEF About
<1>5. Wire' = Wire => \A n \in DOMAIN posted' : Final(n)' => Final(n + d)
  BY <1>1, <1>4 DEF Final
<1> QED BY <1>1, <1>2, <1>3, <1>4, <1>5

\* The client sent nothing, or a cancel.
Recalls == UNCHANGED client \/ \E request : request.op = "cancel" /\ client' = Request(client, request)

\* A cancel meets no request.
LEMMA RecallCalls ==
    ASSUME Epochs, Spread(client.calls), Recalls
    PROVE  /\ client'.epoch = client.epoch /\ client'.nextRequest \in Nat
           /\ client'.nextRequest >= client.nextRequest /\ client.nextRequest \in Nat
           /\ Spread(client'.calls)
           /\ Guarded(client.calls) => Guarded(client'.calls)
           /\ NoReal(client.calls) => NoReal(client'.calls)
           /\ \A n \in DOMAIN client'.calls :
                 \/ /\ n \in DOMAIN client.calls /\ client'.calls[n] = client.calls[n]
                    /\ Passed(client.calls, n) => Passed(client'.calls, n)
                 \/ ~Real(client'.calls[n]) /\ client'.calls[n].id = client.nextRequest + 1
<1>1. IsClient(client) /\ client.nextRequest \in Nat
  BY DEF Epochs, ClientOK, IsClient
<1>2. CASE UNCHANGED client
  BY <1>1, <1>2 DEF IsClient
<1>3. ASSUME NEW request, request.op = "cancel", client' = Request(client, request)
      PROVE  /\ client'.epoch = client.epoch /\ client'.nextRequest = client.nextRequest + 1
             /\ Spread(client'.calls)
             /\ Guarded(client.calls) => Guarded(client'.calls)
             /\ NoReal(client.calls) => NoReal(client'.calls)
             /\ \A n \in DOMAIN client'.calls :
                 \/ /\ n \in DOMAIN client.calls /\ client'.calls[n] = client.calls[n]
                    /\ Passed(client.calls, n) => Passed(client'.calls, n)
                 \/ ~Real(client'.calls[n]) /\ client'.calls[n].id = client.nextRequest + 1
  <2> DEFINE c == SendOf(client, request)
             k == client'.calls
             s == client.calls
  <2>1. Posts(client', client, c) /\ client'.epoch = client.epoch /\ client'.nextRequest = client.nextRequest + 1
    BY <1>1, <1>3, RequestOK
  <2>2. ~Real(c) /\ c.id = client.nextRequest + 1
    BY <1>3 DEF SendOf, Real
  <2> HIDE DEF c
  <2>3. Adds(k, s, c)
    BY <2>1 DEF Posts
  <2> HIDE DEF k, s
  <2>4. Spread(k) /\ (Guarded(s) => Guarded(k)) /\ (NoReal(s) => NoReal(k))
        /\ \A n \in DOMAIN s : Passed(s, n) => Passed(k, n)
    <3>1. Spread(s)
      BY DEF s
    <3> QED BY <2>2, <2>3, <3>1, AddsCalls
  <2>5. \A n \in DOMAIN k : (n \in DOMAIN s /\ k[n] = s[n]) \/ k[n] = c
    BY <2>3 DEF Adds
  <2> QED BY <2>1, <2>2, <2>4, <2>5 DEF k, s
<1> QED BY <1>1, <1>2, <1>3 DEF Recalls

\* The request's part of the invariant.
Homed == \A n \in DOMAIN frames :
             frames[n].frame = "context" /\ frames[n].job \in DOMAIN jobs => frames[n].job = active
Wires == WorkerOK /\ Ids /\ Apart /\ Flight /\ Resuming

\* Nothing happens to the request.
LEMMA WiresKept ==
    ASSUME Epochs, Wires, Wire \in Nat, Wire <= client.nextRequest,
           UNCHANGED <<worker, transport, available>>, Recalls, Hears,
           Wire' = Wire, Wire # 0 => WireOp' = WireOp, Homed',
           \A n \in DOMAIN frames' : Context(n)' => n \in DOMAIN frames /\ Context(n)
    PROVE  Wires'
<1>1. WorkerOK /\ Ids /\ Apart /\ Flight /\ Resuming /\ IsSeq(posted) /\ Spread(client.calls)
  BY DEF Wires, Epochs, PostedOK, Apart
<1>2. PICK d : Heard(d)
  BY <1>1, HeardOK
<1>3. /\ client'.epoch = client.epoch /\ client'.nextRequest \in Nat
      /\ client'.nextRequest >= client.nextRequest /\ client.nextRequest \in Nat
      /\ Spread(client'.calls)
      /\ Guarded(client.calls) => Guarded(client'.calls)
      /\ NoReal(client.calls) => NoReal(client'.calls)
      /\ \A n \in DOMAIN client'.calls :
            \/ /\ n \in DOMAIN client.calls /\ client'.calls[n] = client.calls[n]
               /\ Passed(client.calls, n) => Passed(client'.calls, n)
            \/ ~Real(client'.calls[n]) /\ client'.calls[n].id = client.nextRequest + 1
  BY <1>1, RecallCalls
<1>4. /\ \A n \in DOMAIN posted' : Hello(n)' => n + d \in DOMAIN posted /\ Hello(n + d)
      /\ \A n \in DOMAIN posted' :
            /\ About(n)' => n + d \in DOMAIN posted /\ About(n + d) /\ posted'[n] = posted[n + d]
            /\ Final(n)' => n + d \in DOMAIN posted /\ Final(n + d)
      /\ \A m, n \in DOMAIN posted' : m + d = n + d => m = n
  BY <1>2, <1>3, HeardSame
<1>5. NoRequest => NoRequest'
  BY <1>3 DEF NoRequest, Busy, Idle, NoReal, Real
<1>6. WorkerOK'
  BY <1>1, <1>3 DEF WorkerOK, IsWorker, Busy, Idle
<1>7. Ids'
  <2>1. \A n \in DOMAIN client'.calls :
           client'.calls[n].call = "send" /\ ~Real(client'.calls[n]) => client'.calls[n].id # Wire
    BY <1>1, <1>3 DEF Ids
  <2>2. \A n \in DOMAIN posted' :
           posted'[n].type = "response" => posted'[n].id \in Nat /\ posted'[n].id <= client'.nextRequest
    BY <1>1, <1>2, <1>3 DEF Ids, Heard
  <2> QED BY <2>1, <2>2 DEF Ids, Real
<1>8. Apart'
  <2>1. Busy' => Guarded(client'.calls)
    BY <1>1, <1>3 DEF Apart, Busy, Idle
  <2>2. \A n \in DOMAIN client'.calls : Real(client'.calls[n]) =>
           Passed(client'.calls, n) \/ Ours(client.calls[n])' \/ Lost'
    BY <1>1, <1>3 DEF Apart, Ours, Lost
  <2>3. \A n \in DOMAIN posted' : Hello(n)' => NoRequest'
    BY <1>1, <1>4, <1>5 DEF Apart
  <2> QED BY <1>3, <2>1, <2>2, <2>3 DEF Apart, Guarded, Spread, Passed, Real, Boundary
<1>9. Flight'
  <2>1. available' /\ Busy' => Wire' # 0 /\ worker'.request.id = Wire' /\ worker'.request.op = WireOp'
    BY <1>1 DEF Flight, Busy, Idle
  <2>2. \A n \in DOMAIN posted' : Final(n)' =>
           NoRequest' /\ \A m \in DOMAIN posted' : Final(m)' => m = n
    BY <1>1, <1>4, <1>5 DEF Flight
  <2>3. \A n \in DOMAIN posted' : About(n)' /\ posted'[n].code = "progress" => posted'[n].op = WireOp'
    <3>1. \A n \in DOMAIN posted : About(n) => Wire # 0
      BY DEF About
    <3> QED BY <1>1, <1>4, <3>1 DEF Flight
  <2> QED BY <2>1, <2>2, <2>3 DEF Flight
<1>10. Resuming'
  <2>1. \A n \in DOMAIN frames' : Context(n)' =>
          /\ NoRequest' /\ Wire' # 0 /\ (\A m \in DOMAIN posted' : ~Final(m)')
          /\ \A m \in DOMAIN frames' : Context(m)' => m = n
    BY <1>1, <1>4, <1>5 DEF Resuming
  <2> QED BY <2>1 DEF Resuming, Homed
<1> QED BY <1>6, <1>7, <1>8, <1>9, <1>10 DEF Wires

\* The request is over, and the job waits for no other.
LEMMA WiresEnd ==
    ASSUME Epochs, Wires, NoRequest, UNCHANGED <<worker, client, transport, available>>, Hears,
           Wire' = 0, Homed', \A n \in DOMAIN frames' : ~Context(n)'
    PROVE  Wires'
<1>1. WorkerOK /\ Ids /\ Apart /\ Flight /\ IsSeq(posted)
  BY DEF Wires, Epochs, PostedOK
<1>2. PICK d : Heard(d)
  BY <1>1, HeardOK
<1>3. \A n \in DOMAIN posted' : Hello(n)' => n + d \in DOMAIN posted /\ Hello(n + d)
  BY <1>2, HeardSame
<1>4. NoRequest'
  BY DEF NoRequest, Busy, Idle, NoReal, Real
<1>5. WorkerOK'
  BY <1>1 DEF WorkerOK, IsWorker, Busy, Idle
<1>6. \A n \in DOMAIN client.calls : client.calls[n].call = "send" => client.calls[n].id # 0
  BY DEF Epochs, ClientOK, CallOK
<1>7. Ids'
  BY <1>1, <1>2, <1>6 DEF Ids, Heard, Real
<1>8. Apart'
  <2>1. Spread(client.calls)' /\ ~Busy' /\ NoReal(client.calls)'
    BY <1>1, <1>4 DEF Apart, Spread, NoRequest, Real, Boundary
  <2> QED BY <1>4, <2>1 DEF Apart, NoReal
<1>9. \A n \in DOMAIN posted' : ~About(n)' /\ ~Final(n)'
  BY DEF About, Final
<1>10. Flight' /\ Resuming'
  BY <1>4, <1>9 DEF Flight, Resuming, NoRequest, Homed
<1> QED BY <1>5, <1>7, <1>8, <1>10 DEF Wires

\* The job sends a request, and nothing of the last one is left.
LEMMA WiresSend ==
    ASSUME Epochs, Wires, NoRequest, available, UNCHANGED <<worker, transport, available>>, Hears,
           NEW request, "op" \in DOMAIN request, request.op # "cancel", client' = Request(client, request),
           Wire' = client'.nextRequest, WireOp' = request.op,
           Homed', \A n \in DOMAIN frames' : ~Context(n)'
    PROVE  Wires'
<1>1. WorkerOK /\ Ids /\ Apart /\ Flight /\ IsSeq(posted) /\ Spread(client.calls) /\ NoReal(client.calls)
      /\ ~Busy
  BY DEF Wires, Epochs, PostedOK, Apart, NoRequest
<1>2. PICK d : Heard(d)
  BY <1>1, HeardOK
<1> DEFINE c == SendOf(client, request)
           k == client'.calls
           s == client.calls
           e == Len(client.calls) + 1
<1>3. IsClient(client) /\ client.nextRequest \in Nat
  BY DEF Epochs, ClientOK, IsClient
<1>4. Adds(k, s, c) /\ client'.epoch = client.epoch /\ client'.nextRequest = client.nextRequest + 1
  BY <1>3, RequestOK DEF Posts
<1>5. c.call = "send" /\ c.id = client.nextRequest + 1 /\ c.request = request /\ Real(c)
  BY DEF SendOf, Real
<1> HIDE DEF c
<1>6. \A n \in DOMAIN k : (n \in DOMAIN s /\ k[n] = s[n]) \/ k[n] = c
  BY <1>4 DEF Adds
<1>7. Spread(k)
  <2> HIDE DEF k, s
  <2>1. Spread(s) /\ NoReal(s)
    BY <1>1 DEF s
  <2> QED BY <1>4, <2>1, AddsCalls
<1>8. \A n \in DOMAIN posted' : ~Hello(n)'
  <2>1. \A n \in DOMAIN posted' : Hello(n)' => n + d \in DOMAIN posted /\ Hello(n + d)
    BY <1>2, <1>4, HeardSame
  <2> QED BY <2>1 DEF Epochs, Life
<1>9. \A n \in DOMAIN posted' : posted'[n].type = "response" =>
         posted'[n].id \in Nat /\ posted'[n].id <= client.nextRequest
  BY <1>1, <1>2 DEF Ids, Heard
<1>10. Wire' # 0 /\ \A n \in DOMAIN posted' : ~About(n)' /\ ~Final(n)'
  <2>1. \A n \in DOMAIN posted' : posted'[n].type = "response" => posted'[n].id # Wire'
    BY <1>3, <1>4, <1>9
  <2> QED BY <1>3, <1>4, <2>1 DEF About, Final
<1>11. WorkerOK' /\ ~Busy'
  BY <1>1 DEF WorkerOK, IsWorker, Busy, Idle
<1>12. Ids'
  <2>1. \A n \in DOMAIN s : s[n].call = "send" => s[n].id \in Nat /\ s[n].id <= client.nextRequest
    BY DEF Epochs, ClientOK, CallOK
  <2>2. \A n \in DOMAIN k : k[n].call = "send" /\ ~Real(k[n]) => k[n].id # Wire'
    BY <1>3, <1>4, <1>5, <1>6, <2>1
  <2>3. \A n \in DOMAIN posted' :
           posted'[n].type = "response" => posted'[n].id \in Nat /\ posted'[n].id <= client'.nextRequest
    BY <1>3, <1>4, <1>9
  <2> QED BY <2>2, <2>3 DEF Ids, Real
<1>13. Apart'
  <2>1. \A n \in DOMAIN k : Real(k[n]) => Ours(client.calls[n])'
    BY <1>1, <1>4, <1>5, <1>6, <1>10 DEF NoReal, Ours
  <2> QED BY <1>7, <1>8, <1>11, <2>1 DEF Apart, Spread, Real, Boundary
<1>14. Flight' /\ Resuming'
  BY <1>10, <1>11 DEF Flight, Resuming, Homed
<1> QED BY <1>11, <1>12, <1>13, <1>14 DEF Wires

\* The reply of the request moves the context, and the views are told first.
LEMMA WiresMove ==
    ASSUME Epochs, Wires, UNCHANGED <<worker, client, transport, available>>, Drops(posted', posted),
           Final(1), Wire' = Wire, WireOp' = WireOp, Homed', NEW e,
           \A n \in DOMAIN frames' : Context(n)' => n = e \/ (n \in DOMAIN frames /\ Context(n))
    PROVE  Wires'
<1>1. WorkerOK /\ Ids /\ Apart /\ Flight /\ Resuming /\ 1 \in DOMAIN posted
  BY DEF Wires, Drops
<1>2. NoRequest /\ Wire # 0 /\ \A n \in DOMAIN posted : Final(n) => n = 1
  BY <1>1 DEF Flight, Final, About
<1>3. \A n \in DOMAIN frames' : Context(n)' => n = e
  BY <1>1 DEF Resuming
<1>4. Heard(1) /\ \A n \in DOMAIN posted' : n + 1 # 1
  <2>1. DOMAIN posted' = 1..Len(posted') /\ Len(posted') \in Nat
    BY SeqType DEF Drops
  <2> QED BY <2>1 DEF Heard, Drops
<1>5. /\ \A n \in DOMAIN posted' : Hello(n)' => n + 1 \in DOMAIN posted /\ Hello(n + 1)
      /\ \A n \in DOMAIN posted' :
            /\ About(n)' => n + 1 \in DOMAIN posted /\ About(n + 1) /\ posted'[n] = posted[n + 1]
            /\ Final(n)' => n + 1 \in DOMAIN posted /\ Final(n + 1)
  BY <1>4, HeardSame
<1>6. \A n \in DOMAIN posted' : ~Final(n)'
  BY <1>2, <1>4, <1>5
<1>7. NoRequest' /\ ~Busy'
  BY <1>2 DEF NoRequest, Busy, Idle, NoReal, Real
<1>8. WorkerOK'
  BY <1>1 DEF WorkerOK, IsWorker, Busy, Idle
<1>9. Ids'
  BY <1>1, <1>4 DEF Ids, Heard, Real
<1>10. Apart'
  <2>1. Spread(client.calls)' /\ NoReal(client.calls)'
    BY <1>1, <1>7 DEF Apart, Spread, NoRequest, Real, Boundary
  <2> QED BY <1>7, <2>1 DEF Apart, NoReal
<1>11. Flight'
  BY <1>1, <1>5, <1>6, <1>7 DEF Flight
<1>12. Resuming'
  BY <1>2, <1>3, <1>6, <1>7 DEF Resuming, Homed
<1> QED BY <1>8, <1>9, <1>10, <1>11, <1>12 DEF Wires

\* A start or a stop passes every request.
LEMMA BoundaryCalls ==
    ASSUME NEW c, IsClient(c), Spread(c.calls), NEW d, d = Start(c) \/ d = Stop(c)
    PROVE  /\ IsClient(d) /\ Spread(d.calls) /\ (Guarded(c.calls) => Guarded(d.calls))
           /\ \A n \in DOMAIN d.calls : Real(d.calls[n]) => Passed(d.calls, n)
           /\ d.nextRequest = c.nextRequest /\ d.epoch = c.epoch + 1
<1>1. PICK call : Posts(d, c, call) /\ Boundary(call) /\ ~Real(call)
                  /\ d.nextRequest = c.nextRequest /\ d.epoch = c.epoch + 1
  <2>1. CASE d = Start(c)
    <3>1. Posts(d, c, StartOf(c)) /\ d.nextRequest = c.nextRequest /\ d.epoch = c.epoch + 1
      BY <2>1, StartOK
    <3>2. Boundary(StartOf(c)) /\ ~Real(StartOf(c))
      BY DEF Boundary, Real, StartOf
    <3> QED BY <3>1, <3>2
  <2>2. CASE d = Stop(c)
    <3>1. Posts(d, c, StopCall) /\ d.nextRequest = c.nextRequest /\ d.epoch = c.epoch + 1
      BY <2>2, StopOK
    <3>2. Boundary(StopCall) /\ ~Real(StopCall)
      BY DEF Boundary, Real, StopCall
    <3> QED BY <3>1, <3>2
  <2> QED BY <2>1, <2>2
<1> DEFINE k == d.calls
           s == c.calls
<1>2. IsClient(d) /\ Adds(k, s, call) /\ Spread(s)
  BY <1>1 DEF Posts
<1> HIDE DEF k, s
<1>3. Spread(k) /\ (Guarded(s) => Guarded(k)) /\ \A n \in DOMAIN k : Real(k[n]) => Passed(k, n)
  BY <1>1, <1>2, AddsCalls
<1> QED BY <1>1, <1>2, <1>3 DEF k, s

\* The session is left behind.
LEMMA WiresLeave ==
    ASSUME Epochs, Epochs', Wires, UNCHANGED <<worker, transport>>, Hears, ~available', active' = 0, Homed',
           client'.epoch > client.epoch, client'.nextRequest = client.nextRequest, Spread(client'.calls),
           Guarded(client.calls) => Guarded(client'.calls),
           \A n \in DOMAIN client'.calls : Real(client'.calls[n]) => Passed(client'.calls, n)
    PROVE  Wires'
<1>1. WorkerOK /\ Ids /\ Apart /\ IsSeq(posted) /\ client.epoch \in Nat /\ client'.epoch \in Nat
  BY DEF Wires, Epochs, PostedOK, ClientOK, IsClient
<1>2. PICK d : Heard(d)
  BY <1>1, HeardOK
<1>3. Wire' = 0 /\ \A n \in DOMAIN frames' : ~Context(n)'
  BY DEF Wire, Context
<1>4. \A n \in DOMAIN posted' : posted'[n].epoch # client'.epoch
  <2>1. \A n \in DOMAIN posted : posted[n].epoch \in Nat /\ posted[n].epoch <= client.epoch
    BY DEF Epochs, PostedOK
  <2>2. \A n \in DOMAIN posted' : posted'[n].epoch \in Nat /\ posted'[n].epoch <= client.epoch
    BY <1>2, <2>1 DEF Heard
  <2> QED BY <1>1, <2>2
<1>5. \A n \in DOMAIN posted' : ~Hello(n)' /\ ~About(n)' /\ ~Final(n)'
  BY <1>4 DEF Hello, About, Final
<1>6. WorkerOK'
  BY <1>1 DEF WorkerOK, IsWorker, Busy, Idle
<1>7. Ids'
  <2>1. \A n \in DOMAIN client'.calls : client'.calls[n].call = "send" => client'.calls[n].id # 0
    BY DEF Epochs, ClientOK, CallOK
  <2>2. \A n \in DOMAIN posted' :
           posted'[n].type = "response" => posted'[n].id \in Nat /\ posted'[n].id <= client'.nextRequest
    BY <1>1, <1>2 DEF Ids, Heard
  <2> QED BY <1>3, <2>1, <2>2 DEF Ids
<1>8. Apart'
  <2>1. Busy' => Guarded(client'.calls)
    BY <1>1 DEF Apart, Busy, Idle
  <2> QED BY <1>5, <2>1 DEF Apart, Guarded, Spread, Passed, Real, Boundary
<1>9. Flight' /\ Resuming'
  BY <1>3, <1>5 DEF Flight, Resuming, Homed
<1> QED BY <1>6, <1>7, <1>8, <1>9 DEF Wires

\* The service hears that the process is gone: its requests are lost.
LEMMA WiresLost ==
    ASSUME Epochs, Wires, UNCHANGED <<worker, client, transport>>, Drops(posted', posted),
           ~available', active' = 0, Homed', transport.epoch = client.epoch, transport.process = "none"
    PROVE  Wires'
<1>1. WorkerOK /\ Ids /\ Apart /\ IsSeq(posted) /\ Heard(1)
  BY DEF Wires, Epochs, PostedOK, Heard, Drops
<1>2. Wire' = 0 /\ \A n \in DOMAIN frames' : ~Context(n)'
  BY DEF Wire, Context
<1>3. \A n \in DOMAIN posted' : ~About(n)' /\ ~Final(n)'
  BY <1>2 DEF About, Final
<1>4. WorkerOK' /\ ~Busy'
  BY <1>1 DEF WorkerOK, IsWorker, Busy, Idle
<1>5. Ids'
  <2>1. \A n \in DOMAIN client.calls : client.calls[n].call = "send" => client.calls[n].id # 0
    BY DEF Epochs, ClientOK, CallOK
  <2> QED BY <1>1, <1>2, <2>1 DEF Ids, Heard
<1>6. Apart'
  <2>1. \A n \in DOMAIN posted' : Hello(n)' => n + 1 \in DOMAIN posted /\ Hello(n + 1)
    BY <1>1, HeardSame
  <2>2. NoRequest => NoRequest'
    BY DEF NoRequest, Busy, Idle, NoReal, Real
  <2>3. \A n \in DOMAIN posted' : Hello(n)' => NoRequest'
    BY <1>1, <2>1, <2>2 DEF Apart
  <2>4. Lost'
    BY DEF Lost
  <2> QED BY <1>1, <1>4, <2>3, <2>4 DEF Apart, Spread, Real, Boundary
<1>7. Flight' /\ Resuming'
  BY <1>2, <1>3, <1>4 DEF Flight, Resuming, Homed
<1> QED BY <1>4, <1>5, <1>6, <1>7 DEF Wires

\* It hears hello, and nothing is on its way.
LEMMA WiresHello ==
    ASSUME Epochs, Wires, HearsHello, DOMAIN jobs = {}, active = 0
    PROVE  Wires'
<1>1. WorkerOK /\ Ids /\ Apart /\ Resuming /\ IsSeq(posted)
  BY DEF Wires, Epochs, PostedOK
<1>2. /\ UNCHANGED <<client, transport, worker, frames, jobs, active>>
      /\ Drops(posted', posted) /\ posted[1].type = "hello" /\ posted[1].epoch = client.epoch
  BY <1>1, HearOK DEF HearsHello, SetAvailable, WorkerGone, Current, table
<1>3. 1 \in DOMAIN posted /\ Hello(1) /\ NoRequest /\ Heard(1)
  BY <1>1, <1>2 DEF Drops, Hello, Apart, Heard
<1>4. Wire = 0 /\ Wire' = 0 /\ \A n \in DOMAIN frames' : ~Context(n)'
  BY <1>2 DEF Wire, Context
<1>5. \A n \in DOMAIN posted' : ~About(n)' /\ ~Final(n)'
  BY <1>4 DEF About, Final
<1>6. NoRequest' /\ ~Busy' /\ NoReal(client.calls)'
  BY <1>2, <1>3 DEF NoRequest, Busy, Idle, NoReal, Real
<1>7. WorkerOK'
  BY <1>1, <1>2 DEF WorkerOK, IsWorker, Busy, Idle
<1>8. Ids'
  BY <1>1, <1>2, <1>3, <1>4 DEF Ids, Heard, Real
<1>9. Apart'
  BY <1>1, <1>2, <1>6 DEF Apart, NoReal, Spread, Real, Boundary
<1>10. Flight' /\ Resuming'
  BY <1>1, <1>2, <1>4, <1>5, <1>6 DEF Flight, Resuming
<1> QED BY <1>7, <1>8, <1>9, <1>10 DEF Wires

\* Nothing happens on the GUI thread.
Away == UNCHANGED <<jobs, active, frames, available>>

\* So the job waits for the same request.
LEMMA AwaySame ==
    ASSUME Away
    PROVE  /\ Wire' = Wire /\ WireOp' = WireOp /\ (Resuming => Homed')
           /\ \A n : (Context(n)' <=> Context(n))
  BY DEF Away, Wire, WireOp, Homed, Resuming, Context

\* A message more.
Posted(m) ==
    /\ IsSeq(posted') /\ DOMAIN posted' = DOMAIN posted \union {Len(posted) + 1}
    /\ posted'[Len(posted) + 1] = m /\ Len(posted) + 1 \notin DOMAIN posted
    /\ \A n \in DOMAIN posted : posted'[n] = posted[n]

\* Post does that.
LEMMA PostOK == ASSUME IsSeq(posted), NEW m, Post(m) PROVE Posted(m)
<1>1. Adds(Append(posted, m), posted, m)
  BY AddsOK
<1>2. \A n \in DOMAIN posted : n < Len(posted) + 1 /\ n \in Nat
  BY <1>1 DEF Adds
<1> QED BY <1>1, <1>2 DEF Adds, Posted, Post

\* The others are about what they were about.
LEMMA PostedSame ==
    ASSUME Away, NEW m, Posted(m), client'.epoch = client.epoch
    PROVE  /\ \A n \in DOMAIN posted : (Hello(n)' <=> Hello(n)) /\ (About(n)' <=> About(n))
                                      /\ (Final(n)' <=> Final(n))
           /\ \A n \in DOMAIN posted' : n \notin DOMAIN posted =>
                /\ posted'[n] = m
                /\ (Hello(n)' => m.type = "hello" /\ m.epoch = client.epoch)
                /\ (About(n)' <=> m.type = "response" /\ m.epoch = client.epoch /\ Wire # 0 /\ m.id = Wire)
                /\ (Final(n)' <=> About(n)' /\ m.code # "progress")
           /\ \A k, n \in DOMAIN posted' : k \notin DOMAIN posted /\ n \notin DOMAIN posted => k = n
<1>1. Wire' = Wire
  BY AwaySame
<1>2. \A n \in DOMAIN posted : (Hello(n)' <=> Hello(n)) /\ (About(n)' <=> About(n))
  BY <1>1 DEF Posted, Hello, About
<1>3. \A n \in DOMAIN posted : Final(n)' <=> Final(n)
  BY <1>2 DEF Posted, Final
<1>4. \A n \in DOMAIN posted' : n \notin DOMAIN posted =>
        /\ posted'[n] = m
        /\ (Hello(n)' => m.type = "hello" /\ m.epoch = client.epoch)
        /\ (About(n)' <=> m.type = "response" /\ m.epoch = client.epoch /\ Wire # 0 /\ m.id = Wire)
  BY <1>1 DEF Posted, Hello, About
<1>5. \A n \in DOMAIN posted' : n \notin DOMAIN posted => (Final(n)' <=> About(n)' /\ m.code # "progress")
  BY <1>4 DEF Final
<1> QED BY <1>2, <1>3, <1>4, <1>5 DEF Posted

\* A message that answers nothing.
Aside1(m) ==
    /\ ~(m.type = "hello" /\ m.epoch = client.epoch)
    /\ m.type = "response" => /\ m.id \in Nat /\ m.id <= client.nextRequest
                              /\ Wire # 0 /\ m.id = Wire => m.code = "progress" /\ m.op = WireOp

\* The worker keeps its request, or dies with it.
LEMMA WiresSpeak ==
    ASSUME Epochs, Wires, Away, UNCHANGED client, transport'.epoch = transport.epoch, Lost => Lost',
           IsWorker(worker'), worker'.request = Idle \/ worker'.request = worker.request,
           Busy' => transport'.process = "running",
           UNCHANGED posted \/ \E m : Post(m) /\ Aside1(m)
    PROVE  Wires'
<1>1. WorkerOK /\ Ids /\ Apart /\ Flight /\ Resuming /\ IsSeq(posted)
  BY DEF Wires, Epochs, PostedOK
<1>2. /\ Wire' = Wire /\ WireOp' = WireOp /\ Homed' /\ UNCHANGED <<frames, available>>
      /\ \A n : (Context(n)' <=> Context(n))
  BY <1>1, AwaySame DEF Away
<1>3. (Busy' => Busy /\ worker'.request = worker.request) /\ (NoRequest => NoRequest')
  BY DEF Busy, Idle, NoRequest, NoReal, Real
<1>4. WorkerOK'
  BY <1>1, <1>3 DEF WorkerOK, IsWorker
<1>5. /\ \A n \in DOMAIN posted' : Hello(n)' => n \in DOMAIN posted /\ Hello(n)
      /\ \A n \in DOMAIN posted' : Final(n)' => n \in DOMAIN posted /\ Final(n)
      /\ \A n \in DOMAIN posted' : About(n)' /\ posted'[n].code = "progress" => posted'[n].op = WireOp
      /\ \A n \in DOMAIN posted' :
           posted'[n].type = "response" => posted'[n].id \in Nat /\ posted'[n].id <= client.nextRequest
  <2>1. CASE UNCHANGED posted
    BY <1>1, <1>2, <2>1 DEF Hello, Final, About, Ids, Flight
  <2>2. ASSUME NEW m, Post(m), Aside1(m)
        PROVE  /\ \A n \in DOMAIN posted' : Hello(n)' => n \in DOMAIN posted /\ Hello(n)
               /\ \A n \in DOMAIN posted' : Final(n)' => n \in DOMAIN posted /\ Final(n)
               /\ \A n \in DOMAIN posted' : About(n)' /\ posted'[n].code = "progress" => posted'[n].op = WireOp
               /\ \A n \in DOMAIN posted' :
                    posted'[n].type = "response" => posted'[n].id \in Nat /\ posted'[n].id <= client.nextRequest
    <3>1. Posted(m)
      BY <1>1, <2>2, PostOK
    <3>2. /\ \A n \in DOMAIN posted : (Hello(n)' <=> Hello(n)) /\ (About(n)' <=> About(n))
                                     /\ (Final(n)' <=> Final(n)) /\ posted'[n] = posted[n]
          /\ \A n \in DOMAIN posted' : n \notin DOMAIN posted =>
               /\ posted'[n] = m
               /\ (Hello(n)' => m.type = "hello" /\ m.epoch = client.epoch)
               /\ (About(n)' <=> m.type = "response" /\ m.epoch = client.epoch /\ Wire # 0 /\ m.id = Wire)
               /\ (Final(n)' <=> About(n)' /\ m.code # "progress")
      BY <3>1, PostedSame DEF Posted
    <3> QED BY <1>1, <2>2, <3>2 DEF Aside1, Ids, Flight
  <2> QED BY <2>1, <2>2
<1>6. Ids'
  BY <1>1, <1>2, <1>5 DEF Ids, Real
<1>7. Apart'
  <2>1. \A n \in DOMAIN posted' : Hello(n)' => NoRequest'
    BY <1>1, <1>3, <1>5 DEF Apart
  <2>2. Busy' => Guarded(client'.calls)
    BY <1>1, <1>3 DEF Apart
  <2>3. \A n \in DOMAIN client'.calls : Real(client'.calls[n]) =>
           Passed(client'.calls, n) \/ Ours(client.calls[n])' \/ Lost'
    BY <1>1, <1>2 DEF Apart, Ours
  <2> QED BY <1>1, <2>1, <2>2, <2>3 DEF Apart, Guarded, Spread, Passed, Real, Boundary
<1>8. Flight'
  BY <1>1, <1>2, <1>3, <1>5 DEF Flight
<1>9. Resuming'
  BY <1>1, <1>2, <1>3, <1>5 DEF Resuming, Homed
<1> QED BY <1>4, <1>6, <1>7, <1>8, <1>9 DEF Wires

\* The transport takes a request or a cancel.
LEMMA TakeSend ==
    ASSUME Epochs, Wires, NextCall("send")
    PROVE  /\ client'.epoch = client.epoch /\ client'.nextRequest = client.nextRequest
           /\ 1 \in DOMAIN client.calls /\ client.calls[1].call = "send" /\ Head(client.calls) = client.calls[1]
           /\ client.calls[1].id \in Nat /\ client.calls[1].id # 0 /\ client.calls[1].id <= client.nextRequest
           /\ Spread(client'.calls)
           /\ Guarded(client.calls) \/ Real(client.calls[1]) => Guarded(client'.calls)
           /\ NoReal(client.calls) => NoReal(client'.calls)
           /\ Busy => ~Real(client.calls[1])
           /\ \A n \in DOMAIN client'.calls :
                 /\ n + 1 \in DOMAIN client.calls /\ client'.calls[n] = client.calls[n + 1] /\ n + 1 # 1
                 /\ Passed(client.calls, n + 1) => Passed(client'.calls, n)
           /\ transport.epoch = client.epoch /\ Real(client.calls[1]) => NoReal(client'.calls)
<1>1. /\ client'.epoch = client.epoch /\ client'.nextRequest = client.nextRequest
      /\ Drops(client'.calls, client.calls) /\ client.calls[1].call = "send"
      /\ IsClient(client')
  BY NextCallOK DEF Epochs, ClientOK
<1> DEFINE k == client'.calls
           s == client.calls
<1>2. Drops(k, s) /\ Spread(s) /\ ~Boundary(s[1]) /\ 1 \in DOMAIN s /\ Head(s) = s[1]
  BY <1>1 DEF Wires, Apart, Boundary, Drops
<1>3. CallOK(s[1], client.epoch, client.nextRequest)
  BY <1>2 DEF Epochs, ClientOK
<1>4. \A n \in DOMAIN k : n + 1 # 1
  <2>1. IsSeq(k)
    BY <1>2 DEF Drops
  <2>2. DOMAIN k = 1..Len(k) /\ Len(k) \in Nat
    BY <2>1, SeqType
  <2> QED BY <2>2
<1>5. /\ Spread(k) /\ (Guarded(s) \/ Real(s[1]) => Guarded(k)) /\ (NoReal(s) => NoReal(k))
      /\ \A n \in DOMAIN k : /\ n + 1 \in DOMAIN s /\ k[n] = s[n + 1]
                             /\ Passed(s, n + 1) => Passed(k, n)
  <2> HIDE DEF k, s
  <2> QED BY <1>2, DropsCalls
<1>6. Busy => ~Real(s[1])
  <2> SUFFICES ASSUME Busy, Real(s[1]) PROVE FALSE
    OBVIOUS
  <2>1. PICK m \in DOMAIN s : m < 1
    BY <1>2 DEF Wires, Apart, Guarded
  <2>2. IsSeq(s)
    BY DEF Epochs, ClientOK, IsClient
  <2>3. DOMAIN s = 1..Len(s) /\ Len(s) \in Nat
    BY <2>2, SeqType
  <2> QED BY <2>1, <2>3
<1>7. ASSUME transport.epoch = client.epoch, Real(s[1]) PROVE NoReal(k)
  <2>1. \A n \in DOMAIN s : Real(s[n]) => n = 1
    BY <1>2, <1>7, CurrentCalls
  <2> QED BY <1>4, <1>5, <2>1 DEF NoReal
<1> QED BY <1>1, <1>2, <1>3, <1>4, <1>5, <1>6, <1>7 DEF CallOK

\* A request the process cannot have is answered; a cancel is acknowledged.
LEMMA WiresTake ==
    ASSUME Epochs, Wires, Away, NextCall("send"), UNCHANGED transport, IsWorker(worker'),
           worker'.request = worker.request, NEW m, Post(m), m.type = "response",
           m.epoch = transport.epoch, m.id = client.calls[1].id, m.code # "progress"
    PROVE  Wires'
<1>1. WorkerOK /\ Ids /\ Apart /\ Flight /\ Resuming /\ IsSeq(posted)
  BY DEF Wires, Epochs, PostedOK
<1>2. /\ Wire' = Wire /\ WireOp' = WireOp /\ Homed' /\ UNCHANGED <<frames, available>>
      /\ \A n : (Context(n)' <=> Context(n))
  BY <1>1, AwaySame DEF Away
<1> DEFINE k == client'.calls
           s == client.calls
<1>3. /\ client'.epoch = client.epoch /\ client'.nextRequest = client.nextRequest
      /\ 1 \in DOMAIN s /\ s[1].call = "send"
      /\ s[1].id \in Nat /\ s[1].id # 0 /\ s[1].id <= client.nextRequest
      /\ Spread(k) /\ (Guarded(s) \/ Real(s[1]) => Guarded(k)) /\ (NoReal(s) => NoReal(k))
      /\ Busy => ~Real(s[1])
      /\ \A n \in DOMAIN k : /\ n + 1 \in DOMAIN s /\ k[n] = s[n + 1]
                             /\ Passed(s, n + 1) => Passed(k, n)
      /\ transport.epoch = client.epoch /\ Real(s[1]) => NoReal(k)
  BY TakeSend
<1>4. Posted(m)
  BY <1>1, PostOK
<1>5. /\ \A n \in DOMAIN posted : (Hello(n)' <=> Hello(n)) /\ (About(n)' <=> About(n))
                                 /\ (Final(n)' <=> Final(n)) /\ posted'[n] = posted[n]
      /\ \A n \in DOMAIN posted' : n \notin DOMAIN posted =>
           /\ posted'[n] = m /\ ~Hello(n)'
           /\ (About(n)' => m.epoch = client.epoch /\ Wire # 0 /\ m.id = Wire)
      /\ \A b, n \in DOMAIN posted' : b \notin DOMAIN posted /\ n \notin DOMAIN posted => b = n
  BY <1>3, <1>4, PostedSame DEF Posted
<1>6. (Busy' <=> Busy) /\ (NoRequest => NoRequest') /\ NoReal(client.calls)' = NoReal(k)
  BY <1>3 DEF Busy, Idle, NoRequest, NoReal, Real
<1>7. WorkerOK'
  BY <1>1, <1>3, <1>6 DEF WorkerOK, IsWorker
<1>8. Ids'
  <2>1. \A n \in DOMAIN k : k[n].call = "send" /\ ~Real(k[n]) => k[n].id # Wire
    BY <1>1, <1>3 DEF Ids
  <2>2. \A n \in DOMAIN posted' :
           posted'[n].type = "response" => posted'[n].id \in Nat /\ posted'[n].id <= client.nextRequest
    BY <1>1, <1>3, <1>5 DEF Ids
  <2> QED BY <1>2, <1>3, <2>1, <2>2 DEF Ids, Real
<1>9. Apart'
  <2>1. \A n \in DOMAIN posted' : Hello(n)' => NoRequest'
    BY <1>1, <1>5, <1>6 DEF Apart
  <2>2. Busy' => Guarded(k)
    BY <1>1, <1>3, <1>6 DEF Apart
  <2>3. \A n \in DOMAIN k : Real(k[n]) => Passed(k, n) \/ Ours(client.calls[n])' \/ Lost'
    BY <1>1, <1>2, <1>3 DEF Apart, Ours, Lost
  <2> QED BY <1>3, <2>1, <2>2, <2>3 DEF Apart, Guarded, Spread, Passed, Real, Boundary
<1>10. CASE Real(s[1])
  <2>1. ~NoRequest /\ ~Busy
    BY <1>3, <1>10 DEF NoRequest, NoReal
  <2>2. \A n \in DOMAIN posted : ~Final(n)
    BY <1>1, <2>1 DEF Flight
  <2>3. \A n \in DOMAIN frames : ~Context(n)
    BY <1>1, <2>1 DEF Resuming
  <2>4. \A n \in DOMAIN posted' : Final(n)' => n \notin DOMAIN posted /\ m.epoch = client.epoch
    BY <1>5, <2>2 DEF Final
  <2>5. \A n \in DOMAIN posted' : Final(n)' => NoRequest'
    BY <1>3, <1>6, <1>10, <2>1, <2>4 DEF NoRequest
  <2>6. \A n \in DOMAIN posted' : About(n)' /\ posted'[n].code = "progress" => posted'[n].op = WireOp'
    BY <1>1, <1>2, <1>5 DEF Flight
  <2>7. Flight'
    BY <1>5, <1>6, <2>1, <2>4, <2>5, <2>6 DEF Flight
  <2>8. Resuming'
    BY <1>2, <2>3 DEF Resuming, Homed
  <2> QED BY <1>7, <1>8, <1>9, <2>7, <2>8 DEF Wires
<1>11. CASE ~Real(s[1])
  <2>1. m.id # Wire
    BY <1>1, <1>3, <1>11 DEF Ids
  <2>2. \A n \in DOMAIN posted' : About(n)' => n \in DOMAIN posted /\ About(n) /\ posted'[n] = posted[n]
    BY <1>5, <2>1
  <2>3. \A n \in DOMAIN posted' : Final(n)' => n \in DOMAIN posted /\ Final(n)
    BY <1>5, <2>2 DEF Final
  <2>4. Flight'
    BY <1>1, <1>2, <1>6, <2>2, <2>3 DEF Flight
  <2>5. Resuming'
    BY <1>1, <1>2, <1>6, <2>3 DEF Resuming, Homed
  <2> QED BY <1>7, <1>8, <1>9, <2>4, <2>5 DEF Wires
<1> QED BY <1>10, <1>11

\* A request is written to the worker.
LEMMA WiresRead ==
    ASSUME Epochs, Wires, Away, NextCall("send"), UNCHANGED <<transport, posted>>, IsWorker(worker'),
           transport.process = "running", Real(client.calls[1]),
           worker'.request = Extended(client.calls[1].request, "id", client.calls[1].id)
    PROVE  Wires' /\ ~Busy
<1>1. WorkerOK /\ Ids /\ Apart /\ Flight /\ Resuming
  BY DEF Wires
<1>2. /\ Wire' = Wire /\ WireOp' = WireOp /\ Homed' /\ UNCHANGED <<frames, available>>
      /\ \A n : (Context(n)' <=> Context(n))
  BY <1>1, AwaySame DEF Away
<1> DEFINE k == client'.calls
           s == client.calls
<1>3. /\ client'.epoch = client.epoch /\ client'.nextRequest = client.nextRequest
      /\ 1 \in DOMAIN s /\ s[1].id \in Nat /\ s[1].id # 0 /\ s[1].id <= client.nextRequest
      /\ Spread(k) /\ Guarded(k) /\ ~Busy
      /\ \A n \in DOMAIN k : /\ n + 1 \in DOMAIN s /\ k[n] = s[n + 1]
                             /\ Passed(s, n + 1) => Passed(k, n)
  BY TakeSend
<1>4. ~NoRequest
  BY <1>3 DEF NoRequest, NoReal
<1>5. /\ \A n \in DOMAIN posted : ~Final(n) /\ ~Hello(n)
      /\ \A n \in DOMAIN frames : ~Context(n)
  BY <1>1, <1>4 DEF Flight, Resuming, Apart
<1>6. \A n \in DOMAIN posted' : ~Final(n)' /\ ~Hello(n)' /\ (About(n)' => About(n))
  BY <1>2, <1>3, <1>5 DEF Final, About, Hello
<1>7. /\ worker'.request.id = s[1].id
      /\ "op" \in DOMAIN s[1].request => worker'.request.op = s[1].request.op
  BY DEF Extended
<1>8. WorkerOK'
  BY <1>3, <1>7 DEF WorkerOK, IsWorker
<1>9. Ids'
  <2>1. \A n \in DOMAIN k : k[n].call = "send" /\ ~Real(k[n]) => k[n].id # Wire
    BY <1>1, <1>3 DEF Ids
  <2> QED BY <1>1, <1>2, <1>3, <2>1 DEF Ids, Real
<1>10. Apart'
  <2>1. \A n \in DOMAIN k : Real(k[n]) => Passed(k, n) \/ Ours(client.calls[n])' \/ Lost'
    BY <1>1, <1>2, <1>3 DEF Apart, Ours, Lost
  <2> QED BY <1>3, <1>6, <2>1 DEF Apart, Guarded, Spread, Passed, Real, Boundary
<1>11. Flight'
  <2>1. ASSUME available PROVE Ours(s[1])
    <3>1. transport.epoch = client.epoch
      BY <2>1 DEF Epochs, AvailableIsCurrent
    <3>2. ~Passed(s, 1) /\ ~Lost
      BY <1>3, <2>1, <3>1, CurrentCalls DEF Lost
    <3> QED BY <1>1, <1>3, <3>2 DEF Apart
  <2>2. available' => Wire' # 0 /\ worker'.request.id = Wire' /\ worker'.request.op = WireOp'
    BY <1>2, <1>7, <2>1 DEF Ours
  <2> QED BY <1>1, <1>2, <1>6, <2>2 DEF Flight
<1>12. Resuming'
  BY <1>2, <1>5 DEF Resuming, Homed
<1> QED BY <1>3, <1>8, <1>9, <1>10, <1>11, <1>12 DEF Wires

\* The worker answers.
LEMMA WiresAnswer ==
    ASSUME Epochs, Wires, Away, Wire # 0 => available, UNCHANGED <<client, transport>>, IsWorker(worker'),
           Busy, worker'.request = Idle, NEW m, Post(m), m.type = "response", m.epoch = transport.epoch,
           m.id = worker.request.id, m.op = worker.request.op
    PROVE  Wires'
<1>1. WorkerOK /\ Ids /\ Apart /\ Flight /\ Resuming /\ IsSeq(posted)
  BY DEF Wires, Epochs, PostedOK
<1>2. /\ Wire' = Wire /\ WireOp' = WireOp /\ Homed' /\ UNCHANGED <<frames, available>>
      /\ \A n : (Context(n)' <=> Context(n))
  BY <1>1, AwaySame DEF Away
<1>3. ~Busy' /\ ~NoRequest /\ (NoReal(client.calls) => NoRequest')
  BY DEF Busy, Idle, NoRequest, NoReal, Real
<1>4. /\ \A n \in DOMAIN posted : ~Final(n) /\ ~Hello(n)
      /\ \A n \in DOMAIN frames : ~Context(n)
  BY <1>1, <1>3 DEF Flight, Resuming, Apart
<1>5. Posted(m)
  BY <1>1, PostOK
<1>6. /\ \A n \in DOMAIN posted : (Hello(n)' <=> Hello(n)) /\ (About(n)' <=> About(n))
                                 /\ (Final(n)' <=> Final(n)) /\ posted'[n] = posted[n]
      /\ \A n \in DOMAIN posted' : n \notin DOMAIN posted =>
           /\ posted'[n] = m /\ ~Hello(n)'
           /\ (About(n)' => m.epoch = client.epoch /\ Wire # 0 /\ m.id = Wire)
      /\ \A b, n \in DOMAIN posted' : b \notin DOMAIN posted /\ n \notin DOMAIN posted => b = n
  BY <1>5, PostedSame DEF Posted
<1>7. WorkerOK'
  BY <1>3 DEF WorkerOK, IsWorker
<1>8. Ids'
  <2>1. m.id \in Nat /\ m.id <= client.nextRequest
    BY <1>1 DEF WorkerOK
  <2> QED BY <1>1, <1>2, <1>6, <2>1 DEF Ids, Real
<1>9. \A n \in DOMAIN posted' : ~Hello(n)'
  BY <1>4, <1>6
<1>10. Apart'
  <2>1. \A n \in DOMAIN client'.calls : Real(client'.calls[n]) =>
           Passed(client'.calls, n) \/ Ours(client.calls[n])' \/ Lost'
    BY <1>1, <1>2 DEF Apart, Ours, Lost
  <2> QED BY <1>1, <1>3, <1>9, <2>1 DEF Apart, Spread, Passed, Real, Boundary
<1>11. Flight'
  <2>1. \A n \in DOMAIN posted' : Final(n)' => n \notin DOMAIN posted /\ m.epoch = client.epoch
    BY <1>4, <1>6 DEF Final
  <2>2. m.epoch = client.epoch => NoRequest'
    BY <1>1, <1>3, CurrentCalls DEF Apart
  <2>3. \A n \in DOMAIN posted' : About(n)' /\ posted'[n].code = "progress" => posted'[n].op = WireOp'
    <3>1. Wire # 0 => worker.request.op = WireOp
      BY <1>1 DEF Flight
    <3> QED BY <1>1, <1>2, <1>6, <3>1 DEF Flight
  <2> QED BY <1>3, <1>6, <2>1, <2>2, <2>3 DEF Flight
<1>12. Resuming'
  BY <1>2, <1>4 DEF Resuming, Homed
<1> QED BY <1>7, <1>8, <1>10, <1>11, <1>12 DEF Wires

\* A process starts or is stopped: what the client sent before reaches nobody.
LEMMA WiresBoundary ==
    ASSUME Epochs, Wires, Away, Wire # 0 => available, active # 0 => available,
           TransportStart \/ TransportStop, worker' = FreshWorker
    PROVE  Wires'
<1>1. WorkerOK /\ Ids /\ Apart /\ Flight /\ Resuming
  BY DEF Wires
<1>2. /\ Wire' = Wire /\ WireOp' = WireOp /\ Homed' /\ UNCHANGED <<frames, available>>
      /\ \A n : (Context(n)' <=> Context(n))
  BY <1>1, AwaySame DEF Away
<1> DEFINE k == client'.calls
           s == client.calls
<1>3. PICK name \in {"start", "stop"} : NextCall(name) /\ UNCHANGED posted
  BY DEF TransportStart, TransportStop
<1>4. /\ client'.epoch = client.epoch /\ client'.nextRequest = client.nextRequest
      /\ Drops(k, s) /\ s[1].call = name
  BY <1>3, NextCallOK DEF Epochs, ClientOK
<1>5. /\ Spread(k)
      /\ \A n \in DOMAIN k : Passed(s, n + 1) => Passed(k, n)
      /\ \A n \in DOMAIN k : n + 1 \in DOMAIN s /\ k[n] = s[n + 1]
  <2>1. Spread(s)
    BY <1>1 DEF Apart
  <2> HIDE DEF k, s
  <2> QED BY <1>4, <2>1, DropsCalls
<1>6. transport.epoch # client.epoch
  BY <1>4 DEF Epochs, Bounds, Boundary, Drops
<1>7. ~available /\ Wire = 0 /\ active = 0 /\ ~Lost
  BY <1>6 DEF Epochs, AvailableIsCurrent, Lost
<1>8. \A n \in DOMAIN posted' : ~Hello(n)' /\ ~About(n)' /\ ~Final(n)'
  BY <1>3, <1>4, <1>6 DEF Epochs, PostedOK, Hello, About, Final
<1>9. \A n \in DOMAIN frames' : ~Context(n)'
  BY <1>2, <1>7 DEF Context
<1>10. IsWorker(worker') /\ ~Busy'
  BY DEF FreshWorker, IsWorker, WorkerFields, Busy
<1>11. WorkerOK'
  BY <1>10 DEF WorkerOK, IsWorker
<1>12. Ids'
  BY <1>1, <1>2, <1>3, <1>4, <1>5 DEF Ids, Real
<1>13. Apart'
  <2>1. \A n \in DOMAIN k : Real(k[n]) => Passed(k, n)
    BY <1>1, <1>5, <1>7 DEF Apart, Ours
  <2> QED BY <1>5, <1>8, <1>10, <2>1 DEF Apart, Spread, Passed, Real, Boundary
<1>14. Flight' /\ Resuming'
  BY <1>2, <1>8, <1>9, <1>10 DEF Flight, Resuming, Homed
<1> QED BY <1>11, <1>12, <1>13, <1>14 DEF Wires

\* A process says hello: it has no request, and none is on its way.
LEMMA WiresBegin ==
    ASSUME Epochs, Wires, Away, Wire # 0 => available, UNCHANGED worker, ProcessStarted("hello")
    PROVE  Wires'
<1>1. WorkerOK /\ Ids /\ Apart /\ Flight /\ Resuming /\ IsSeq(posted)
  BY DEF Wires, Epochs, PostedOK
<1>2. /\ Wire' = Wire /\ WireOp' = WireOp /\ Homed' /\ UNCHANGED <<frames, available>>
      /\ \A n : (Context(n)' <=> Context(n))
  BY <1>1, AwaySame DEF Away
<1> DEFINE m == [type |-> "hello", epoch |-> transport.epoch]
<1>3. /\ transport.process = "starting" /\ UNCHANGED client /\ Post(m)
      /\ transport' = [transport EXCEPT !.process = "running"]
  BY DEF ProcessStarted
<1>4. m.type = "hello" /\ m.epoch = transport.epoch
  OBVIOUS
<1> HIDE DEF m
<1>5. Posted(m)
  BY <1>1, <1>3, PostOK
<1>6. /\ \A n \in DOMAIN posted : (Hello(n)' <=> Hello(n)) /\ (About(n)' <=> About(n))
                                 /\ (Final(n)' <=> Final(n)) /\ posted'[n] = posted[n]
      /\ \A n \in DOMAIN posted' : n \notin DOMAIN posted =>
           /\ posted'[n] = m /\ ~About(n)' /\ ~Final(n)' /\ (Hello(n)' => m.epoch = client.epoch)
  BY <1>3, <1>4, <1>5, PostedSame DEF Posted
<1>7. ~Busy /\ ~Busy' /\ ~Lost /\ WorkerOK'
  BY <1>1, <1>3 DEF WorkerOK, IsWorker, Busy, Idle, Lost
<1>8. NoRequest => NoRequest'
  BY <1>3, <1>7 DEF NoRequest, NoReal, Real
<1>9. transport.epoch = client.epoch => NoRequest
  <2> SUFFICES ASSUME transport.epoch = client.epoch PROVE NoReal(client.calls)
    BY <1>7 DEF NoRequest
  <2>1. ~available /\ Wire = 0
    BY <1>3 DEF Epochs, Life
  <2>2. \A n \in DOMAIN client.calls : ~Passed(client.calls, n)
    BY CurrentCalls
  <2> QED BY <1>1, <1>7, <2>1, <2>2 DEF Apart, Ours, NoReal
<1>10. Ids'
  BY <1>1, <1>2, <1>3, <1>4, <1>6 DEF Ids, Real
<1>11. Apart'
  <2>1. \A n \in DOMAIN posted' : Hello(n)' => NoRequest'
    BY <1>1, <1>4, <1>6, <1>8, <1>9 DEF Apart
  <2>2. \A n \in DOMAIN client'.calls : Real(client'.calls[n]) =>
           Passed(client'.calls, n) \/ Ours(client.calls[n])' \/ Lost'
    BY <1>1, <1>2, <1>3, <1>7 DEF Apart, Ours
  <2> QED BY <1>1, <1>3, <1>7, <2>1, <2>2 DEF Apart, Spread, Passed, Real, Boundary
<1>12. Flight'
  BY <1>1, <1>2, <1>6, <1>7, <1>8 DEF Flight
<1>13. Resuming'
  BY <1>1, <1>2, <1>6, <1>8 DEF Resuming, Homed
<1> QED BY <1>7, <1>10, <1>11, <1>12, <1>13 DEF Wires

\* Who waits for a request, and when.
LEMMA WireFacts ==
    ASSUME Tables, Epochs, JobsLive
    PROVE  /\ Wire \in Nat /\ Wire <= client.nextRequest /\ client.nextRequest \in Nat
           /\ active # 0 => active \in DOMAIN jobs /\ available
           /\ ~available => active = 0 /\ DOMAIN jobs = {}
           /\ Wire # 0 => available /\ active # 0 /\ Aloft(jobs[active]) /\ jobs[active].phase # "delivering"
           /\ active # 0 => (Wire # 0 <=> Aloft(jobs[active]))
           /\ \A j \in DOMAIN jobs : j # 0 /\ (jobs[j].phase # "queued" <=> j = active)
<1>1. Placed(jobs, queue, active) /\ 0 \notin DOMAIN jobs /\ client.nextRequest \in Nat
  BY DEF Tables, Places, JobTable, Epochs, ClientOK, IsClient
<1>2. active # 0 => active \in DOMAIN jobs /\ available /\ Waits(jobs[active], client.nextRequest)
  BY <1>1 DEF Placed, JobsLive
<1>3. ~available => active = 0 /\ DOMAIN jobs = {}
  BY <1>2 DEF JobsLive
<1>4. \A j \in DOMAIN jobs : j # 0 /\ (jobs[j].phase # "queued" <=> j = active)
  BY <1>1 DEF Placed
<1>5. Wire # 0 => active # 0 /\ jobs[active].wire # 0
  BY DEF Wire
<1> QED BY <1>1, <1>2, <1>3, <1>4, <1>5 DEF Wire, Waits, Aloft

\* Jobs that wait as they did, do not wait, or wait for the newest request.
LEMMA LiveSame ==
    ASSUME JobsLive, client.nextRequest \in Nat, client'.nextRequest \in Nat,
           client'.nextRequest >= client.nextRequest, ~available' => DOMAIN jobs' = {},
           \A j \in DOMAIN jobs' :
              \/ j \in DOMAIN jobs /\ jobs'[j].wire = jobs[j].wire /\ (Aloft(jobs'[j]) <=> Aloft(jobs[j]))
              \/ jobs'[j].wire = 0 /\ ~Aloft(jobs'[j])
              \/ jobs'[j].wire = client'.nextRequest /\ client'.nextRequest # 0 /\ Aloft(jobs'[j])
    PROVE  JobsLive'
<1> SUFFICES ASSUME NEW j \in DOMAIN jobs' PROVE Waits(jobs'[j], client'.nextRequest)
  BY DEF JobsLive, Waits, Aloft
<1>1. j \in DOMAIN jobs => Waits(jobs[j], client.nextRequest)
  BY DEF JobsLive
<1> QED BY <1>1 DEF Waits

\* The frames and the tasks that were there.
FramesKept ==
    \A n \in DOMAIN frames' :
        \/ n \in DOMAIN frames /\ frames'[n].frame = frames[n].frame /\ frames'[n].job = frames[n].job
        \/ frames'[n].frame = "context" /\ frames'[n].job \in DOMAIN asked
PhasesKept ==
    \A j \in DOMAIN jobs' : j \in DOMAIN asked =>
        j \in DOMAIN jobs /\ (jobs[j].phase = "delivering" => jobs'[j].phase = "delivering")

\* No delivery begins.
LEMMA DeliverySame ==
    ASSUME Deliveries, DOMAIN asked \subseteq DOMAIN asked', FramesKept, PhasesKept,
           \A t \in deferred' : t.task = "deliver" => t \in deferred
    PROVE  Deliveries'
<1>1. ASSUME NEW t \in deferred', t.task = "deliver" PROVE TaskOK(t)'
  <2>1. TaskOK(t)
    BY <1>1 DEF Deliveries
  <2> QED BY <2>1 DEF TaskOK, FramesKept, PhasesKept
<1>2. ASSUME NEW n \in DOMAIN frames' PROVE frames'[n].job \in DOMAIN asked' /\ HeldOK(n)'
  <2>1. CASE n \in DOMAIN frames /\ frames'[n].frame = frames[n].frame /\ frames'[n].job = frames[n].job
    <3>1. frames[n].job \in DOMAIN asked /\ HeldOK(n)
      BY <2>1 DEF Deliveries
    <3> QED BY <2>1, <3>1 DEF HeldOK, FramesKept, PhasesKept
  <2>2. CASE frames'[n].frame = "context" /\ frames'[n].job \in DOMAIN asked
    BY <2>2 DEF HeldOK
  <2> QED BY <2>1, <2>2 DEF FramesKept
<1> QED BY <1>1, <1>2 DEF Deliveries

\* One is due: that of a job that was not over.
LEMMA DeliveryDue ==
    ASSUME Deliveries, DOMAIN asked \subseteq DOMAIN asked', FramesKept, PhasesKept,
           NEW j \in DOMAIN jobs, j \in DOMAIN asked, jobs[j].phase # "delivering", jobs'[j].phase = "delivering",
           \A t \in deferred' : t.task = "deliver" => t \in deferred \/ t = Deliver(j)
    PROVE  Deliveries'
<1>0. \A n \in DOMAIN frames : frames[n].frame = "deliver" => frames[n].job # j
  BY DEF Deliveries, HeldOK
<1>1. ASSUME NEW t \in deferred', t.task = "deliver" PROVE TaskOK(t)'
  <2>1. CASE t \in deferred
    <3>1. TaskOK(t)
      BY <1>1, <2>1 DEF Deliveries
    <3> QED BY <3>1 DEF TaskOK, FramesKept, PhasesKept
  <2>2. CASE t = Deliver(j)
    <3>1. t = [task |-> "deliver", job |-> t.job] /\ t.job = j
      BY <2>2 DEF Deliver
    <3> QED BY <1>0, <3>1 DEF TaskOK, FramesKept
  <2> QED BY <1>1, <2>1, <2>2
<1>2. ASSUME NEW n \in DOMAIN frames' PROVE frames'[n].job \in DOMAIN asked' /\ HeldOK(n)'
  <2>1. CASE n \in DOMAIN frames /\ frames'[n].frame = frames[n].frame /\ frames'[n].job = frames[n].job
    <3>1. frames[n].job \in DOMAIN asked /\ HeldOK(n)
      BY <2>1 DEF Deliveries
    <3> QED BY <2>1, <3>1 DEF HeldOK, FramesKept, PhasesKept
  <2>2. CASE frames'[n].frame = "context" /\ frames'[n].job \in DOMAIN asked
    BY <2>2 DEF HeldOK
  <2> QED BY <2>1, <2>2 DEF FramesKept
<1> QED BY <1>1, <1>2 DEF Deliveries

\* The parts of the invariant, and what they need.
Flights == Tables /\ Epochs /\ JobsLive /\ Deliveries /\ Wires

\* Asking disturbs no flight.
LEMMA AskFlights == ASSUME Flights, Asks PROVE JobsLive' /\ Deliveries' /\ Wires'
<1>1. Tables /\ Epochs /\ JobsLive /\ Deliveries /\ Wires /\ JobTable(jobs) /\ IsSeq(asked)
  BY DEF Flights, Tables, Places, Stack
<1>2. PICK query \in Query, owner \in Owner :
          /\ AskRest(query, owner)
          /\ \/ AskRefused(Len(asked) + 1, query, owner)
             \/ \E j \in DOMAIN jobs : AskJoins(Len(asked) + 1, query, owner, j)
             \/ AskMakes(Len(asked) + 1, query, owner)
  BY AskCases
<1> DEFINE ask == Len(asked) + 1
<1>3. /\ DOMAIN asked' = DOMAIN asked \union {ask} /\ ask \notin DOMAIN asked
      /\ UNCHANGED <<active, available, frames, client, transport, posted, worker>>
      /\ query \in Queries
  <2>1. DOMAIN asked' = DOMAIN asked \union {ask} /\ ask \notin DOMAIN asked
    BY <1>1, <1>2, AskNumber
  <2>2. query \in Queries
    BY QueryType
  <2> QED BY <1>2, <2>1, <2>2 DEF AskRest
<1>4. \A t \in deferred' : t.task = "deliver" => t \in deferred
  <2>1. ASSUME AskRefused(Len(asked) + 1, query, owner)
        PROVE  \A t \in deferred' : t.task = "deliver" => t \in deferred
    <3> DEFINE t == [task |-> "reject", ask |-> Len(asked) + 1, owner |-> owner,
                     epoch |-> epoch, code |-> Refusal(query)]
    <3>1. deferred' = deferred \union {t}
      BY <2>1 DEF AskRefused
    <3>2. t.task # "deliver"
      OBVIOUS
    <3> HIDE DEF t
    <3> QED BY <3>1, <3>2
  <2>2. ASSUME NEW j \in DOMAIN jobs, AskJoins(Len(asked) + 1, query, owner, j)
        PROVE  \A t \in deferred' : t.task = "deliver" => t \in deferred
    <3>1. deferred' = deferred \union {Pumping}
      BY <2>2 DEF AskJoins
    <3>2. Pumping.task # "deliver"
      BY DEF Pumping
    <3> QED BY <3>1, <3>2
  <2>3. ASSUME AskMakes(Len(asked) + 1, query, owner)
        PROVE  \A t \in deferred' : t.task = "deliver" => t \in deferred
    <3>1. deferred' = deferred \union {Pumping}
      BY <2>3 DEF AskMakes
    <3>2. Pumping.task # "deliver"
      BY DEF Pumping
    <3> QED BY <3>1, <3>2
  <2> QED BY <1>2, <2>1, <2>2, <2>3
<1>5. Wire \in Nat /\ Wire <= client.nextRequest /\ client.nextRequest \in Nat
      /\ (active # 0 => active \in DOMAIN jobs) /\ (~available => DOMAIN jobs = {})
  BY <1>1, WireFacts
<1> HIDE DEF ask
<1>6. /\ \A j \in DOMAIN jobs : /\ j \in DOMAIN jobs' /\ jobs'[j].phase = jobs[j].phase
                                /\ jobs'[j].wire = jobs[j].wire /\ jobs'[j].wireOp = jobs[j].wireOp
      /\ \A j \in DOMAIN jobs' : j \in DOMAIN jobs \/ (j = ask /\ jobs'[j].wire = 0 /\ ~Aloft(jobs'[j]))
      /\ DOMAIN jobs' = DOMAIN jobs \/ available
  <2>0. \/ AskRefused(ask, query, owner)
        \/ \E j \in DOMAIN jobs : AskJoins(ask, query, owner, j)
        \/ AskMakes(ask, query, owner)
    BY <1>2 DEF ask
  <2>1. CASE AskRefused(ask, query, owner)
    <3>1. jobs' = jobs
      BY <2>1 DEF AskRefused
    <3> QED BY <3>1
  <2>2. ASSUME NEW j \in DOMAIN jobs, AskJoins(ask, query, owner, j)
        PROVE  /\ DOMAIN jobs' = DOMAIN jobs
               /\ \A i \in DOMAIN jobs : /\ jobs'[i].phase = jobs[i].phase
                                         /\ jobs'[i].wire = jobs[i].wire /\ jobs'[i].wireOp = jobs[i].wireOp
    <3> DEFINE K == jobs'
    <3>1. K = Joined(jobs, j, ask, query.visible) /\ query.visible \in BOOLEAN
      BY <1>3, <2>2 DEF AskJoins, Joined, Queries
    <3> HIDE DEF K
    <3>2. K = [jobs EXCEPT ![j] = K[j]] /\ Like(K[j], jobs[j], {"subscribers", "query"})
          /\ IsJob(K[j]) /\ K[j].bytes = jobs[j].bytes
      BY <1>1, <3>1, JoinedLike
    <3>3. K[j].phase = jobs[j].phase /\ K[j].wire = jobs[j].wire /\ K[j].wireOp = jobs[j].wireOp
      BY <3>2 DEF Like, JobFields
    <3> DEFINE a == K[j]
    <3> HIDE DEF a
    <3>4. K = [jobs EXCEPT ![j] = a] /\ IsJob(a) /\ a.bytes = jobs[j].bytes
      BY <3>2 DEF a
    <3>5. DOMAIN K = DOMAIN jobs /\ \A i \in DOMAIN jobs : i # j => K[i] = jobs[i]
      BY <1>1, <3>4, ReplaceOK
    <3> QED BY <3>3, <3>5 DEF K
  <2>3. CASE AskMakes(ask, query, owner)
    <3> DEFINE r == NewJob(query, ask)
    <3>1. r.wire = 0 /\ r.phase = "queued"
      BY <1>3, NewJobOK
    <3>2. jobs' = Extended(jobs, ask, r) /\ Refusal(query) = ""
      BY <2>3 DEF AskMakes
    <3> HIDE DEF r
    <3>3. Extends(jobs', jobs, ask, r)
      BY <3>2, ExtendedOK
    <3>4. ask \notin DOMAIN jobs
      BY <1>1, <1>3 DEF Tables, Places
    <3>5. available
      <4>1. Refusal(query) = ""
        BY <3>2
      <4> QED BY <4>1, Accepted, Zenon
    <3> QED BY <3>1, <3>3, <3>4, <3>5 DEF Extends, Aloft
  <2>4. CASE \E j \in DOMAIN jobs : AskJoins(ask, query, owner, j)
    BY <2>2, <2>4
  <2> QED BY <2>0, <2>1, <2>3, <2>4
<1>14. ~available' => DOMAIN jobs' = {}
  BY <1>3, <1>5, <1>6, Zenon
<1>7. JobsLive'
  <2>1. \A j \in DOMAIN jobs' :
              \/ j \in DOMAIN jobs /\ jobs'[j].wire = jobs[j].wire /\ (Aloft(jobs'[j]) <=> Aloft(jobs[j]))
              \/ jobs'[j].wire = 0 /\ ~Aloft(jobs'[j])
    BY <1>6 DEF Aloft
  <2> QED BY <1>1, <1>3, <1>5, <1>14, <2>1, LiveSame
<1>8. FramesKept /\ PhasesKept
  BY <1>3, <1>6 DEF FramesKept, PhasesKept
<1>9. Deliveries'
  BY <1>1, <1>3, <1>4, <1>8, DeliverySame
<1>10. Wire' = Wire /\ (Wire # 0 => WireOp' = WireOp) /\ \A n : (Context(n)' <=> Context(n))
  BY <1>3, <1>5, <1>6 DEF Wire, WireOp, Context
<1>11. Homed'
  <2>1. \A n \in DOMAIN frames : frames[n].job \in DOMAIN asked
    BY <1>1 DEF Deliveries
  <2> QED BY <1>1, <1>3, <1>6, <2>1 DEF Homed, Wires, Resuming
<1>12. Recalls /\ Hears
  BY <1>3 DEF Recalls, Hears
<1>13. Wires'
  BY <1>1, <1>3, <1>5, <1>10, <1>11, <1>12, WiresKept
<1> QED BY <1>7, <1>9, <1>13

\* Jobs and frames that stay what they were, some fewer.
JobsSame ==
    /\ DOMAIN jobs' \subseteq DOMAIN jobs /\ active' = active /\ (active # 0 => active \in DOMAIN jobs')
    /\ \A j \in DOMAIN jobs' : /\ jobs'[j].phase = jobs[j].phase
                               /\ jobs'[j].wire = jobs[j].wire /\ jobs'[j].wireOp = jobs[j].wireOp
FramesSame ==
    \A n \in DOMAIN frames' :
        n \in DOMAIN frames /\ frames'[n].frame = frames[n].frame /\ frames'[n].job = frames[n].job
TasksSame == \A t \in deferred' : t.task = "deliver" => t \in deferred

\* Such a step disturbs no flight.
LEMMA FlightsKept ==
    ASSUME Flights, UNCHANGED <<available, transport, worker, asked>>, Recalls, Hears,
           JobsSame, FramesSame, TasksSame
    PROVE  JobsLive' /\ Deliveries' /\ Wires'
<1>1. Tables /\ Epochs /\ JobsLive /\ Deliveries /\ Wires
  BY DEF Flights
<1>2. Wire \in Nat /\ Wire <= client.nextRequest /\ (~available => DOMAIN jobs = {})
      /\ (active # 0 => active \in DOMAIN jobs)
  BY <1>1, WireFacts
<1>3. /\ client'.nextRequest \in Nat /\ client'.nextRequest >= client.nextRequest
      /\ client.nextRequest \in Nat
  <2>1. Spread(client.calls)
    BY <1>1 DEF Wires, Apart
  <2> QED BY <1>1, <2>1, RecallCalls
<1>4. ~available' => DOMAIN jobs' = {}
  <2>1. DOMAIN jobs = {} => DOMAIN jobs' = {}
    BY DEF JobsSame
  <2> QED BY <1>2, <2>1, Zenon
<1>5. JobsLive'
  <2>1. \A j \in DOMAIN jobs' :
           j \in DOMAIN jobs /\ jobs'[j].wire = jobs[j].wire /\ (Aloft(jobs'[j]) <=> Aloft(jobs[j]))
    BY DEF JobsSame, Aloft
  <2> QED BY <1>1, <1>3, <1>4, <2>1, LiveSame
<1>6. FramesKept /\ PhasesKept
  BY DEF FramesKept, PhasesKept, FramesSame, JobsSame
<1>7. Deliveries'
  BY <1>1, <1>6, DeliverySame DEF TasksSame
<1>8. Wire' = Wire /\ (Wire # 0 => WireOp' = WireOp)
  BY <1>2 DEF Wire, WireOp, JobsSame
<1>9. \A n \in DOMAIN frames' : Context(n)' => n \in DOMAIN frames /\ Context(n)
  BY DEF Context, FramesSame, JobsSame
<1>10. Homed'
  BY <1>1 DEF Homed, Wires, Resuming, FramesSame, JobsSame
<1>11. Wires'
  BY <1>1, <1>2, <1>8, <1>9, <1>10, WiresKept
<1> QED BY <1>5, <1>7, <1>11

\* So do steps that leave the tables and the client alone.
LEMMA FlightsIdle ==
    ASSUME Flights, UNCHANGED <<available, transport, worker, asked, jobs, active, frames, client>>,
           Hears, TasksSame
    PROVE  JobsLive' /\ Deliveries' /\ Wires'
<1>1. JobsSame
  <2>1. active # 0 => active \in DOMAIN jobs
    BY WireFacts DEF Flights
  <2> QED BY <2>1 DEF JobsSame
<1>2. FramesSame
  BY DEF FramesSame
<1> QED BY <1>1, <1>2, FlightsKept DEF Recalls

\* The tasks other than deliveries.
LEMMA NoDeliveries ==
    /\ Pumping.task # "deliver"
    /\ \A i, code : [task |-> "standalone", ask |-> i, code |-> code].task # "deliver"
    /\ \A e : [task |-> "analysis", epoch |-> e].task # "deliver"
    /\ \A j : Deliver(j).task = "deliver" /\ Deliver(j).job = j
  BY DEF Pumping, Deliver

\* The steps that touch neither.
LEMMA IdleFlights ==
    ASSUME Flights, Rejects \/ Announces \/ TellsRetired \/ Unheard \/ HearsHeartbeat
    PROVE  JobsLive' /\ Deliveries' /\ Wires'
<1>0. IsSeq(posted)
  BY DEF Flights, Epochs, PostedOK
<1>1. CASE Rejects
  <2>1. UNCHANGED <<available, transport, worker, asked, jobs, active, frames, client, posted>>
        /\ deferred' \subseteq deferred
    BY <1>1 DEF Rejects, RejectLater, Aside, table, session
  <2> QED BY <2>1, FlightsIdle DEF TasksSame, Hears
<1>2. CASE Announces
  <2>1. UNCHANGED <<available, transport, worker, asked, jobs, active, frames, client, posted>>
        /\ deferred' \subseteq deferred
    BY <1>2 DEF Announces, AnalysisCompleted, Aside, table, session
  <2> QED BY <2>1, FlightsIdle DEF TasksSame, Hears
<1>3. CASE TellsRetired
  <2>1. UNCHANGED <<available, transport, worker, asked, jobs, active, frames, client, posted>>
        /\ deferred' \subseteq deferred
    BY <1>3 DEF TellsRetired, Standalone, Aside, table, session
  <2> QED BY <2>1, FlightsIdle DEF TasksSame, Hears
<1>4. CASE Unheard
  <2>1. UNCHANGED <<available, transport, worker, asked, jobs, active, frames, client, deferred>>
        /\ posted' = Tail(posted) /\ posted # <<>>
    BY <1>4 DEF Unheard, serviceVars, ghosts, table, session
  <2>2. Hears
    BY <1>0, <2>1, DropsOK DEF Hears
  <2> QED BY <2>1, <2>2, FlightsIdle DEF TasksSame
<1>5. CASE HearsHeartbeat
  <2>1. UNCHANGED <<available, transport, worker, asked, jobs, active, frames, client, deferred>>
        /\ NextPosted("heartbeat")
    BY <1>5 DEF HearsHeartbeat, ghosts, table, session
  <2>2. Hears
    BY <1>0, <2>1, HearOK DEF Hears
  <2> QED BY <2>1, <2>2, FlightsIdle DEF TasksSame
<1> QED BY <1>1, <1>2, <1>3, <1>4, <1>5

\* Withdrawing: only queued jobs go, and a flight is recalled at most.
LEMMA DetachFlights == ASSUME Flights, Withdraws PROVE JobsLive' /\ Deliveries' /\ Wires'
<1>1. PICK ids \in SUBSET DOMAIN subscriptions : Detached(ids)
  BY DetachCases
<1>2. Places /\ JobTable(jobs) /\ Placed(jobs, queue, active)
  BY DEF Flights, Tables, Places
<1>3. /\ DOMAIN jobs' = DOMAIN jobs \ Gone(ids)
      /\ \A j \in DOMAIN jobs' : Like(jobs'[j], jobs[j], {"subscribers", "cancelRequested"})
  BY <1>1, <1>2, DetachedJobs
<1>4. active \notin Gone(ids)
  BY <1>2 DEF Gone, Emptied, GoesAtOnce, Placed, JobTable
<1>5. UNCHANGED <<available, transport, worker, asked, frames, posted, active>>
  BY <1>1, <1>4 DEF Detached, Withdraws, session
<1>6. JobsSame
  <2>1. active # 0 => active \in DOMAIN jobs
    BY <1>2 DEF Placed
  <2>2. \A j \in DOMAIN jobs' : /\ jobs'[j].phase = jobs[j].phase
                               /\ jobs'[j].wire = jobs[j].wire /\ jobs'[j].wireOp = jobs[j].wireOp
    BY <1>3 DEF Like, JobFields
  <2> QED BY <1>3, <1>4, <1>5, <2>1, <2>2 DEF JobsSame
<1>7. Recalls
  <2>1. client' = client \/ client' = Request(client, CancelOf(active))
    BY <1>1, <1>2, DetachClient
  <2>2. CancelOf(active).op = "cancel"
    BY DEF CancelOf
  <2> QED BY <2>1, <2>2 DEF Recalls
<1>8. TasksSame
  <2>1. deferred' \subseteq deferred \union {Pumping}
    BY <1>1 DEF Detached
  <2> QED BY <2>1, NoDeliveries DEF TasksSame
<1>9. FramesSame
  BY <1>5 DEF FramesSame
<1> QED BY <1>5, <1>6, <1>7, <1>8, <1>9, FlightsKept DEF Hears

\* One job changes.
Changes(j, a) ==
    /\ j \in DOMAIN jobs /\ DOMAIN jobs' = DOMAIN jobs /\ jobs'[j] = a
    /\ \A i \in DOMAIN jobs : i # j => jobs'[i] = jobs[i]

\* Puts does that.
LEMMA PutsChanges ==
    ASSUME JobTable(jobs), NEW j \in DOMAIN jobs, NEW a, Puts(j, a) PROVE Changes(j, a)
  BY DEF Puts, Changes, JobTable

\* A job ends, and its delivery is due.
LEMMA JobEnds ==
    ASSUME Flights, NEW j, NEW a, Changes(j, a), jobs[j].phase # "delivering",
           a.phase = "delivering", a.wire = 0, UNCHANGED <<asked, client, available>>, FramesSame,
           \A t \in deferred' : t.task = "deliver" => t \in deferred \/ t = Deliver(j)
    PROVE  JobsLive' /\ Deliveries'
<1>1. Tables /\ Epochs /\ JobsLive /\ Deliveries /\ DOMAIN jobs \subseteq DOMAIN asked
  BY DEF Flights, Tables, Places
<1>2. (~available => DOMAIN jobs = {}) /\ client.nextRequest \in Nat
  BY <1>1, WireFacts
<1>3. DOMAIN jobs' = DOMAIN jobs
  BY DEF Changes
<1>4. ~available' => DOMAIN jobs' = {}
  BY <1>2, <1>3, Zenon
<1>5. JobsLive'
  <2>1. \A i \in DOMAIN jobs' :
           \/ i \in DOMAIN jobs /\ jobs'[i].wire = jobs[i].wire /\ (Aloft(jobs'[i]) <=> Aloft(jobs[i]))
           \/ jobs'[i].wire = 0 /\ ~Aloft(jobs'[i])
    BY DEF Changes, Aloft
  <2> QED BY <1>1, <1>2, <1>4, <2>1, LiveSame
<1>6. FramesKept /\ PhasesKept
  BY DEF FramesKept, PhasesKept, FramesSame, Changes
<1>7. Deliveries'
  <2>1. j \in DOMAIN jobs /\ j \in DOMAIN asked /\ jobs'[j].phase = "delivering"
    BY <1>1 DEF Changes
  <2> QED BY <1>1, <1>6, <2>1, DeliveryDue
<1> QED BY <1>5, <1>7

\* A job sends a request.
LEMMA JobSends ==
    ASSUME Flights, NEW j, NEW a, Changes(j, a), jobs[j].phase # "delivering", Aloft(a),
           a.wire = client'.nextRequest, NEW request, client' = Request(client, request),
           UNCHANGED <<asked, available>>, FramesSame, TasksSame
    PROVE  JobsLive' /\ Deliveries'
<1>1. Tables /\ Epochs /\ JobsLive /\ Deliveries /\ IsClient(client)
  BY DEF Flights, Epochs, ClientOK
<1>2. (~available => DOMAIN jobs = {}) /\ client.nextRequest \in Nat
  BY <1>1, WireFacts
<1>3. DOMAIN jobs' = DOMAIN jobs
  BY DEF Changes
<1>4. ~available' => DOMAIN jobs' = {}
  BY <1>2, <1>3, Zenon
<1>5. client'.nextRequest = client.nextRequest + 1
  BY <1>1, RequestOK
<1>6. JobsLive'
  <2>1. \A i \in DOMAIN jobs' :
           \/ i \in DOMAIN jobs /\ jobs'[i].wire = jobs[i].wire /\ (Aloft(jobs'[i]) <=> Aloft(jobs[i]))
           \/ jobs'[i].wire = client'.nextRequest /\ client'.nextRequest # 0 /\ Aloft(jobs'[i])
    BY <1>2, <1>5 DEF Changes
  <2>2. client'.nextRequest \in Nat /\ client'.nextRequest >= client.nextRequest
    BY <1>2, <1>5
  <2> QED BY <1>1, <1>2, <1>4, <2>1, <2>2, LiveSame
<1>7. FramesKept /\ PhasesKept
  BY DEF FramesKept, PhasesKept, FramesSame, Changes
<1>8. Deliveries'
  BY <1>1, <1>7, DeliverySame DEF TasksSame
<1> QED BY <1>6, <1>8

\* Nobody's request is anywhere when nobody waits.
LEMMA QuietNow == ASSUME Epochs, Wires, available, Wire = 0 PROVE NoRequest
<1>1. transport.epoch = client.epoch
  BY DEF Epochs, AvailableIsCurrent
<1>2. \A n \in DOMAIN client.calls : ~Passed(client.calls, n)
  BY <1>1, CurrentCalls
<1>3. ~Busy
  BY DEF Wires, Flight
<1>4. NoReal(client.calls)
  BY <1>2 DEF Wires, Apart, NoReal, Ours, Lost
<1> QED BY <1>3, <1>4 DEF NoRequest

\* pump disturbs no flight, for there is none when it takes a job.
LEMMA PumpFlights == ASSUME Flights, Pumps PROVE JobsLive' /\ Deliveries' /\ Wires'
<1>1. /\ Tables /\ Epochs /\ JobsLive /\ Deliveries /\ Wires /\ Places
      /\ JobTable(jobs) /\ Placed(jobs, queue, active) /\ IsSeq(queue)
  BY DEF Flights, Tables, Places, Placed
<1>2. /\ PumpRest
      /\ \/ PumpIdles
         \/ \E k \in DOMAIN queue : PumpTakes(k) /\ \E result : PumpEnds(queue[k], result)
         \/ \E k \in DOMAIN queue : PumpTakes(k) /\ PumpRuns(queue[k])
  BY <1>1, PumpCases
<1>3. UNCHANGED <<available, transport, worker, asked, frames, posted>>
  BY <1>2 DEF PumpRest, session, ghosts
<1>4. FramesSame /\ Hears
  BY <1>3 DEF FramesSame, Hears
<1>5. CASE PumpIdles
  <2>1. UNCHANGED <<jobs, active, client>> /\ TasksSame
    BY <1>5 DEF PumpIdles, table, TasksSame
  <2> QED BY <1>3, <1>4, <2>1, FlightsIdle
<1>6. ASSUME NEW k \in DOMAIN queue, PumpTakes(k)
      PROVE  /\ queue[k] \in DOMAIN jobs /\ jobs[queue[k]].phase = "queued" /\ queue[k] # 0
             /\ active' = queue[k] /\ active = 0 /\ available /\ Wire = 0 /\ IsJob(jobs[queue[k]])
             /\ \A n \in DOMAIN frames : frames[n].frame = "context" => frames[n].job \notin DOMAIN jobs
  <2>1. queue[k] \in DOMAIN jobs /\ jobs[queue[k]].phase = "queued" /\ queue[k] # 0
    BY <1>1, <1>6 DEF Placed, Members, JobTable
  <2>2. active' = queue[k] /\ active = 0 /\ available
    BY <1>6 DEF PumpTakes
  <2>3. Wire = 0
    BY <2>2 DEF Wire
  <2>4. \A n \in DOMAIN frames : frames[n].frame = "context" => frames[n].job \notin DOMAIN jobs
    BY <1>1, <2>2 DEF Wires, Resuming, JobTable
  <2> QED BY <1>1, <2>1, <2>2, <2>3, <2>4 DEF JobTable
<1>7. ASSUME NEW j, active' = j, j \in DOMAIN jobs, NEW a, Changes(j, a),
             \A n \in DOMAIN frames : frames[n].frame = "context" => frames[n].job \notin DOMAIN jobs
      PROVE  Homed' /\ \A n \in DOMAIN frames' : ~Context(n)'
  BY <1>3, <1>7 DEF Homed, Context, Changes
<1>8. ASSUME NEW k \in DOMAIN queue, PumpTakes(k), NEW result, PumpEnds(queue[k], result)
      PROVE  JobsLive' /\ Deliveries' /\ Wires'
  <2> DEFINE j == queue[k]
  <2>1. /\ j \in DOMAIN jobs /\ jobs[j].phase = "queued" /\ j # 0 /\ IsJob(jobs[j])
        /\ active' = j /\ active = 0 /\ available /\ Wire = 0
        /\ \A n \in DOMAIN frames : frames[n].frame = "context" => frames[n].job \notin DOMAIN jobs
    BY <1>6, <1>8
  <2>2. Finishes(j, jobs[j], result) /\ deferred' = (deferred \ {Pumping}) \union {Deliver(j)}
    BY <1>8 DEF PumpEnds
  <2> HIDE DEF j
  <2>3. PICK a : Puts(j, a) /\ a.phase = "delivering" /\ a.wire = 0
    BY <2>1, <2>2, FinishesReplaces
  <2>4. Changes(j, a)
    BY <1>1, <2>1, <2>3, PutsChanges
  <2>5. UNCHANGED client
    BY <2>2 DEF Finishes
  <2>6. JobsLive' /\ Deliveries'
    <3>1. \A t \in deferred' : t.task = "deliver" => t \in deferred \/ t = Deliver(j)
      BY <2>2
    <3> QED BY <1>3, <1>4, <2>1, <2>3, <2>4, <2>5, <3>1, JobEnds
  <2>7. Homed' /\ \A n \in DOMAIN frames' : ~Context(n)'
    BY <1>7, <2>1, <2>4
  <2>8. Wire' = 0
    BY <2>1, <2>3, <2>4 DEF Wire, Changes
  <2>9. Wires'
    <3>1. NoRequest
      BY <1>1, <2>1, QuietNow
    <3> QED BY <1>1, <1>3, <1>4, <2>5, <2>7, <2>8, <3>1, WiresEnd
  <2> QED BY <2>6, <2>9
<1>9. ASSUME NEW k \in DOMAIN queue, PumpTakes(k), PumpRuns(queue[k])
      PROVE  JobsLive' /\ Deliveries' /\ Wires'
  <2> DEFINE j == queue[k]
             job == Running(jobs[j], RunPhase(jobs[j]))
             op == RunOp(jobs[j])
  <2>1. /\ j \in DOMAIN jobs /\ jobs[j].phase = "queued" /\ j # 0 /\ IsJob(jobs[j])
        /\ active' = j /\ active = 0 /\ available /\ Wire = 0
        /\ \A n \in DOMAIN frames : frames[n].frame = "context" => frames[n].job \notin DOMAIN jobs
    BY <1>6, <1>9
  <2>2. Sends(j, job, op, 0) /\ deferred' = deferred \ {Pumping}
    BY <1>9 DEF PumpRuns
  <2>3. RunPhase(jobs[j]) \in Phases /\ RunPhase(jobs[j]) \in {"reading", "summary"}
    BY DEF RunPhase, Phases
  <2>4. op # "cancel"
    BY <2>1 DEF RunOp, IsJob, Queries
  <2> HIDE DEF j
  <2>5. IsJob(job) /\ job.phase \in {"reading", "summary"}
    BY <2>1, <2>3, RunLike
  <2> HIDE DEF job, op
  <2>6. PICK a : Puts(j, a) /\ a.phase = job.phase /\ a.wire = client'.nextRequest /\ a.wireOp = op
    BY <2>2, <2>5, SendsReplaces
  <2>7. Changes(j, a) /\ Aloft(a)
    BY <1>1, <2>1, <2>5, <2>6, PutsChanges DEF Aloft
  <2> DEFINE request == Order(j, job, op, 0)
  <2>8. client' = Request(client, request) /\ "op" \in DOMAIN request /\ request.op = op
    BY <2>2 DEF Sends, Order
  <2> HIDE DEF request
  <2>9. TasksSame
    BY <2>2 DEF TasksSame
  <2>10. JobsLive' /\ Deliveries'
    BY <1>3, <1>4, <2>1, <2>6, <2>7, <2>8, <2>9, JobSends
  <2>11. Homed' /\ \A n \in DOMAIN frames' : ~Context(n)'
    BY <1>7, <2>1, <2>7
  <2>12. Wire' = client'.nextRequest /\ WireOp' = op
    BY <2>1, <2>6, <2>7 DEF Wire, WireOp, Changes
  <2>13. Wires'
    <3>1. NoRequest
      BY <1>1, <2>1, QuietNow
    <3> QED BY <1>1, <1>3, <1>4, <2>1, <2>4, <2>8, <2>11, <2>12, <3>1, WiresSend
  <2> QED BY <2>10, <2>13
<1> QED BY <1>2, <1>5, <1>8, <1>9

\* A job that is over has no request, nobody is told of its reply, and one
\* task or frame delivers it.
LEMMA OverFacts ==
    ASSUME Flights, NEW j \in DOMAIN jobs, jobs[j].phase = "delivering"
    PROVE  /\ j = active /\ active # 0 /\ Wire = 0 /\ jobs[j].wire = 0 /\ available
           /\ \A n \in DOMAIN frames : frames[n].frame = "context" => frames[n].job \notin DOMAIN jobs
<1>1. Tables /\ Epochs /\ JobsLive /\ Deliveries /\ Wires
  BY DEF Flights
<1>2. /\ j # 0 /\ j = active /\ (active # 0 => active \in DOMAIN jobs /\ available)
      /\ active # 0 => (Wire # 0 <=> Aloft(jobs[active]))
  BY <1>1, WireFacts
<1>3. Wire = 0 /\ jobs[j].wire = 0
  BY <1>2 DEF Aloft, Wire
<1>4. \A n \in DOMAIN frames : ~Context(n)
  BY <1>1, <1>3 DEF Wires, Resuming
<1>5. \A n \in DOMAIN frames : frames[n].frame = "context" => frames[n].job \notin DOMAIN jobs
  BY <1>1, <1>2, <1>4 DEF Wires, Resuming, Context
<1> QED BY <1>2, <1>3, <1>5

\* A delivery that begins.
LEMMA TaskFacts ==
    ASSUME Flights, NEW t \in deferred, t.task = "deliver", Finishing(t)
    PROVE  /\ t.job \in DOMAIN asked
           /\ \A n \in DOMAIN frames : frames[n].frame = "deliver" => frames[n].job # t.job
           /\ \A u \in deferred : u.task = "deliver" /\ u.job = t.job => u = t
<1>1. Deliveries
  BY DEF Flights
<1>2. TaskOK(t) /\ \A u \in deferred : u.task = "deliver" => TaskOK(u)
  BY <1>1 DEF Deliveries
<1>3. t.job \in DOMAIN jobs
  BY DEF Finishing
<1>4. \A u \in deferred : u.task = "deliver" => u = [task |-> "deliver", job |-> u.job]
  BY <1>2 DEF TaskOK
<1> QED BY <1>2, <1>3, <1>4 DEF TaskOK

\* The beginning of a delivery disturbs no flight.
LEMMA DeliverFlights == ASSUME Flights, Delivers PROVE JobsLive' /\ Deliveries' /\ Wires'
<1>1. Tables /\ Epochs /\ JobsLive /\ Deliveries /\ Wires /\ JobTable(jobs) /\ Places /\ IsSeq(frames)
      /\ DOMAIN jobs \subseteq DOMAIN asked
  BY DEF Flights, Tables, Places, Stack
<1>2. PICK t \in deferred : t.task = "deliver" /\ DeliverRest
                            /\ (DeliverLate(t) \/ DeliverAgain(t) \/ DeliverStarts(t))
  BY DeliverCases
<1>3. UNCHANGED <<available, transport, worker, asked, posted, client>>
  BY <1>2 DEF DeliverRest, session, ghosts
<1>4. Hears /\ Recalls
  BY <1>3 DEF Hears, Recalls
<1>5. /\ Wire \in Nat /\ Wire <= client.nextRequest /\ client.nextRequest \in Nat
      /\ ~available => DOMAIN jobs = {}
  BY <1>1, WireFacts
<1>6. CASE DeliverLate(t)
  <2>1. UNCHANGED <<jobs, active, frames>> /\ TasksSame
    BY <1>6 DEF DeliverLate, table, TasksSame
  <2> QED BY <1>3, <1>4, <2>1, FlightsIdle
<1>7. ASSUME Finishing(t)
      PROVE  /\ t.job \in DOMAIN jobs /\ t.job = active /\ active # 0 /\ Wire = 0 /\ jobs[active].wire = 0
             /\ jobs[active].phase = "delivering"
             /\ \A n \in DOMAIN frames : frames[n].frame = "context" => frames[n].job \notin DOMAIN jobs
             /\ t.job \in DOMAIN asked
             /\ \A n \in DOMAIN frames : frames[n].frame = "deliver" => frames[n].job # t.job
             /\ \A u \in deferred : u.task = "deliver" /\ u.job = t.job => u = t
  <2>1. t.job \in DOMAIN jobs /\ jobs[t.job].phase = "delivering"
    BY <1>7 DEF Finishing
  <2>2. /\ t.job = active /\ active # 0 /\ Wire = 0 /\ jobs[t.job].wire = 0
        /\ \A n \in DOMAIN frames : frames[n].frame = "context" => frames[n].job \notin DOMAIN jobs
    BY <2>1, OverFacts
  <2>3. /\ t.job \in DOMAIN asked
        /\ \A n \in DOMAIN frames : frames[n].frame = "deliver" => frames[n].job # t.job
        /\ \A u \in deferred : u.task = "deliver" /\ u.job = t.job => u = t
    BY <1>2, <1>7, TaskFacts
  <2> QED BY <2>1, <2>2, <2>3
<1>8. ASSUME DOMAIN jobs' = DOMAIN jobs PROVE ~available' => DOMAIN jobs' = {}
  BY <1>3, <1>5, <1>8, Zenon
<1>9. CASE DeliverAgain(t)
  <2> DEFINE j == t.job
             a == jobs'[j]
  <2>1. Finishing(t) /\ jobs' = Requeued(jobs, t.job, Nothing) /\ active' = 0 /\ UNCHANGED frames
        /\ deferred' = (deferred \ {t}) \union {Pumping}
    BY <1>9 DEF DeliverAgain
  <2>2. /\ j \in DOMAIN jobs /\ j = active /\ active # 0 /\ Wire = 0 /\ jobs[j].wire = 0
        /\ \A n \in DOMAIN frames : frames[n].frame = "context" => frames[n].job \notin DOMAIN jobs
        /\ \A n \in DOMAIN frames : frames[n].frame = "deliver" => frames[n].job # j
        /\ \A u \in deferred : u.task = "deliver" /\ u.job = j => u = t
    BY <1>7, <2>1
  <2>3. jobs' = Requeued(jobs, j, Nothing)
    BY <2>1
  <2> HIDE DEF j
  <2>4. jobs' = [jobs EXCEPT ![j] = a] /\ Like(a, jobs[j], {"phase", "result"}) /\ a.phase = "queued"
    BY <1>1, <2>2, <2>3, RequeuedLike
  <2>5. a.wire = 0 /\ ~Aloft(a)
    BY <2>2, <2>4 DEF Like, JobFields, Aloft
  <2> HIDE DEF a
  <2>6. Changes(j, a)
    BY <1>1, <2>2, <2>4, PutsChanges DEF Puts
  <2>7. JobsLive'
    <3>1. DOMAIN jobs' = DOMAIN jobs
      BY <2>6 DEF Changes
    <3>2. \A i \in DOMAIN jobs' :
             \/ i \in DOMAIN jobs /\ jobs'[i].wire = jobs[i].wire /\ (Aloft(jobs'[i]) <=> Aloft(jobs[i]))
             \/ jobs'[i].wire = 0 /\ ~Aloft(jobs'[i])
      BY <2>5, <2>6 DEF Changes
    <3>3. ~available' => DOMAIN jobs' = {}
      BY <1>8, <3>1
    <3> QED BY <1>1, <1>3, <1>5, <3>2, <3>3, LiveSame
  <2>8. Deliveries'
    <3>1. ASSUME NEW u \in deferred', u.task = "deliver" PROVE TaskOK(u)'
      <4>1. u \in deferred /\ u # t
        BY <2>1, <3>1, NoDeliveries
      <4>2. TaskOK(u) /\ u.job # j
        BY <1>1, <2>2, <3>1, <4>1 DEF Deliveries
      <4> QED BY <1>3, <2>1, <2>6, <4>2 DEF TaskOK, Changes
    <3>2. ASSUME NEW n \in DOMAIN frames' PROVE frames'[n].job \in DOMAIN asked' /\ HeldOK(n)'
      <4>1. frames[n].job \in DOMAIN asked /\ HeldOK(n) /\ n \in DOMAIN frames
        BY <1>1, <2>1, <3>2 DEF Deliveries
      <4> QED BY <1>3, <2>1, <2>2, <2>6, <4>1 DEF HeldOK, Changes
    <3> QED BY <3>1, <3>2 DEF Deliveries
  <2>9. Wires'
    <3>1. Wire' = Wire /\ \A n : ~Context(n)'
      BY <2>1, <2>2 DEF Wire, Context
    <3>2. Homed'
      BY <2>1, <2>2, <2>6 DEF Homed, Changes
    <3> QED BY <1>1, <1>3, <1>4, <1>5, <2>2, <3>1, <3>2, WiresKept
  <2> QED BY <2>7, <2>8, <2>9
<1>10. CASE DeliverStarts(t)
  <2> DEFINE e == Len(frames) + 1
             fr == DeliverFrame(t.job, jobs[t.job].subscribers, jobs'[t.job])
  <2>1. Finishing(t) /\ frames' = Append(frames, fr) /\ deferred' = deferred \ {t} /\ active' = active
    BY <1>10 DEF DeliverStarts
  <2>2. /\ t.job \in DOMAIN jobs /\ t.job = active /\ active # 0 /\ Wire = 0 /\ jobs[active].wire = 0
        /\ \A n \in DOMAIN frames : frames[n].frame = "context" => frames[n].job \notin DOMAIN jobs
        /\ \A n \in DOMAIN frames : frames[n].frame = "deliver" => frames[n].job # t.job
        /\ \A u \in deferred : u.task = "deliver" /\ u.job = t.job => u = t
        /\ t.job \in DOMAIN asked
    BY <1>7, <2>1
  <2>3. PICK a : Puts(active, a) /\ Like(a, jobs[active], {"result"}) /\ a.phase = "delivering"
    BY <1>1, <1>10, DeliverJob
  <2>4. Changes(active, a)
    BY <1>1, <2>2, <2>3, PutsChanges
  <2>5. a.wire = 0 /\ ~Aloft(a)
    BY <2>2, <2>3 DEF Like, JobFields, Aloft
  <2>6. fr.frame = "deliver" /\ fr.job = t.job
    BY DEF DeliverFrame
  <2> HIDE DEF fr
  <2>7. /\ DOMAIN frames' = DOMAIN frames \union {e} /\ e \notin DOMAIN frames /\ frames'[e] = fr
        /\ \A n \in DOMAIN frames : frames'[n] = frames[n]
    BY <1>1, <2>1, AppendOK
  <2> HIDE DEF e
  <2>8. JobsLive'
    <3>1. DOMAIN jobs' = DOMAIN jobs
      BY <2>4 DEF Changes
    <3>2. \A i \in DOMAIN jobs' :
             \/ i \in DOMAIN jobs /\ jobs'[i].wire = jobs[i].wire /\ (Aloft(jobs'[i]) <=> Aloft(jobs[i]))
             \/ jobs'[i].wire = 0 /\ ~Aloft(jobs'[i])
      BY <2>4, <2>5 DEF Changes
    <3>3. ~available' => DOMAIN jobs' = {}
      BY <1>8, <3>1
    <3> QED BY <1>1, <1>3, <1>5, <3>2, <3>3, LiveSame
  <2>9. Deliveries'
    <3>1. ASSUME NEW u \in deferred', u.task = "deliver" PROVE TaskOK(u)'
      <4>1. u \in deferred /\ u # t
        BY <2>1, <3>1
      <4>2. TaskOK(u) /\ u.job # t.job
        BY <1>1, <2>2, <3>1, <4>1 DEF Deliveries
      <4> QED BY <1>3, <2>2, <2>4, <2>6, <2>7, <4>2 DEF TaskOK, Changes
    <3>2. ASSUME NEW n \in DOMAIN frames' PROVE frames'[n].job \in DOMAIN asked' /\ HeldOK(n)'
      <4>1. CASE n \in DOMAIN frames
        <5>1. frames[n].job \in DOMAIN asked /\ HeldOK(n)
          BY <1>1, <4>1 DEF Deliveries
        <5> QED BY <1>3, <2>2, <2>4, <2>6, <2>7, <4>1, <5>1 DEF HeldOK, Changes
      <4>2. CASE n = e
        BY <1>3, <2>2, <2>3, <2>4, <2>6, <2>7, <4>2 DEF HeldOK, Changes
      <4> QED BY <2>7, <4>1, <4>2
    <3> QED BY <3>1, <3>2 DEF Deliveries
  <2>10. Wires'
    <3>1. Wire' = Wire
      BY <2>1, <2>2, <2>4, <2>5 DEF Wire, Changes
    <3>2. \A n \in DOMAIN frames' : Context(n)' => n \in DOMAIN frames /\ Context(n)
      BY <2>1, <2>6, <2>7 DEF Context
    <3>3. Homed'
      BY <2>2, <2>4, <2>6, <2>7 DEF Homed, Changes
    <3> QED BY <1>1, <1>3, <1>4, <1>5, <2>2, <3>1, <3>2, <3>3, WiresKept
  <2> QED BY <2>8, <2>9, <2>10
<1> QED BY <1>2, <1>6, <1>9, <1>10

\* Telling a subscriber disturbs none.
LEMMA TellFlights == ASSUME Flights, TellsNext PROVE JobsLive' /\ Deliveries' /\ Wires'
<1>1. Tables /\ Epochs /\ JobsLive /\ Stack /\ IsSeq(frames)
  BY DEF Flights, Tables, Stack
<1> DEFINE k == Len(frames)
           fr == DeliverFrame(Top.job, Top.ids \ {Next1}, Top.work)
<1>2. /\ TellRest /\ k \in DOMAIN frames /\ Top.frame = "deliver"
      /\ frames' = [frames EXCEPT ![k] = fr]
  BY <1>1, TellCases
<1>3. UNCHANGED <<available, transport, worker, asked, posted, client, jobs, active, deferred>>
  BY <1>2 DEF TellRest, session
<1>4. fr.frame = "deliver" /\ fr.job = frames[k].job /\ frames[k].frame = "deliver"
  BY <1>2 DEF DeliverFrame, Top
<1> HIDE DEF fr, k
<1>5. /\ DOMAIN frames' = DOMAIN frames /\ frames'[k] = fr
      /\ \A n \in DOMAIN frames : n # k => frames'[n] = frames[n]
  BY <1>1, <1>2, ReplaceAtOK
<1>6. FramesSame
  BY <1>4, <1>5 DEF FramesSame
<1>7. JobsSame
  <2>1. active # 0 => active \in DOMAIN jobs
    BY <1>1, WireFacts
  <2> QED BY <1>3, <2>1 DEF JobsSame
<1> QED BY <1>3, <1>6, <1>7, FlightsKept DEF Recalls, Hears, TasksSame

\* Its end disturbs none, for its job, if it is there, is the one that is over.
LEMMA EndFlights == ASSUME Flights, EndsDelivery PROVE JobsLive' /\ Deliveries' /\ Wires'
<1>1. /\ Tables /\ Epochs /\ JobsLive /\ Deliveries /\ Wires /\ Stack /\ IsSeq(frames)
  BY DEF Flights, Tables, Stack
<1>2. /\ EndRest /\ frames # <<>> /\ Len(frames) \in DOMAIN frames
      /\ Top.frame = "deliver" /\ frames' = Pop
      /\ DOMAIN jobs' = DOMAIN jobs \ {Top.job}
      /\ \A j \in DOMAIN jobs' : jobs'[j] = jobs[j]
      /\ RemoveJobs({Top.job} \intersect DOMAIN jobs)
      /\ deferred' = deferred \union AfterDelivery(Top.work)
  BY <1>1, EndCases
<1>3. UNCHANGED <<available, transport, worker, asked, posted, client>>
  BY <1>2 DEF EndRest, session, ghosts
<1>4. active' = IF active \in {Top.job} \intersect DOMAIN jobs THEN 0 ELSE active
  BY <1>2 DEF RemoveJobs
<1>5. FramesSame
  <2>1. \A n \in DOMAIN frames' : n \in DOMAIN frames /\ frames'[n] = frames[n]
    BY <1>1, <1>2, FrontOK DEF Pop
  <2> QED BY <2>1 DEF FramesSame
<1>6. TasksSame
  <2>1. \A t \in AfterDelivery(Top.work) : t.task # "deliver"
    BY NoDeliveries DEF AfterDelivery, Announcement
  <2> QED BY <1>2, <2>1 DEF TasksSame
<1>7. /\ Wire \in Nat /\ Wire <= client.nextRequest /\ client.nextRequest \in Nat
      /\ (~available => DOMAIN jobs = {}) /\ (active # 0 => active \in DOMAIN jobs)
  BY <1>1, WireFacts
<1>8. CASE Top.job \notin DOMAIN jobs
  <2>1. JobsSame
    BY <1>2, <1>4, <1>7, <1>8 DEF JobsSame
  <2> QED BY <1>3, <1>5, <1>6, <2>1, FlightsKept DEF Recalls, Hears
<1>9. CASE Top.job \in DOMAIN jobs
  <2>1. jobs[Top.job].phase = "delivering"
    BY <1>1, <1>2, <1>9 DEF Deliveries, HeldOK, Top
  <2>2. /\ Top.job = active /\ Wire = 0
        /\ \A n \in DOMAIN frames : frames[n].frame = "context" => frames[n].job \notin DOMAIN jobs
    BY <1>9, <2>1, OverFacts
  <2>3. active' = 0
    BY <1>4, <1>9, <2>2
  <2>4. JobsLive'
    <3>1. DOMAIN jobs = {} => DOMAIN jobs' = {}
      BY <1>2
    <3>2. ~available' => DOMAIN jobs' = {}
      BY <1>3, <1>7, <3>1, Zenon
    <3>3. \A i \in DOMAIN jobs' :
             i \in DOMAIN jobs /\ jobs'[i].wire = jobs[i].wire /\ (Aloft(jobs'[i]) <=> Aloft(jobs[i]))
      BY <1>2
    <3> QED BY <1>1, <1>3, <1>7, <3>2, <3>3, LiveSame
  <2>5. Deliveries'
    <3>1. FramesKept /\ PhasesKept
      BY <1>2, <1>5 DEF FramesKept, PhasesKept, FramesSame
    <3> QED BY <1>1, <1>3, <1>6, <3>1, DeliverySame DEF TasksSame
  <2>6. Wires'
    <3>1. Wire' = Wire /\ \A n : ~Context(n)'
      BY <2>2, <2>3 DEF Wire, Context
    <3>2. Homed'
      BY <1>2, <1>5, <2>2 DEF Homed, FramesSame
    <3> QED BY <1>1, <1>3, <1>7, <2>2, <3>1, <3>2, WiresKept DEF Recalls, Hears
  <2> QED BY <2>4, <2>5, <2>6
<1> QED BY <1>8, <1>9

\* receive goes on: the request it replies to is the only one.
LEMMA SettleFlights ==
    ASSUME Flights, active # 0, Wire # 0, NoRequest, NEW m, Settle(active, m),
           UNCHANGED <<transport, worker, asked>>, Hears, FramesSame,
           \A n \in DOMAIN frames' : ~(frames'[n].frame = "context" /\ frames'[n].job = active)
    PROVE  JobsLive' /\ Deliveries' /\ Wires'
<1>1. Tables /\ Epochs /\ JobsLive /\ Deliveries /\ Wires /\ JobTable(jobs)
  BY DEF Flights, Tables, Places
<1>2. /\ active \in DOMAIN jobs /\ available /\ Aloft(jobs[active])
      /\ jobs[active].phase # "delivering" /\ IsJob(jobs[active])
  <2>1. active \in DOMAIN jobs /\ available /\ Aloft(jobs[active]) /\ jobs[active].phase # "delivering"
    BY <1>1, WireFacts
  <2> QED BY <1>1, <2>1 DEF JobTable
<1>3. /\ SettleRest
      /\ \E job : /\ SameJob(job, jobs[active])
                  /\ \/ \E result : SettleEnds(active, job, m, result)
                     \/ SettleRetries(active, job) \/ SettleViews(active, job, m)
  BY <1>2, SettleCases
<1>4. UNCHANGED <<active, available>>
  BY <1>3 DEF SettleRest
<1>5. ASSUME NEW a, Changes(active, a) PROVE Homed' /\ \A n \in DOMAIN frames' : ~Context(n)'
  <2>1. Homed'
    BY <1>1, <1>4, <1>5 DEF Homed, Changes, FramesSame, Wires, Resuming
  <2>2. \A n \in DOMAIN frames' : ~Context(n)'
    BY <1>4 DEF Context
  <2> QED BY <2>1, <2>2
<1>6. ASSUME NEW job, IsJob(job), NEW result, Ends(active, job, result)
      PROVE  JobsLive' /\ Deliveries' /\ Wires'
  <2>1. Finishes(active, job, result) /\ deferred' = deferred \union {Deliver(active)}
    BY <1>6 DEF Ends
  <2>2. PICK a : Puts(active, a) /\ a.phase = "delivering" /\ a.wire = 0
    BY <1>6, <2>1, FinishesReplaces
  <2>3. Changes(active, a) /\ UNCHANGED client
    BY <1>1, <1>2, <2>1, <2>2, PutsChanges DEF Finishes
  <2>4. JobsLive' /\ Deliveries'
    <3>1. \A t \in deferred' : t.task = "deliver" => t \in deferred \/ t = Deliver(active)
      BY <2>1
    <3> QED BY <1>2, <1>4, <2>2, <2>3, <3>1, JobEnds
  <2>5. Wire' = 0
    BY <1>2, <1>4, <2>2, <2>3 DEF Wire, Changes
  <2>6. Wires'
    BY <1>1, <1>4, <1>5, <2>3, <2>5, WiresEnd
  <2> QED BY <2>4, <2>6
<1>7. ASSUME NEW job, IsJob(job), Aloft(job), NEW op, op # "cancel", NEW layout,
             Sends(active, job, op, layout), UNCHANGED deferred
      PROVE  JobsLive' /\ Deliveries' /\ Wires'
  <2> DEFINE request == Order(active, job, op, layout)
  <2>1. PICK a : Puts(active, a) /\ a.phase = job.phase /\ a.wire = client'.nextRequest /\ a.wireOp = op
    BY <1>7, SendsReplaces
  <2>2. Changes(active, a) /\ Aloft(a)
    BY <1>1, <1>2, <1>7, <2>1, PutsChanges DEF Aloft
  <2>3. client' = Request(client, request) /\ "op" \in DOMAIN request /\ request.op = op
    BY <1>7 DEF Sends, Order
  <2> HIDE DEF request
  <2>4. TasksSame
    BY <1>7 DEF TasksSame
  <2>5. JobsLive' /\ Deliveries'
    BY <1>2, <1>4, <2>1, <2>2, <2>3, <2>4, JobSends
  <2>6. Wire' = client'.nextRequest /\ WireOp' = op
    BY <1>2, <1>4, <2>1, <2>2 DEF Wire, WireOp, Changes
  <2>7. Homed' /\ \A n \in DOMAIN frames' : ~Context(n)'
    BY <1>5, <2>2
  <2>8. Wires'
    BY <1>1, <1>2, <1>4, <1>7, <2>3, <2>6, <2>7, WiresSend
  <2> QED BY <2>5, <2>8
<1>8. PICK job : /\ SameJob(job, jobs[active])
                 /\ \/ \E result : SettleEnds(active, job, m, result)
                    \/ SettleRetries(active, job) \/ SettleViews(active, job, m)
  BY <1>3
<1>9. IsJob(job)
  BY <1>8 DEF SameJob
<1>10. CASE \E result : SettleEnds(active, job, m, result)
  BY <1>6, <1>9, <1>10 DEF SettleEnds
<1>11. CASE SettleRetries(active, job)
  <2> DEFINE b == Retried(job)
  <2>1. IsJob(b) /\ b.phase = "summary"
    BY <1>9, RetriedLike
  <2>2. Sends(active, b, "cfg_summary", 0) /\ UNCHANGED deferred
    BY <1>11 DEF SettleRetries
  <2> HIDE DEF b
  <2>3. Aloft(b)
    BY <2>1 DEF Aloft
  <2>4. "cfg_summary" # "cancel"
    OBVIOUS
  <2> QED BY <1>7, <2>1, <2>2, <2>3, <2>4
<1>12. CASE SettleViews(active, job, m)
  <2> DEFINE b == Viewed(job, m)
  <2>1. IsJob(b) /\ b.phase = "viewport"
    BY <1>9, ViewportLike DEF Viewed
  <2>2. Sends(active, b, "cfg_viewport", m.layout) /\ UNCHANGED deferred
    BY <1>12 DEF SettleViews
  <2> HIDE DEF b
  <2>3. Aloft(b)
    BY <2>1 DEF Aloft
  <2>4. "cfg_viewport" # "cancel"
    OBVIOUS
  <2> QED BY <1>7, <2>1, <2>2, <2>3, <2>4
<1> QED BY <1>8, <1>10, <1>11, <1>12

\* After contextChanged, too.
LEMMA ContextFlights == ASSUME Flights, ResumesReceive PROVE JobsLive' /\ Deliveries' /\ Wires'
<1>1. Tables /\ Epochs /\ JobsLive /\ Wires /\ Places /\ Stack /\ IsSeq(frames)
  BY DEF Flights, Tables, Stack
<1>2. /\ ContextRest /\ frames # <<>> /\ Len(frames) \in DOMAIN frames
      /\ Top.frame = "context" /\ frames' = Pop
      /\ \/ Resumed
         \/ UNCHANGED <<table, context, session, cache, deferred, client>>
  BY <1>1, ContextCases
<1>3. UNCHANGED <<transport, posted, worker, asked>>
  BY <1>2 DEF ContextRest, ghosts
<1>4. \A n \in DOMAIN frames' : n \in DOMAIN frames /\ frames'[n] = frames[n] /\ n # Len(frames)
  <2>1. DOMAIN Front(frames) = DOMAIN frames \ {Len(frames)} /\ \A n \in DOMAIN Front(frames) : Front(frames)[n] = frames[n]
    BY <1>1, <1>2, FrontOK
  <2>2. frames' = Front(frames)
    BY <1>2 DEF Pop
  <2> QED BY <2>1, <2>2
<1>5. FramesSame /\ Hears
  BY <1>3, <1>4 DEF FramesSame, Hears
<1>6. CASE Resumed
  <2>1. active # 0 /\ active = Top.job /\ Settle(active, Top.reply)
    BY <1>6 DEF Resumed
  <2>2. Context(Len(frames))
    BY <1>2, <2>1 DEF Context, Top
  <2>3. NoRequest /\ Wire # 0 /\ \A n \in DOMAIN frames : Context(n) => n = Len(frames)
    BY <1>1, <1>2, <2>2 DEF Wires, Resuming
  <2>4. \A n \in DOMAIN frames' : ~(frames'[n].frame = "context" /\ frames'[n].job = active)
    BY <1>4, <2>1, <2>3 DEF Context
  <2> QED BY <1>3, <1>5, <2>1, <2>3, <2>4, SettleFlights
<1>7. CASE UNCHANGED <<table, context, session, cache, deferred, client>>
  <2>1. UNCHANGED <<jobs, active, available, deferred, client>>
    BY <1>7 DEF table, session
  <2>2. JobsSame
    <3>1. active # 0 => active \in DOMAIN jobs
      BY <1>1, WireFacts
    <3> QED BY <2>1, <3>1 DEF JobsSame
  <2> QED BY <1>3, <1>5, <2>1, <2>2, FlightsKept DEF Recalls, TasksSame
<1> QED BY <1>2, <1>6, <1>7

\* Progress of the request itself is only shown.
LEMMA ReceiveProgress ==
    ASSUME HearsReply, Awaited(Head(posted)), Head(posted).code = "progress",
           Head(posted).op = jobs[active].wireOp
    PROVE  ReceiveIgnored
<1> DEFINE m == Head(posted)
<1>1. Receive(m) /\ Awaited(m) /\ m.code = "progress" /\ m.op = jobs[active].wireOp
  BY DEF HearsReply
<1> HIDE DEF m
<1> QED BY <1>1 DEF Receive, ReceiveIgnored

\* A reply ends the flight of the request it is for.
LEMMA ReplyFlights == ASSUME Flights, HearsReply PROVE JobsLive' /\ Deliveries' /\ Wires'
<1>1. /\ Tables /\ Epochs /\ JobsLive /\ Deliveries /\ Wires /\ Places /\ JobTable(jobs)
      /\ IsSeq(frames) /\ IsSeq(posted)
  BY DEF Flights, Tables, Places, Stack, Epochs, PostedOK
<1>2. /\ ReceiveRest /\ posted # <<>> /\ posted' = Tail(posted)
      /\ Head(posted).type = "response" /\ Head(posted).epoch = client.epoch
      /\ ReceiveIgnored \/ Awaited(Head(posted))
  BY ReceiveCases
<1>3. UNCHANGED <<transport, worker, asked>>
  BY <1>2 DEF ReceiveRest, ghosts
<1>4. Drops(posted', posted) /\ 1 \in DOMAIN posted /\ Head(posted) = posted[1]
  <2>1. Drops(posted', posted)
    BY <1>1, <1>2, DropsOK
  <2> QED BY <2>1 DEF Drops
<1>5. Hears
  BY <1>4 DEF Hears
<1>6. CASE ReceiveIgnored
  <2>1. UNCHANGED <<jobs, active, frames, client, deferred, available>>
    BY <1>6 DEF ReceiveIgnored, table, session
  <2> QED BY <1>3, <1>5, <2>1, FlightsIdle DEF TasksSame
<1>7. ASSUME ~ReceiveIgnored PROVE JobsLive' /\ Deliveries' /\ Wires'
  <2> DEFINE m == Head(posted)
  <2>1. /\ Awaited(m)
        /\ ReceiveFails \/ ReceiveMoves(m) \/ ReceiveOpens(m) \/ ReceiveSettles(m)
    BY <1>7, ReceiveCases
  <2>2. active # 0 /\ Wire # 0 /\ m.id = Wire /\ WireOp = jobs[active].wireOp
    BY <2>1 DEF Awaited, Wire, WireOp
  <2>3. About(1)
    BY <1>2, <1>4, <2>2 DEF About
  <2>4. Final(1)
    <3>1. m.code = "progress" => m.op # WireOp
      BY <1>7, <2>1, <2>2, ReceiveProgress
    <3>2. posted[1].code = "progress" => posted[1].op = WireOp
      BY <1>1, <1>4, <2>3 DEF Wires, Flight
    <3> QED BY <1>4, <2>3, <3>1, <3>2 DEF Final
  <2>5. NoRequest
    BY <1>1, <1>4, <2>4 DEF Wires, Flight
  <2>6. \A n \in DOMAIN frames : ~Context(n)
    BY <1>1, <1>4, <2>4 DEF Wires, Resuming
  <2>7. \A n \in DOMAIN frames : ~(frames[n].frame = "context" /\ frames[n].job = active)
    BY <2>2, <2>6 DEF Context
  <2>8. /\ active \in DOMAIN jobs /\ available /\ jobs[active].phase # "delivering"
        /\ IsJob(jobs[active]) /\ active \in DOMAIN asked /\ DOMAIN jobs \subseteq DOMAIN asked
        /\ client.nextRequest \in Nat
    <3>1. active \in DOMAIN jobs /\ available /\ jobs[active].phase # "delivering"
          /\ client.nextRequest \in Nat
      BY <1>1, <2>2, WireFacts
    <3> QED BY <1>1, <3>1 DEF JobTable, Places
  <2> HIDE DEF m
  <2>9. CASE ReceiveFails
    <3>1. PICK code : Ends(active, jobs[active], Error(code))
      BY <2>9 DEF ReceiveFails
    <3>2. UNCHANGED <<active, available, frames>>
      BY <2>9 DEF ReceiveFails, session
    <3>3. /\ Finishes(active, jobs[active], Error(code)) /\ UNCHANGED client
          /\ deferred' = deferred \union {Deliver(active)}
      BY <3>1 DEF Ends, Finishes
    <3>4. PICK a : Puts(active, a) /\ a.phase = "delivering" /\ a.wire = 0
      BY <2>8, <3>3, FinishesReplaces
    <3>5. Changes(active, a)
      BY <1>1, <2>8, <3>4, PutsChanges
    <3>6. JobsLive' /\ Deliveries'
      <4>1. \A t \in deferred' : t.task = "deliver" => t \in deferred \/ t = Deliver(active)
        BY <3>3
      <4>2. FramesSame
        BY <3>2 DEF FramesSame
      <4> QED BY <1>3, <2>8, <3>2, <3>3, <3>4, <3>5, <4>1, <4>2, JobEnds
    <3>7. Wire' = 0
      BY <2>8, <3>2, <3>4, <3>5 DEF Wire, Changes
    <3>8. Homed' /\ \A n \in DOMAIN frames' : ~Context(n)'
      <4>1. Homed'
        BY <1>1, <3>2, <3>5 DEF Homed, Changes, Wires, Resuming
      <4>2. \A n \in DOMAIN frames' : ~Context(n)'
        BY <2>7, <3>2 DEF Context
      <4> QED BY <4>1, <4>2
    <3>9. Wires'
      BY <1>1, <1>3, <1>5, <2>5, <3>2, <3>3, <3>7, <3>8, WiresEnd
    <3> QED BY <3>6, <3>9
  <2>10. CASE ReceiveSettles(m)
    <3>1. Settle(active, m) /\ UNCHANGED frames
      BY <2>10 DEF ReceiveSettles
    <3>2. FramesSame /\ \A n \in DOMAIN frames' : ~(frames'[n].frame = "context" /\ frames'[n].job = active)
      BY <2>7, <3>1 DEF FramesSame
    <3> QED BY <1>3, <1>5, <2>2, <2>5, <3>1, <3>2, SettleFlights
  <2>11. ASSUME UNCHANGED <<active, available, client>>, active \in DOMAIN jobs', DOMAIN jobs' \subseteq DOMAIN jobs,
                \A j \in DOMAIN jobs' : /\ jobs'[j].phase = jobs[j].phase
                                        /\ jobs'[j].wire = jobs[j].wire /\ jobs'[j].wireOp = jobs[j].wireOp,
                frames' = Append(frames, ContextFrame(active, m)), TasksSame
         PROVE  JobsLive' /\ Deliveries' /\ Wires'
    <3> DEFINE e == Len(frames) + 1
               fr == ContextFrame(active, m)
    <3>1. fr.frame = "context" /\ fr.job = active
      BY DEF ContextFrame
    <3>2. frames' = Append(frames, fr)
      BY <2>11
    <3> HIDE DEF fr
    <3>3. /\ DOMAIN frames' = DOMAIN frames \union {e} /\ frames'[e] = fr
          /\ \A n \in DOMAIN frames : frames'[n] = frames[n]
      BY <1>1, <3>2, AppendOK
    <3> HIDE DEF e
    <3>4. JobsLive'
      <4>1. \A i \in DOMAIN jobs' :
               i \in DOMAIN jobs /\ jobs'[i].wire = jobs[i].wire /\ (Aloft(jobs'[i]) <=> Aloft(jobs[i]))
        BY <2>11 DEF Aloft
      <4>2. ~available' => DOMAIN jobs' = {}
        BY <2>8, <2>11, Zenon
      <4> QED BY <1>1, <2>8, <2>11, <4>1, <4>2, LiveSame
    <3>5. FramesKept /\ PhasesKept
      BY <2>8, <2>11, <3>1, <3>3 DEF FramesKept, PhasesKept
    <3>6. Deliveries'
      BY <1>1, <1>3, <2>11, <3>5, DeliverySame DEF TasksSame
    <3>7. Wire' = Wire /\ WireOp' = WireOp
      BY <2>2, <2>8, <2>11 DEF Wire, WireOp
    <3>8. Homed'
      BY <1>1, <2>11, <3>1, <3>3 DEF Homed, Wires, Resuming
    <3>9. \A n \in DOMAIN frames' : Context(n)' => n = e
      BY <2>7, <2>11, <3>3 DEF Context
    <3>10. Wires'
      BY <1>1, <1>3, <1>4, <2>4, <2>11, <3>7, <3>8, <3>9, WiresMove
    <3> QED BY <3>4, <3>6, <3>10
  <2>12. CASE ReceiveMoves(m)
    <3>1. /\ UNCHANGED <<jobs, active, available, client, deferred>>
          /\ frames' = Append(frames, ContextFrame(active, m))
      BY <2>12 DEF ReceiveMoves, table, session
    <3> QED BY <2>8, <2>11, <3>1 DEF TasksSame
  <2>13. CASE ReceiveOpens(m)
    <3>1. /\ UNCHANGED <<available, client>> /\ Retire(active, "session_changed")
          /\ frames' = Append(frames, ContextFrame(active, m))
      BY <2>13 DEF ReceiveOpens
    <3>2. /\ DOMAIN jobs' = DOMAIN jobs \intersect {active}
          /\ \A j \in DOMAIN jobs' : Like(jobs'[j], jobs[j], {"epoch"})
      BY <1>1, <3>1, RetireJobs
    <3>3. \A j \in DOMAIN jobs' : /\ jobs'[j].phase = jobs[j].phase
                                  /\ jobs'[j].wire = jobs[j].wire /\ jobs'[j].wireOp = jobs[j].wireOp
      BY <3>2 DEF Like, JobFields
    <3>4. active' = active
      BY <3>1 DEF Retire, RemoveJobs, Retired
    <3>5. TasksSame
      <4>1. ASSUME NEW t \in deferred', t \notin deferred
            PROVE  \E i, code : t = [task |-> "standalone", ask |-> i, code |-> code]
        BY <3>1, <4>1 DEF Retire
      <4>2. \A t \in deferred' : t \notin deferred => t.task # "deliver"
        BY <4>1, NoDeliveries
      <4> QED BY <4>2 DEF TasksSame
    <3>6. active \in DOMAIN jobs' /\ DOMAIN jobs' \subseteq DOMAIN jobs
      BY <2>8, <3>2
    <3> QED BY <2>11, <3>1, <3>3, <3>4, <3>5, <3>6
  <2> QED BY <2>1, <2>9, <2>10, <2>12, <2>13
<1> QED BY <1>6, <1>7

\* A session that ends leaves no job.
LEMMA UnavailableJobs ==
    ASSUME Tables, Epochs, JobsLive, SetUnavailable
    PROVE  DOMAIN jobs' = {} /\ active' = 0 /\ TasksSame
<1>1. Places /\ active \in DOMAIN jobs \union {0} /\ 0 \notin DOMAIN jobs
  BY DEF Tables, Places, Placed, JobTable
<1>2. CASE available
  <2>1. Retire(0, "worker_stopped")
    BY <1>2 DEF SetUnavailable
  <2>2. DOMAIN jobs' = DOMAIN jobs \intersect {0}
    BY <1>1, <2>1, RetireJobs
  <2>3. active' = 0
    BY <1>1, <2>1 DEF Retire, RemoveJobs, Retired
  <2>4. TasksSame
    <3>1. ASSUME NEW t \in deferred', t \notin deferred
          PROVE  \E i, code : t = [task |-> "standalone", ask |-> i, code |-> code]
      BY <2>1, <3>1 DEF Retire
    <3>2. \A t \in deferred' : t \notin deferred => t.task # "deliver"
      BY <3>1, NoDeliveries
    <3> QED BY <3>2 DEF TasksSame
  <2> QED BY <1>1, <2>2, <2>3, <2>4
<1>3. CASE ~available
  <2>1. UNCHANGED <<jobs, active, deferred>>
    BY <1>3 DEF SetUnavailable, table
  <2>2. active = 0 /\ DOMAIN jobs = {}
    BY <1>3, WireFacts
  <2> QED BY <2>1, <2>2 DEF TasksSame
<1> QED BY <1>2, <1>3

\* Nothing is left to fly.
LEMMA GoneFlights ==
    ASSUME Flights, DOMAIN jobs' = {}, UNCHANGED <<frames, asked>>, TasksSame
    PROVE  JobsLive' /\ Deliveries' /\ Homed'
<1>1. Deliveries
  BY DEF Flights
<1>2. FramesKept /\ PhasesKept
  BY DEF FramesKept, PhasesKept
<1>3. Deliveries'
  BY <1>1, <1>2, DeliverySame DEF TasksSame
<1> QED BY <1>3 DEF JobsLive, Homed

\* A restart, an open without a worker and a fatal worker leave the session.
LEMMA LeavingFlights ==
    ASSUME Flights, Restart \/ OpenStartsWorker \/ HearsFatal
    PROVE  JobsLive' /\ Deliveries' /\ Wires'
<1>1. /\ Tables /\ Epochs /\ JobsLive /\ Wires /\ IsClient(client) /\ Spread(client.calls) /\ IsSeq(posted)
      /\ client.epoch \in Nat /\ available \in BOOLEAN
  BY DEF Flights, Epochs, ClientOK, IsClient, PostedOK, Wires, Apart, Tables, Stack
<1>2. Epochs'
  BY <1>1, LeavingEpochs
<1>3. /\ DOMAIN jobs' = {} /\ active' = 0 /\ TasksSame /\ ~available'
      /\ UNCHANGED <<frames, asked, transport, worker>> /\ Hears
  <2>1. CASE Restart
    <3>1. SetUnavailable /\ UNCHANGED <<frames, asked, transport, worker, posted>>
      BY <2>1 DEF Restart, WorkerGone, ghosts
    <3>2. ~available'
      BY <1>1, <3>1, UnavailableOK
    <3> QED BY <1>1, <3>1, <3>2, UnavailableJobs DEF Hears
  <2>2. CASE HearsFatal
    <3>1. SetUnavailable /\ UNCHANGED <<frames, asked, transport, worker>> /\ NextPosted("fatal")
      BY <2>2 DEF HearsFatal, WorkerGone, ghosts
    <3>2. ~available'
      BY <1>1, <3>1, UnavailableOK
    <3>3. Hears
      BY <1>1, <3>1, HearOK DEF Hears
    <3> QED BY <1>1, <3>1, <3>2, <3>3, UnavailableJobs
  <2>3. CASE OpenStartsWorker
    <3>1. UNCHANGED <<frames, asked, transport, worker, posted, jobs, active, deferred, available>> /\ ~available
      BY <2>3 DEF OpenStartsWorker, WorkerGone, ghosts, table, session
    <3>2. active = 0 /\ DOMAIN jobs = {}
      BY <1>1, <3>1, WireFacts
    <3> QED BY <3>1, <3>2 DEF TasksSame, Hears
  <2> QED BY <2>1, <2>2, <2>3
<1>4. /\ client'.epoch > client.epoch /\ client'.nextRequest = client.nextRequest /\ Spread(client'.calls)
      /\ Guarded(client.calls) => Guarded(client'.calls)
      /\ \A n \in DOMAIN client'.calls : Real(client'.calls[n]) => Passed(client'.calls, n)
  <2>1. CASE Restart
    <3> DEFINE c == Stop(client)
    <3>1. client' = Start(c)
      BY <2>1 DEF Restart
    <3>2. /\ IsClient(c) /\ Spread(c.calls) /\ (Guarded(client.calls) => Guarded(c.calls))
          /\ c.nextRequest = client.nextRequest /\ c.epoch = client.epoch + 1
      BY <1>1, BoundaryCalls
    <3> HIDE DEF c
    <3>3. /\ Spread(client'.calls) /\ (Guarded(c.calls) => Guarded(client'.calls))
          /\ \A n \in DOMAIN client'.calls : Real(client'.calls[n]) => Passed(client'.calls, n)
          /\ client'.nextRequest = c.nextRequest /\ client'.epoch = c.epoch + 1
      BY <3>1, <3>2, BoundaryCalls
    <3> QED BY <1>1, <3>2, <3>3
  <2>2. CASE OpenStartsWorker \/ HearsFatal
    <3>1. client' = Start(client) \/ client' = Stop(client)
      BY <2>2 DEF OpenStartsWorker, HearsFatal
    <3>2. /\ Spread(client'.calls) /\ (Guarded(client.calls) => Guarded(client'.calls))
          /\ \A n \in DOMAIN client'.calls : Real(client'.calls[n]) => Passed(client'.calls, n)
          /\ client'.nextRequest = client.nextRequest /\ client'.epoch = client.epoch + 1
      BY <1>1, <3>1, BoundaryCalls
    <3> QED BY <1>1, <3>2
  <2> QED BY <2>1, <2>2
<1>5. JobsLive' /\ Deliveries' /\ Homed'
  BY <1>3, GoneFlights
<1>6. Wires'
  BY <1>1, <1>2, <1>3, <1>4, <1>5, WiresLeave
<1> QED BY <1>5, <1>6

\* So does the end of a worker.
LEMMA StoppedFlights == ASSUME Flights, HearsStopped PROVE JobsLive' /\ Deliveries' /\ Wires'
<1>1. /\ Tables /\ Epochs /\ JobsLive /\ Wires /\ IsSeq(posted) /\ available \in BOOLEAN
  BY DEF Flights, Epochs, PostedOK, Tables, Stack
<1>2. /\ SetUnavailable /\ UNCHANGED <<frames, asked, transport, worker, client>> /\ NextPosted("stopped")
      /\ Head(posted).epoch = client.epoch
  BY DEF HearsStopped, WorkerGone, ghosts, Current
<1>3. ~available'
  BY <1>1, <1>2, UnavailableOK
<1>4. Drops(posted', posted) /\ posted[1].type = "stopped" /\ Head(posted) = posted[1]
  BY <1>1, <1>2, HearOK
<1>5. transport.epoch = client.epoch /\ transport.process = "none"
  BY <1>1, <1>2, <1>4 DEF Epochs, PostedOK, Life, Drops
<1>6. DOMAIN jobs' = {} /\ active' = 0 /\ TasksSame
  BY <1>1, <1>2, UnavailableJobs
<1>7. JobsLive' /\ Deliveries' /\ Homed'
  BY <1>2, <1>6, GoneFlights
<1>8. Wires'
  BY <1>1, <1>2, <1>3, <1>4, <1>5, <1>6, <1>7, WiresLost
<1> QED BY <1>7, <1>8

\* A worker that says hello finds no request.
LEMMA HelloFlights == ASSUME Flights, HearsHello PROVE JobsLive' /\ Deliveries' /\ Wires'
<1>1. /\ Tables /\ Epochs /\ JobsLive /\ Wires /\ IsSeq(posted)
  BY DEF Flights, Epochs, PostedOK
<1>2. /\ UNCHANGED <<frames, asked, jobs, active>> /\ NextPosted("hello")
      /\ Head(posted).epoch = client.epoch /\ deferred' \subseteq deferred \union {Pumping}
  BY DEF HearsHello, WorkerGone, ghosts, Current, SetAvailable, table
<1>3. Drops(posted', posted) /\ posted[1].type = "hello" /\ Head(posted) = posted[1]
  BY <1>1, <1>2, HearOK
<1>4. ~available
  BY <1>1, <1>2, <1>3 DEF Epochs, Life, Hello, Drops
<1>5. active = 0 /\ DOMAIN jobs = {}
  BY <1>1, <1>4, WireFacts
<1>6. TasksSame
  BY <1>2, NoDeliveries DEF TasksSame
<1>7. JobsLive' /\ Deliveries'
  <2>1. DOMAIN jobs' = {}
    BY <1>2, <1>5
  <2> QED BY <1>2, <1>6, <2>1, GoneFlights
<1>8. Wires'
  BY <1>1, <1>5, WiresHello
<1> QED BY <1>7, <1>8

\* What a request makes of a worker is one.
LEMMA WorkerMade ==
    ASSUME NEW w, IsWorker(w)
    PROVE  /\ IsWorker(Opened(w)) /\ IsWorker(Did(w)) /\ IsWorker(Edited(w))
           /\ IsWorker([Edited(w) EXCEPT !.analyzed = FALSE])
           /\ IsWorker(Analyzed(w)) /\ \A v \in LaidOut(w) : IsWorker(v)
<1>1. IsWorker(Opened(w)) /\ IsWorker(Did(w)) /\ IsWorker(Analyzed(w))
  BY DEF Opened, Did, Analyzed, IsWorker, WorkerFields
<1>2. ASSUME NEW v, IsWorker(v)
      PROVE  /\ IsWorker([v EXCEPT !.analyzed = FALSE]) /\ IsWorker([v EXCEPT !.revision = @ + 1, !.graph = 0])
             /\ \A g : IsWorker([v EXCEPT !.graph = g])
  BY <1>2 DEF IsWorker, WorkerFields
<1>3. IsWorker(Edited(w))
  BY <1>1, <1>2 DEF Edited
<1>4. IsWorker([Edited(w) EXCEPT !.analyzed = FALSE])
  BY <1>2, <1>3
<1>5. \A v \in LaidOut(w) : IsWorker(v)
  <2>1. CASE w.graph # 0
    BY <2>1 DEF LaidOut
  <2>2. CASE w.graph = 0
    <3> DEFINE g == w.revision
    <3>1. \A v \in {w, Analyzed(w)} : IsWorker([v EXCEPT !.graph = g])
      BY <1>1, <1>2
    <3>2. LaidOut(w) = {[v EXCEPT !.graph = g] : v \in {w, Analyzed(w)}}
      BY <2>2 DEF LaidOut
    <3> HIDE DEF g
    <3> QED BY <3>1, <3>2
  <2> QED BY <2>1, <2>2
<1> QED BY <1>1, <1>3, <1>4, <1>5

\* So is what any outcome leaves.
LEMMA OutcomeWorker == ASSUME NEW w, IsWorker(w), NEW o \in Outcomes(w) PROVE IsWorker(o[1])
<1>1. /\ IsWorker(Opened(w)) /\ IsWorker(Did(w)) /\ IsWorker(Edited(w))
      /\ IsWorker([Edited(w) EXCEPT !.analyzed = FALSE])
      /\ IsWorker(Analyzed(w)) /\ \A v \in LaidOut(w) : IsWorker(v)
  BY WorkerMade
<1> DEFINE s == [Edited(w) EXCEPT !.analyzed = FALSE]
<1>2. IsWorker(s)
  BY <1>1
<1> DEFINE made == {w, Opened(w), Did(w), Edited(w), Analyzed(w), s} \union LaidOut(w)
<1>3. \A v \in made : IsWorker(v)
  BY <1>1, <1>2
<1>4. \E v \in made : \E code : o = <<v, code>>
  <2> HIDE DEF s
  <2>1. CASE w.request.expected # w.revision
    BY <2>1 DEF Outcomes
  <2>2. CASE w.request.expected = w.revision /\ w.request.op = "open"
    BY <2>2 DEF Outcomes
  <2>3. CASE w.request.expected = w.revision /\ w.request.op # "open"
    BY <2>3 DEF Outcomes, s
  <2> QED BY <2>1, <2>2, <2>3
<1> HIDE DEF made
<1> QED BY <1>3, <1>4

\* Elsewhere nothing happens to the jobs.
LEMMA AwayFlights ==
    ASSUME Flights, Elsewhere, client'.nextRequest = client.nextRequest
    PROVE  JobsLive' /\ Deliveries' /\ Away
<1>1. UNCHANGED <<jobs, active, frames, available, asked, deferred>>
  BY DEF Elsewhere, serviceVars, table, session, ghosts
<1>2. JobsLive'
  BY <1>1 DEF Flights, JobsLive, Waits, Aloft
<1>3. Deliveries'
  BY <1>1 DEF Flights, Deliveries, TaskOK, HeldOK
<1> QED BY <1>1, <1>2, <1>3 DEF Away

\* The worker does not take a request while it has one.
OneRequest == Busy /\ Busy' => worker'.request = worker.request

\* The transport's steps.
LEMMA TransportFlights == ASSUME Flights, Transport PROVE JobsLive' /\ Deliveries' /\ Wires' /\ OneRequest
<1>1. Tables /\ Epochs /\ JobsLive /\ Wires /\ IsClient(client) /\ WorkerOK /\ IsWorker(worker) /\ Elsewhere
  BY ElsewhereOnly DEF Flights, Epochs, ClientOK, Wires, WorkerOK
<1>2. (Wire # 0 => available) /\ (active # 0 => available)
  BY <1>1, WireFacts
<1>3. ASSUME NEW name, NextCall(name) PROVE JobsLive' /\ Deliveries' /\ Away
  <2>1. client'.nextRequest = client.nextRequest
    BY <1>1, <1>3, NextCallOK
  <2> QED BY <1>1, <2>1, AwayFlights
<1>4. CASE Starts \/ Stops
  <2>1. (TransportStart \/ TransportStop) /\ worker' = FreshWorker
    BY <1>4 DEF Starts, Stops
  <2>2. JobsLive' /\ Deliveries' /\ Away
    BY <1>3, <2>1 DEF TransportStart, TransportStop
  <2>3. Wires'
    BY <1>1, <1>2, <2>1, <2>2, WiresBoundary
  <2>4. OneRequest
    BY <2>1 DEF OneRequest, Busy, FreshWorker
  <2> QED BY <2>2, <2>3, <2>4
<1>5. ASSUME NextCall("send"), UNCHANGED transport, IsWorker(worker'), worker'.request = worker.request,
             NEW m, Post(m), m.type = "response", m.epoch = transport.epoch,
             m.id = client.calls[1].id, m.code # "progress"
      PROVE  JobsLive' /\ Deliveries' /\ Wires' /\ OneRequest
  <2>1. JobsLive' /\ Deliveries' /\ Away
    BY <1>3, <1>5
  <2>2. Wires'
    BY <1>1, <1>5, <2>1, WiresTake
  <2> QED BY <1>5, <2>1, <2>2 DEF OneRequest
<1>6. ASSUME NextCall("send") PROVE Head(client.calls) = client.calls[1] /\ client.calls[1].call = "send"
  BY <1>1, <1>6, TakeSend
<1>7. CASE Refuses \/ Fills
  <2> DEFINE call == Head(client.calls)
  <2>1. PICK code \in {"transport_unavailable", "queue_full"} :
           NextCall("send") /\ UNCHANGED <<transport, worker>> /\ Post(Unsent(call.id, code))
    BY <1>7 DEF Refuses, Fills, TransportUnavailable, TransportFull
  <2> DEFINE m == Unsent(call.id, code)
  <2>2. /\ m.type = "response" /\ m.epoch = transport.epoch /\ m.id = client.calls[1].id
        /\ m.code # "progress"
    BY <1>6, <2>1 DEF Unsent
  <2>3. Post(m) /\ IsWorker(worker') /\ worker'.request = worker.request
    BY <1>1, <2>1
  <2> HIDE DEF m
  <2> QED BY <1>5, <2>1, <2>2, <2>3
<1>8. CASE WorkerReads
  <2> DEFINE call == client.calls[1]
  <2>1. NextCall("send") /\ UNCHANGED transport /\ transport.process = "running" /\ Head(client.calls) = call
        /\ call.call = "send"
    BY <1>6, <1>8 DEF WorkerReads, TransportWrite
  <2>2. CASE call.request.op = "cancel"
    <3> DEFINE m == Reply(worker, call.id, "cancel", "ok")
               r == worker.recalled \/ worker.request.id = call.request.target
    <3>1. worker' = [worker EXCEPT !.recalled = r] /\ Post(m)
      BY <1>8, <2>1, <2>2 DEF WorkerReads
    <3>2. m.type = "response" /\ m.epoch = transport.epoch /\ m.id = call.id /\ m.code # "progress"
      BY DEF Reply
    <3> HIDE DEF m, r
    <3>3. IsWorker(worker') /\ worker'.request = worker.request
      BY <1>1, <3>1 DEF IsWorker, WorkerFields
    <3> QED BY <1>5, <2>1, <3>1, <3>2, <3>3
  <2>3. CASE call.request.op # "cancel"
    <3> DEFINE r == Extended(call.request, "id", call.id)
    <3>1. worker' = [worker EXCEPT !.request = r] /\ UNCHANGED posted
      BY <1>8, <2>1, <2>3 DEF WorkerReads
    <3>2. Real(client.calls[1])
      BY <2>1, <2>3 DEF Real
    <3> HIDE DEF r
    <3>3. IsWorker(worker') /\ worker'.request = r
      BY <1>1, <3>1 DEF IsWorker, WorkerFields
    <3>4. worker'.request = Extended(client.calls[1].request, "id", client.calls[1].id)
      BY <3>3 DEF r
    <3>5. JobsLive' /\ Deliveries' /\ Away
      BY <1>3, <2>1
    <3>6. Wires' /\ ~Busy
      BY <1>1, <2>1, <3>1, <3>2, <3>3, <3>4, <3>5, WiresRead
    <3> QED BY <3>5, <3>6 DEF OneRequest
  <2> QED BY <2>2, <2>3
<1> QED BY <1>4, <1>7, <1>8 DEF Transport

\* The worker's.
LEMMA ProcessFlights ==
    ASSUME Flights, Process \/ UNCHANGED vars
    PROVE  JobsLive' /\ Deliveries' /\ Wires' /\ OneRequest
<1>1. Tables /\ Epochs /\ JobsLive /\ Wires /\ WorkerOK /\ IsWorker(worker) /\ TransportOK
  BY DEF Flights, Epochs, Wires, WorkerOK
<1>2. (Wire # 0 => available)
  BY <1>1, WireFacts
<1>3. UNCHANGED client
  BY DEF Process, SaysHello, SaysFatal, Exits, ProcessStarted, ProcessExits, WorkerAnswers,
         WorkerProgress, WorkerDiscovers, WorkerBeats, vars, clientVars
<1>4. JobsLive' /\ Deliveries' /\ Away
  <2>1. Elsewhere
    BY ElsewhereOnly DEF Elsewhere, vars
  <2> QED BY <1>3, <2>1, AwayFlights
<1>5. CASE SaysHello
  <2>1. UNCHANGED worker /\ ProcessStarted("hello")
    BY <1>5 DEF SaysHello
  <2>2. Wires'
    BY <1>1, <1>2, <1>4, <2>1, WiresBegin
  <2> QED BY <1>4, <2>1, <2>2 DEF OneRequest
<1>6. ASSUME transport'.epoch = transport.epoch, Lost => Lost', IsWorker(worker'),
             worker'.request = Idle \/ worker'.request = worker.request,
             Busy' => transport'.process = "running",
             UNCHANGED posted \/ \E m : Post(m) /\ Aside1(m)
      PROVE  JobsLive' /\ Deliveries' /\ Wires' /\ OneRequest
  <2>1. Wires'
    BY <1>1, <1>3, <1>4, <1>6, WiresSpeak
  <2>2. OneRequest
    BY <1>6 DEF OneRequest, Busy
  <2> QED BY <1>4, <2>1, <2>2
<1>7. IsWorker(FreshWorker) /\ FreshWorker.request = Idle
  BY DEF IsWorker, FreshWorker, WorkerFields
<1>8. UNCHANGED available
  BY <1>4 DEF Away
<1>9. CASE SaysFatal
  <2> DEFINE m == [type |-> "fatal", epoch |-> transport.epoch]
  <2>1. /\ UNCHANGED worker /\ transport.process = "starting"
        /\ transport' = [transport EXCEPT !.process = "running"] /\ Post(m)
    BY <1>9 DEF SaysFatal, ProcessStarted
  <2>2. Aside1(m)
    BY DEF Aside1
  <2> HIDE DEF m
  <2>3. transport'.epoch = transport.epoch /\ transport'.process = "running" /\ ~Lost
    BY <1>1, <2>1 DEF TransportOK, Lost
  <2> QED BY <1>1, <1>6, <2>1, <2>2, <2>3
<1>10. CASE Exits
  <2>1. worker' = FreshWorker /\ transport' = [transport EXCEPT !.process = "none"] /\ Post(Stopped)
    BY <1>10 DEF Exits, ProcessExits
  <2>2. Aside1(Stopped)
    BY DEF Aside1, Stopped
  <2>3. transport'.epoch = transport.epoch /\ transport'.process = "none"
    BY <1>1, <2>1 DEF TransportOK
  <2>4. Lost => Lost'
    BY <1>3, <1>8, <2>3 DEF Lost
  <2>5. ~Busy'
    BY <1>7, <2>1 DEF Busy
  <2> QED BY <1>6, <1>7, <2>1, <2>2, <2>3, <2>4, <2>5
<1>11. ASSUME UNCHANGED transport
       PROVE  transport'.epoch = transport.epoch /\ (Lost => Lost')
  BY <1>3, <1>8, <1>11 DEF Lost
<1>12. CASE WorkerAnswers
  <2>1. UNCHANGED transport /\ Busy
    BY <1>12 DEF WorkerAnswers, Busy
  <2>2. PICK outcome \in Outcomes(worker) \union {<<worker, "cancelled">>} :
           /\ worker' = [outcome[1] EXCEPT !.request = Idle, !.recalled = FALSE]
           /\ \E code : Post(Reply(outcome[1], worker.request.id, worker.request.op, code))
    BY <1>12 DEF WorkerAnswers
  <2>0. PICK code : Post(Reply(outcome[1], worker.request.id, worker.request.op, code))
    BY <2>2
  <2> DEFINE w == outcome[1]
             m == Reply(w, worker.request.id, worker.request.op, code)
  <2>3. IsWorker(w)
    BY <1>1, <2>2, OutcomeWorker
  <2>4. /\ Post(m) /\ m.type = "response" /\ m.epoch = transport.epoch /\ m.id = worker.request.id
        /\ m.op = worker.request.op
    BY <2>0 DEF Reply
  <2>5. worker' = [w EXCEPT !.request = Idle, !.recalled = FALSE]
    BY <2>2
  <2> HIDE DEF m, w
  <2>6. IsWorker(worker') /\ worker'.request = Idle
    BY <2>3, <2>5 DEF IsWorker, WorkerFields
  <2>7. Wires'
    BY <1>1, <1>2, <1>3, <1>4, <2>1, <2>4, <2>6, WiresAnswer
  <2>8. OneRequest
    BY <2>6 DEF OneRequest, Busy
  <2> QED BY <1>4, <2>7, <2>8
<1>13. CASE WorkerProgress
  <2> DEFINE m == Reply(worker, worker.request.id, "open", "progress")
  <2>1. UNCHANGED <<transport, worker>> /\ Busy /\ worker.request.op = "open" /\ Post(m)
    BY <1>13 DEF WorkerProgress, Busy
  <2>2. m.type = "response" /\ m.id = worker.request.id /\ m.op = worker.request.op /\ m.code = "progress"
    BY <2>1 DEF Reply
  <2>3. /\ m.id \in Nat /\ m.id <= client.nextRequest /\ transport.process = "running"
    BY <1>1, <2>1, <2>2 DEF WorkerOK
  <2>4. Wire # 0 => m.op = WireOp
    BY <1>1, <1>2, <2>1, <2>2 DEF Wires, Flight
  <2> HIDE DEF m
  <2>5. Aside1(m)
    BY <2>2, <2>3, <2>4 DEF Aside1
  <2> QED BY <1>1, <1>6, <1>11, <2>1, <2>3, <2>5
<1>14. CASE WorkerDiscovers
  <2>1. UNCHANGED <<transport, posted>> /\ worker.request = Idle
    BY <1>14 DEF WorkerDiscovers, clientVars
  <2>2. PICK graph : worker' = [worker EXCEPT !.gen = @ + 1, !.graph = graph]
    BY <1>14 DEF WorkerDiscovers
  <2>3. IsWorker(worker') /\ worker'.request = Idle
    BY <1>1, <2>1, <2>2 DEF IsWorker, WorkerFields
  <2> QED BY <1>6, <1>11, <2>1, <2>3 DEF Busy
<1>15. CASE WorkerBeats
  <2>1. UNCHANGED <<transport, worker>> /\ transport.process = "running"
    BY <1>15 DEF WorkerBeats
  <2>2. PICK gen : Post([type |-> "heartbeat", epoch |-> transport.epoch,
                         of |-> <<worker.project, worker.revision>>, gen |-> gen])
    BY <1>15 DEF WorkerBeats
  <2> DEFINE m == [type |-> "heartbeat", epoch |-> transport.epoch,
                   of |-> <<worker.project, worker.revision>>, gen |-> gen]
  <2>3. Post(m) /\ Aside1(m)
    BY <2>2 DEF Aside1
  <2> HIDE DEF m
  <2> QED BY <1>1, <1>6, <1>11, <2>1, <2>3
<1>16. CASE UNCHANGED vars
  <2>1. UNCHANGED <<transport, worker, posted>>
    BY <1>16 DEF vars, clientVars
  <2>2. Busy' => transport'.process = "running"
    BY <1>1, <2>1 DEF WorkerOK, Busy
  <2> QED BY <1>1, <1>6, <1>11, <2>1, <2>2
<1> QED BY <1>5, <1>9, <1>10, <1>12, <1>13, <1>14, <1>15, <1>16 DEF Process

\* Every step keeps the requests apart.
LEMMA RequestsStep == ASSUME Flights, [Next]_vars PROVE JobsLive' /\ Deliveries' /\ Wires' /\ OneRequest
<1>1. CASE Transport
  BY <1>1, TransportFlights
<1>2. CASE Process \/ UNCHANGED vars
  BY <1>2, ProcessFlights
<1>3. CASE Users
  <2>1. UNCHANGED worker
    BY <1>3 DEF Users, Asks, Withdraws, Restart, OpenStartsWorker, WorkerGone
  <2>2. JobsLive' /\ Deliveries' /\ Wires'
    BY <1>3, AskFlights, DetachFlights, LeavingFlights DEF Users
  <2> QED BY <2>1, <2>2 DEF OneRequest
<1>4. CASE EventLoop
  <2>1. UNCHANGED worker
    BY <1>4 DEF EventLoop, Pumps, Rejects, Announces, TellsRetired, Delivers, ResumesReceive,
       TellsNext,
                EndsDelivery, Unheard, HearsHello, HearsFatal, HearsStopped, HearsHeartbeat, HearsReply,
                Aside, WorkerGone
  <2>2. CASE Pumps \/ Delivers \/ ResumesReceive \/ TellsNext \/ EndsDelivery \/ HearsReply
    BY <2>1, <2>2, PumpFlights, DeliverFlights, ContextFlights, TellFlights, EndFlights,
       ReplyFlights
       DEF OneRequest
  <2>3. CASE Rejects \/ Announces \/ TellsRetired \/ Unheard \/ HearsHeartbeat
    BY <2>1, <2>3, IdleFlights DEF OneRequest
  <2>4. CASE HearsHello \/ HearsFatal \/ HearsStopped
    BY <2>1, <2>4, HelloFlights, LeavingFlights, StoppedFlights DEF OneRequest
  <2> QED BY <1>4, <2>2, <2>3, <2>4 DEF EventLoop
<1> QED BY <1>1, <1>2, <1>3, <1>4 DEF Next

\* At first nothing flies.
LEMMA RequestsInit == ASSUME Init \/ OpenedInit PROVE JobsLive /\ Deliveries /\ Wires
<1>1. DOMAIN <<>> = {} /\ IsSeq(<<>>)
  BY EmptySeqOK
<1>2. /\ jobs = <<>> /\ active = 0 /\ frames = <<>> /\ deferred = {} /\ posted = <<>>
      /\ IsWorker(worker) /\ worker.request = Idle
      /\ (client = Start(NewClient) \/ client.calls = <<>>)
  <2>1. IsWorker(FreshWorker) /\ FreshWorker.request = Idle
    BY DEF IsWorker, FreshWorker, WorkerFields
  <2>2. CASE Init
    BY <2>1, <2>2 DEF Init, ServiceInit
  <2>3. CASE OpenedInit
    <3>1. /\ jobs = <<>> /\ active = 0 /\ frames = <<>> /\ deferred = {} /\ posted = <<>>
          /\ client = [epoch |-> 1, nextRequest |-> 1, calls |-> <<>>]
          /\ worker = [FreshWorker EXCEPT !.project = 1, !.revision = 1, !.done = <<1>>]
      BY <2>3 DEF OpenedInit
    <3>2. IsWorker(worker) /\ worker.request = Idle
      BY <2>1, <3>1 DEF IsWorker, WorkerFields
    <3> QED BY <3>1, <3>2
  <2> QED BY <2>2, <2>3
<1>3. Spread(client.calls) /\ NoReal(client.calls)
  <2>1. CASE client = Start(NewClient)
    <3> DEFINE c == NewClient
    <3>1. IsClient(c) /\ Spread(c.calls) /\ NoReal(c.calls)
      BY <1>1 DEF NewClient, IsClient, Spread, NoReal
    <3>2. client = Start(c)
      BY <2>1
    <3> HIDE DEF c
    <3>3. Posts(client, c, StartOf(c))
      BY <3>1, <3>2, StartOK
    <3>4. ~Real(StartOf(c))
      BY DEF Real, StartOf
    <3> DEFINE k == client.calls
               s == c.calls
               x == StartOf(c)
    <3>5. Adds(k, s, x) /\ Spread(s) /\ NoReal(s) /\ ~Real(x)
      BY <3>1, <3>3, <3>4 DEF Posts
    <3> HIDE DEF k, s, x
    <3>6. Spread(k) /\ NoReal(k)
      BY <3>5, AddsCalls
    <3> QED BY <3>6 DEF k
  <2>2. CASE client.calls = <<>>
    BY <1>1, <2>2 DEF Spread, NoReal
  <2> QED BY <1>2, <2>1, <2>2
<1>4. ~Busy /\ Wire = 0
  BY <1>2 DEF Busy, Wire
<1>5. JobsLive /\ Deliveries
  BY <1>1, <1>2 DEF JobsLive, Deliveries
<1>6. WorkerOK /\ Flight /\ Resuming
  BY <1>1, <1>2, <1>4 DEF WorkerOK, Flight, Resuming
<1>7. Ids /\ Apart
  <2>1. \A n \in DOMAIN client.calls : client.calls[n].call = "send" /\ ~Real(client.calls[n]) => client.calls[n].id # Wire
    <3>1. CASE client = Start(NewClient)
      <4> DEFINE c == NewClient
      <4>1. IsClient(c) /\ c.calls = <<>>
        BY <1>1 DEF NewClient, IsClient
      <4>2. client = Start(c)
        BY <3>1
      <4> HIDE DEF c
      <4>3. Posts(client, c, StartOf(c))
        BY <4>1, <4>2, StartOK
      <4>4. \A n \in DOMAIN client.calls : client.calls[n] = StartOf(c)
        BY <1>1, <4>1, <4>3 DEF Posts, Adds
      <4> QED BY <4>4 DEF StartOf
    <3>2. CASE client.calls = <<>>
      BY <1>1, <3>2
    <3> QED BY <1>2, <3>1, <3>2
  <2> QED BY <1>1, <1>2, <1>3, <1>4, <2>1 DEF Ids, Apart, NoReal
<1> QED BY <1>5, <1>6, <1>7 DEF Wires

\* The whole of it.
LEMMA FlightsStep == ASSUME Flights, [Next]_vars PROVE Flights' /\ OneRequest
<1>1. Tables /\ Epochs
  BY DEF Flights
<1>2. Tables' /\ Epochs'
  BY <1>1, TablesStep, EpochsStep
<1>3. JobsLive' /\ Deliveries' /\ Wires' /\ OneRequest
  BY RequestsStep
<1> QED BY <1>2, <1>3 DEF Flights

\* The worker never holds two requests of the service: over the two requests
\* of a graph, recalled reads, lost workers, restarts and calls that overtake
\* one another's replies.
THEOREM NeverTwoRequests == Spec \/ OpenedSpec => OneRequestAtATime
<1>1. Init \/ OpenedInit => Flights
  BY TablesInit, EpochsInit, RequestsInit DEF Flights
<1>2. Flights /\ [Next]_vars => Flights'
  BY FlightsStep
<1>3. Flights /\ [Next]_vars =>
         [worker.request # Idle /\ worker'.request # Idle => worker'.request = worker.request]_vars
  BY FlightsStep DEF OneRequest, Busy
<1> QED BY <1>1, <1>2, <1>3, PTL DEF Spec, OpenedSpec, OneRequestAtATime
=============================================================================
