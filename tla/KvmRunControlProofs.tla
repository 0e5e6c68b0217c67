------------------------- MODULE KvmRunControlProofs -------------------------
(***************************************************************************)
(* Proofs about KvmRunControl, for any set of callers.                     *)
(***************************************************************************)
EXTENDS KvmRunControl, TLAPS

Serving == kind \in {"run", "loop"}

\* At most one caller is inside, and where it is says what the worker, the
\* request and the borrowed control may be.
OneInside == \A c, d \in Caller : phase[c] # "out" /\ phase[d] # "out" => c = d

Starting(c) ==
    phase[c] = "starting" =>
        /\ thread \in {"starting", "up", "unable"} /\ at = "idle" /\ owner = NoCaller
        /\ (kind = "create" /\ ~running /\ ~alive) \/ (Serving /\ running)

Waiting(c) ==
    phase[c] = "waiting" =>
        /\ Serving /\ running /\ owner = c
        /\ IF completed THEN /\ at = "idle" /\ ~requested
                             /\ thread = IF cancel THEN "over" ELSE "up"
                        ELSE thread = "up" /\ (requested <=> at = "idle")

Joining(c) ==
    phase[c] = "joining" =>
        \/ /\ kind = "destroy" /\ ~running /\ ~alive /\ owner = NoCaller
           /\ thread \in {"up", "over"} /\ at = "idle" /\ shutdown /\ ~kicked
        \/ Serving /\ running /\ owner = c /\ thread = "over" /\ at = "idle" /\ cancel

Classifying(c) ==
    phase[c] = "classify" =>
        /\ Serving /\ running /\ owner = NoCaller
        /\ thread \in {"none", "up"} /\ at = "idle"

Placed(c) == Starting(c) /\ Waiting(c) /\ Joining(c) /\ Classifying(c)

\* What holds wherever the callers are.
Bound ==
    /\ running => \E c \in Caller : phase[c] # "out"
    /\ owner # NoCaller => phase[owner] \in {"waiting", "joining"}
    /\ requested => owner # NoCaller /\ phase[owner] = "waiting" /\ ~completed
    /\ at # "idle" => thread = "up" /\ owner # NoCaller /\ phase[owner] = "waiting"
    /\ thread \in {"starting", "unable", "over"} => \E c \in Caller : phase[c] # "out"
    /\ shutdown => \E c \in Caller : phase[c] = "joining" /\ kind = "destroy"
    /\ kicked => cancel /\ owner # NoCaller

\* The loop, and the native entries it makes.
Loops ==
    /\ at \in Looping \union {"owned"} => looping
    /\ looping => kind = "loop"
    /\ nativeActive <=> looping /\ at \in Within \union {"release"}
    /\ at = "owned" => entry \in {"transfer", "failed", "interrupted", "ok"}
    /\ at = "release" => entry \in {"transfer", "failed", "interrupted", "ok", "completion"}

\* A cancelled run is overdue, and an interrupted entry too.
Timely ==
    /\ late => past
    /\ owner # NoCaller /\ cancel => IF looping THEN (stop \/ late) /\ at # "admit" ELSE stop \/ past
    /\ at = "owned" /\ entry = "interrupted" => stop \/ late
    /\ at = "publish" /\ entry = "interrupted" => ~looping /\ (stop \/ past)
    /\ \A c \in Caller :
          /\ phase[c] = "classify" /\ cancel => stop \/ past
          /\ (phase[c] = "classify" \/ (owner = c /\ completed)) /\ result = "interrupted" => stop \/ past

Founded == entry # "unfounded" /\ result # "unfounded" /\ reply # "unfounded"

IInv == TypeOK /\ OneInside /\ (\A c \in Caller : Placed(c)) /\ Bound /\ Loops /\ Timely /\ Founded

-----------------------------------------------------------------------------
(* Every step keeps the invariant.                                         *)

\* create makes the worker thread when nobody is inside.
LEMMA CreatesKeeps ==
    ASSUME IInv, NEW c \in Caller, Creates(c)
    PROVE  IInv'
<1>1. TypeOK'
  BY DEF IInv, TypeOK, RequestOK, CancelOK, TimeOK, WorkerOK, CallersOK, Creates,
     Goes, flags, time, Threads
<1>2. OneInside'
  BY DEF IInv, OneInside, Creates, Goes, Quiet
<1>3. (\A d \in Caller : Placed(d))'
  BY DEF IInv, TypeOK, CallersOK, Placed, Starting, Waiting, Joining, Classifying,
     Bound, Creates, Goes, Quiet, flags
<1>4. Bound'
  BY DEF IInv, TypeOK, CallersOK, Bound, Creates, Goes, Quiet, flags
<1>5. Loops'
  BY DEF IInv, TypeOK, CallersOK, Bound, Loops, Creates, Quiet
<1>6. Timely'
  BY DEF IInv, Timely, Creates, Goes, flags, time
<1>7. Founded'
  BY DEF IInv, Founded, Creates, flags
<1> QED
  BY <1>1, <1>2, <1>3, <1>4, <1>5, <1>6, <1>7 DEF IInv

\* The destructor asks the worker to end when nobody is inside.
LEMMA DestroysKeeps ==
    ASSUME IInv, NEW c \in Caller, Destroys(c)
    PROVE  IInv'
<1>1. TypeOK'
  <2>1. RequestOK'
    BY DEF IInv, TypeOK, RequestOK, Destroys
  <2>2. CancelOK'
    BY Zenon DEF IInv, TypeOK, CancelOK, Destroys, worker
  <2>3. TimeOK'
    BY DEF IInv, TypeOK, TimeOK, Destroys, time
  <2>4. WorkerOK'
    BY DEF IInv, TypeOK, WorkerOK, Destroys, worker
  <2>5. CallersOK'
    BY DEF IInv, TypeOK, CallersOK, Destroys, Goes
  <2>6. (looping => owner # NoCaller)'
    BY DEF IInv, TypeOK, Destroys
  <2> QED
    BY <2>1, <2>2, <2>3, <2>4, <2>5, <2>6 DEF TypeOK
<1>2. OneInside'
  BY DEF IInv, TypeOK, CallersOK, OneInside, Destroys, Goes, Quiet
<1>3. (\A d \in Caller : Placed(d))'
  BY DEF IInv, TypeOK, WorkerOK, CallersOK, Placed, Starting, Waiting, Joining,
     Classifying, Bound, Destroys, Goes, Quiet, worker, Threads
<1>4. Bound'
  BY DEF IInv, TypeOK, CallersOK, Bound, Destroys, Goes, Quiet, worker
<1>5. Loops'
  BY DEF IInv, TypeOK, CallersOK, Bound, Loops, Destroys, Quiet, worker
<1>6. Timely'
  BY DEF IInv, TypeOK, CallersOK, Timely, Destroys, Goes, worker, time
<1>7. Founded'
  BY DEF IInv, Founded, Destroys, worker
<1> QED
  BY <1>1, <1>2, <1>3, <1>4, <1>5, <1>6, <1>7 DEF IInv

\* A call while a run is under way changes nothing but its own reply.
LEMMA RefusedKeeps ==
    ASSUME IInv, NEW c \in Caller, Refused(c)
    PROVE  IInv'
<1>1. TypeOK'
  BY DEF IInv, TypeOK, RequestOK, CancelOK, TimeOK, WorkerOK, CallersOK, Refused,
     worker, flags, time
<1>2. OneInside'
  BY DEF IInv, OneInside, Refused
<1>3. (\A d \in Caller : Placed(d))'
  BY DEF IInv, Placed, Starting, Waiting, Joining, Classifying, Serving, Refused,
     worker, flags
<1>4. Bound'
  BY DEF IInv, Bound, Refused, worker, flags
<1>5. Loops'
  BY DEF IInv, Loops, Refused, worker
<1>6. Timely'
  BY DEF IInv, Timely, Refused, worker, flags, time
<1>7. Founded'
  BY DEF IInv, Founded, Refused, worker, flags
<1> QED
  BY <1>1, <1>2, <1>3, <1>4, <1>5, <1>6, <1>7 DEF IInv

\* A run whose control is already interrupted changes nothing but its own reply.
LEMMA TooLateKeeps ==
    ASSUME IInv, NEW c \in Caller, TooLate(c)
    PROVE  IInv'
<1>1. TypeOK'
  BY DEF IInv, TypeOK, RequestOK, CancelOK, TimeOK, WorkerOK, CallersOK, TooLate,
     worker, flags, time, Outcomes
<1>2. OneInside'
  BY DEF IInv, OneInside, TooLate
<1>3. (\A d \in Caller : Placed(d))'
  BY DEF IInv, Placed, Starting, Waiting, Joining, Classifying, TooLate
<1>4. Bound'
  BY DEF IInv, Bound, TooLate, worker, flags
<1>5. Loops'
  BY DEF IInv, Loops, TooLate, worker
<1>6. Timely'
  BY DEF IInv, Timely, TooLate, worker, flags, time
<1>7. Founded'
  BY DEF IInv, Founded, TooLate, worker, flags
<1> QED
  BY <1>1, <1>2, <1>3, <1>4, <1>5, <1>6, <1>7 DEF IInv

\* A call of run or withExecutionOwner that is admitted finds everybody out: only
\* a caller of create or of the destructor could be inside with Running unset, and then
\* there is no controller to call.
LEMMA DispatchesKeeps ==
    ASSUME IInv, NEW c \in Caller, NEW call \in {"run", "loop"}, Dispatches(c, call)
    PROVE  IInv'
<1>1. TypeOK'
  <2>1. RequestOK'
    BY Zenon DEF IInv, TypeOK, RequestOK, Dispatches, SubmitsOrIgnored, Submits
  <2>2. CancelOK'
    BY Zenon DEF IInv, TypeOK, CancelOK, Dispatches, SubmitsOrIgnored, Submits
  <2>3. TimeOK'
    BY Zenon DEF TimeOK, Dispatches
  <2>4. WorkerOK'
    BY DEF IInv, TypeOK, WorkerOK, Dispatches, Threads
  <2>5. CallersOK'
    BY DEF IInv, TypeOK, CallersOK, Dispatches, SubmitsOrIgnored, Submits, Goes,
       Outcomes
  <2>6. (looping => owner # NoCaller)'
    BY Zenon, CallerAssumption DEF IInv, TypeOK, Dispatches, SubmitsOrIgnored, Submits
  <2> QED
    BY <2>1, <2>2, <2>3, <2>4, <2>5, <2>6 DEF TypeOK
<1>2. OneInside'
  BY DEF IInv, TypeOK, CallersOK, OneInside, Placed, Starting, Waiting, Joining,
     Classifying, Dispatches, SubmitsOrIgnored, Submits, Goes
<1>3. (\A d \in Caller : Placed(d))'
  BY DEF IInv, TypeOK, WorkerOK, CallersOK, Placed, Starting, Waiting, Joining,
     Classifying, Serving, Bound, Dispatches, SubmitsOrIgnored, Submits, Goes, Threads
<1>4. Bound'
  BY CallerAssumption DEF IInv, TypeOK, CallersOK, Placed, Waiting, Joining, Bound,
     Dispatches, SubmitsOrIgnored, Submits, Goes
<1>5. Loops'
  BY DEF IInv, TypeOK, CancelOK, CallersOK, Placed, Waiting, Joining, Bound, Loops,
     Dispatches, SubmitsOrIgnored, Submits, Within
<1>6. Timely'
  BY CallerAssumption DEF IInv, TypeOK, CallersOK, Placed, Waiting, Joining,
     Classifying, Bound, Timely, Dispatches, SubmitsOrIgnored, Submits, Goes
<1>7. Founded'
  BY DEF IInv, Founded, Dispatches, SubmitsOrIgnored
<1> QED
  BY <1>1, <1>2, <1>3, <1>4, <1>5, <1>6, <1>7 DEF IInv

\* The caller goes on when the worker is ready, or gives up when it could not be made.
LEMMA StartedKeeps ==
    ASSUME IInv, NEW c \in Caller, Started(c)
    PROVE  IInv'
<1>1. TypeOK'
  <2>1. RequestOK'
    BY Zenon DEF IInv, TypeOK, RequestOK, Started, SubmitsOrIgnored, Submits
  <2>2. CancelOK'
    BY Zenon DEF IInv, TypeOK, CancelOK, Started, SubmitsOrIgnored, Submits
  <2>3. TimeOK'
    BY DEF IInv, TypeOK, TimeOK, Started, time
  <2>4. WorkerOK'
    BY DEF IInv, TypeOK, WorkerOK, Started, Threads
  <2>5. CallersOK'
    BY DEF IInv, TypeOK, CallersOK, Started, SubmitsOrIgnored, Submits, Goes, Outcomes
  <2>6. (looping => owner # NoCaller)'
    BY Zenon, CallerAssumption DEF IInv, TypeOK, Started, SubmitsOrIgnored, Submits
  <2> QED
    BY <2>1, <2>2, <2>3, <2>4, <2>5, <2>6 DEF TypeOK
<1>2. OneInside'
  BY DEF IInv, TypeOK, CallersOK, OneInside, Started, SubmitsOrIgnored, Submits, Goes
<1>3. (\A d \in Caller : Placed(d))'
  BY DEF IInv, TypeOK, CallersOK, OneInside, Placed, Starting, Waiting, Joining,
     Classifying, Serving, Started, SubmitsOrIgnored, Submits, Goes
<1>4. Bound'
  BY CallerAssumption DEF IInv, TypeOK, CallersOK, Placed, Starting, Serving, Bound,
     Started, SubmitsOrIgnored, Submits, Goes
<1>5. Loops'
  BY DEF IInv, TypeOK, CancelOK, CallersOK, OneInside, Bound, Loops, Started,
     SubmitsOrIgnored, Submits, Within
<1>6. Timely'
  BY DEF IInv, TypeOK, CallersOK, OneInside, Bound, Timely, Started, SubmitsOrIgnored,
     Submits, Goes, time
<1>7. Founded'
  BY DEF IInv, Founded, Started, SubmitsOrIgnored
<1> QED
  BY <1>1, <1>2, <1>3, <1>4, <1>5, <1>6, <1>7 DEF IInv

\* A caller cancels and kicks only a run that is overdue, and only its own.
LEMMA OwnerLooksKeeps ==
    ASSUME IInv, NEW c \in Caller, NEW sent \in BOOLEAN, OwnerLooks(c, sent)
    PROVE  IInv'
<1>1. TypeOK'
  BY DEF IInv, TypeOK, RequestOK, CancelOK, TimeOK, WorkerOK, CallersOK, OwnerLooks,
     Sent, callers, time
<1>2. OneInside'
  BY DEF IInv, OneInside, OwnerLooks, callers
<1>3. (\A d \in Caller : Placed(d))'
  BY DEF IInv, Placed, Starting, Waiting, Joining, Classifying, Serving, OwnerLooks,
     callers
<1>4. Bound'
  BY DEF IInv, Placed, Waiting, Bound, OwnerLooks, callers
<1>5. Loops'
  BY DEF IInv, Loops, OwnerLooks, callers
<1>6. Timely'
  BY DEF IInv, TypeOK, CancelOK, Loops, Timely, OwnerLooks, Active, Overdue, callers,
     time, Within
<1>7. Founded'
  BY DEF IInv, Founded, OwnerLooks, callers
<1> QED
  BY <1>1, <1>2, <1>3, <1>4, <1>5, <1>6, <1>7 DEF IInv

\* The caller sees the end of its run; a cancelled one is still to be joined.
LEMMA OwnerSeesKeeps ==
    ASSUME IInv, NEW c \in Caller, OwnerSees(c)
    PROVE  IInv'
<1>1. TypeOK'
  <2>1. RequestOK'
    BY Zenon DEF IInv, TypeOK, RequestOK, OwnerSees, Returned, flags
  <2>2. CancelOK'
    BY DEF IInv, TypeOK, CancelOK, OwnerSees, worker, flags
  <2>3. TimeOK'
    BY DEF IInv, TypeOK, TimeOK, OwnerSees, time
  <2>4. WorkerOK'
    BY DEF IInv, TypeOK, WorkerOK, OwnerSees, worker, flags
  <2>5. CallersOK'
    BY DEF IInv, TypeOK, CallersOK, OwnerSees, Goes, Returned
  <2>6. (looping => owner # NoCaller)'
    BY Zenon DEF IInv, TypeOK, OwnerSees, Returned
  <2> QED
    BY <2>1, <2>2, <2>3, <2>4, <2>5, <2>6 DEF TypeOK
<1>2. OneInside'
  BY DEF IInv, TypeOK, CallersOK, OneInside, OwnerSees, Goes
<1>3. (\A d \in Caller : Placed(d))'
  BY DEF IInv, TypeOK, CallersOK, Placed, Starting, Waiting, Joining, Classifying,
     Serving, OwnerSees, Over, Retires, Goes, Returned, worker, flags
<1>4. Bound'
  BY DEF IInv, TypeOK, CallersOK, Placed, Waiting, Bound, OwnerSees, Over, Retires,
     Goes, Returned, worker, flags
<1>5. Loops'
  BY DEF IInv, Placed, Waiting, Loops, OwnerSees, Over, Returned, worker, Within,
     Looping
<1>6. Timely'
  BY DEF IInv, TypeOK, CallersOK, Placed, Waiting, Timely, OwnerSees, Over, Retires,
     Goes, worker, flags, time
<1>7. Founded'
  BY DEF IInv, Founded, OwnerSees, worker, flags
<1> QED
  BY <1>1, <1>2, <1>3, <1>4, <1>5, <1>6, <1>7 DEF IInv

\* The join throws the pending kick away before anything borrowed is given back.
LEMMA JoinsKeeps ==
    ASSUME IInv, NEW c \in Caller, Joins(c)
    PROVE  IInv'
<1>1. TypeOK'
  <2>1. RequestOK'
    BY Zenon DEF IInv, TypeOK, RequestOK, Joins, Returned
  <2>2. CancelOK'
    BY Zenon DEF IInv, TypeOK, CancelOK, Joins
  <2>3. TimeOK'
    BY DEF IInv, TypeOK, TimeOK, Joins, time
  <2>4. WorkerOK'
    BY DEF IInv, TypeOK, WorkerOK, Joins, Threads
  <2>5. CallersOK'
    BY DEF IInv, TypeOK, CallersOK, Joins, Goes, Returned
  <2>6. (looping => owner # NoCaller)'
    BY Zenon DEF IInv, TypeOK, Joins, Returned
  <2> QED
    BY <2>1, <2>2, <2>3, <2>4, <2>5, <2>6 DEF TypeOK
<1>2. OneInside'
  BY DEF IInv, TypeOK, CallersOK, OneInside, Joins, Goes
<1>3. (\A d \in Caller : Placed(d))'
  BY DEF IInv, TypeOK, CallersOK, OneInside, Placed, Starting, Waiting, Joining,
     Classifying, Serving, Joins, Goes, Returned
<1>4. Bound'
  BY DEF IInv, TypeOK, CallersOK, Placed, Joining, Serving, Bound, Joins, Goes,
     Returned
<1>5. Loops'
  BY DEF IInv, Bound, Loops, Joins, Returned, Within, Looping
<1>6. Timely'
  BY CallerAssumption DEF IInv, TypeOK, CallersOK, Placed, Joining, Timely, Joins,
     Goes, Returned, time
<1>7. Founded'
  BY DEF IInv, Founded, Joins
<1> QED
  BY <1>1, <1>2, <1>3, <1>4, <1>5, <1>6, <1>7 DEF IInv

\* The reply is an interruption only where the control is still overdue.
LEMMA OwnerReturnsKeeps ==
    ASSUME IInv, NEW c \in Caller, OwnerReturns(c)
    PROVE  IInv'
<1>1. TypeOK'
  <2>1. RequestOK'
    BY Zenon DEF IInv, TypeOK, RequestOK, OwnerReturns
  <2>2. CancelOK'
    BY DEF IInv, TypeOK, CancelOK, OwnerReturns, worker
  <2>3. TimeOK'
    BY DEF IInv, TypeOK, TimeOK, OwnerReturns, time
  <2>4. WorkerOK'
    BY DEF IInv, TypeOK, WorkerOK, OwnerReturns, worker
  <2>5. CallersOK'
    BY DEF IInv, TypeOK, CallersOK, OwnerReturns, Reply, Goes, Outcomes
  <2>6. (looping => owner # NoCaller)'
    BY DEF IInv, TypeOK, OwnerReturns
  <2> QED
    BY <2>1, <2>2, <2>3, <2>4, <2>5, <2>6 DEF TypeOK
<1>2. OneInside'
  BY DEF IInv, OneInside, OwnerReturns, Goes
<1>3. (\A d \in Caller : Placed(d))'
  BY DEF IInv, TypeOK, CallersOK, OneInside, Placed, Starting, Waiting, Joining,
     Classifying, OwnerReturns, Goes
<1>4. Bound'
  BY DEF IInv, Placed, Classifying, Bound, OwnerReturns, Goes, worker
<1>5. Loops'
  BY DEF IInv, Loops, OwnerReturns, worker
<1>6. Timely'
  BY DEF IInv, Timely, OwnerReturns, worker, time
<1>7. Founded'
  BY DEF IInv, Timely, Founded, OwnerReturns, Reply, worker
<1> QED
  BY <1>1, <1>2, <1>3, <1>4, <1>5, <1>6, <1>7 DEF IInv

\* The worker thread comes up, or is unable to.
LEMMA InitializesKeeps ==
    ASSUME IInv, Initializes
    PROVE  IInv'
<1>1. TypeOK'
  BY DEF IInv, TypeOK, RequestOK, CancelOK, TimeOK, WorkerOK, CallersOK, Initializes,
     ElsewhereThan, callers, flags, time, Threads
<1>2. OneInside'
  BY DEF IInv, OneInside, Initializes, ElsewhereThan, callers
<1>3. (\A d \in Caller : Placed(d))'
  BY DEF IInv, Placed, Starting, Waiting, Joining, Classifying, Serving, Initializes,
     ElsewhereThan, callers, flags
<1>4. Bound'
  BY DEF IInv, Bound, Initializes, ElsewhereThan, callers, flags
<1>5. Loops'
  BY DEF IInv, Bound, Loops, Initializes, ElsewhereThan, callers
<1>6. Timely'
  BY DEF IInv, Timely, Initializes, ElsewhereThan, callers, flags, time
<1>7. Founded'
  BY DEF IInv, Founded, Initializes, ElsewhereThan, callers, flags
<1> QED
  BY <1>1, <1>2, <1>3, <1>4, <1>5, <1>6, <1>7 DEF IInv

\* The worker takes a request of the caller that waits for it, or ends.
LEMMA TakesKeeps ==
    ASSUME IInv, Takes
    PROVE  IInv'
<1>1. TypeOK'
  <2>1. RequestOK'
    BY Zenon DEF IInv, TypeOK, RequestOK, Takes, ElsewhereThan
  <2>2. CancelOK'
    BY DEF IInv, TypeOK, CancelOK, Takes, ElsewhereThan, callers
  <2>3. TimeOK'
    BY DEF IInv, TypeOK, TimeOK, Takes, ElsewhereThan, time
  <2>4. WorkerOK'
    BY DEF IInv, TypeOK, WorkerOK, Takes, Threads, Borrowing, Within, Looping,
       Outcomes
  <2>5. CallersOK'
    BY DEF IInv, TypeOK, CallersOK, Takes, ElsewhereThan, callers
  <2>6. (looping => owner # NoCaller)'
    BY DEF IInv, TypeOK, Takes, ElsewhereThan
  <2> QED
    BY <2>1, <2>2, <2>3, <2>4, <2>5, <2>6 DEF TypeOK
<1>2. OneInside'
  BY DEF IInv, OneInside, Takes, ElsewhereThan, callers
<1>3. (\A d \in Caller : Placed(d))'
  BY DEF IInv, Placed, Starting, Waiting, Joining, Classifying, Serving, Bound, Takes,
     ElsewhereThan, callers
<1>4. Bound'
  BY DEF IInv, Bound, Takes, Worker, ElsewhereThan, callers
<1>5. Loops'
  BY DEF IInv, Loops, Takes, Worker, ElsewhereThan, callers, Within, Looping
<1>6. Timely'
  BY DEF IInv, Timely, Takes, ElsewhereThan, callers, time
<1>7. Founded'
  BY DEF IInv, Founded, Takes, ElsewhereThan, callers
<1> QED
  BY <1>1, <1>2, <1>3, <1>4, <1>5, <1>6, <1>7 DEF IInv

\* Prepare is called for the caller that waits.
LEMMA PreparesKeeps ==
    ASSUME IInv, Prepares
    PROVE  IInv'
<1>1. TypeOK'
  BY DEF IInv, TypeOK, RequestOK, CancelOK, TimeOK, WorkerOK, CallersOK, Bound,
     Prepares, Worker, OnlyAt, Ends, Aside, ElsewhereThan, callers, flags, time,
     Borrowing, Within, Outcomes
<1>2. OneInside'
  BY DEF IInv, OneInside, Prepares, Aside, ElsewhereThan, callers
<1>3. (\A d \in Caller : Placed(d))'
  BY DEF IInv, Placed, Starting, Waiting, Joining, Classifying, Serving, Prepares,
     Worker, OnlyAt, Ends, Aside, ElsewhereThan, callers, flags
<1>4. Bound'
  BY DEF IInv, Bound, Prepares, Worker, OnlyAt, Ends, Aside, ElsewhereThan, callers,
     flags
<1>5. Loops'
  BY DEF IInv, Loops, Prepares, Worker, OnlyAt, Ends, Aside, ElsewhereThan, callers,
     Within, Looping
<1>6. Timely'
  BY DEF IInv, Timely, Prepares, OnlyAt, Ends, Aside, ElsewhereThan, callers, flags,
     time
<1>7. Founded'
  BY DEF IInv, Founded, Prepares, Ends, Aside, ElsewhereThan, callers, flags
<1> QED
  BY <1>1, <1>2, <1>3, <1>4, <1>5, <1>6, <1>7 DEF IInv

\* An entry is interrupted only by a cancel or by its own control.
LEMMA ChecksKeeps ==
    ASSUME IInv, Checks
    PROVE  IInv'
<1>1. TypeOK'
  BY DEF IInv, TypeOK, RequestOK, CancelOK, TimeOK, WorkerOK, CallersOK, Bound,
     Checks, Worker, OnlyAt, Ends, Aside, ElsewhereThan, callers, flags, time,
     Borrowing, Within, Outcomes
<1>2. OneInside'
  BY DEF IInv, OneInside, Checks, Aside, ElsewhereThan, callers
<1>3. (\A d \in Caller : Placed(d))'
  BY DEF IInv, Placed, Starting, Waiting, Joining, Classifying, Serving, Checks,
     Worker, OnlyAt, Ends, Aside, ElsewhereThan, callers, flags
<1>4. Bound'
  BY DEF IInv, Bound, Checks, Worker, OnlyAt, Ends, Aside, ElsewhereThan, callers,
     flags
<1>5. Loops'
  BY DEF IInv, Loops, Checks, Worker, OnlyAt, Ends, Aside, ElsewhereThan, callers,
     Within, Looping
<1>6. Timely'
  BY DEF IInv, Bound, Timely, Checks, Worker, OnlyAt, Ends, Interrupted, Aside,
     ElsewhereThan, callers, flags, time
<1>7. Founded'
  BY DEF IInv, Founded, Checks, Ends, Aside, ElsewhereThan, callers, flags
<1> QED
  BY <1>1, <1>2, <1>3, <1>4, <1>5, <1>6, <1>7 DEF IInv

\* KVM_RUN returns an exit or fails.
LEMMA GuestExitsKeeps ==
    ASSUME IInv, GuestExits
    PROVE  IInv'
<1>1. TypeOK'
  BY DEF IInv, TypeOK, RequestOK, CancelOK, TimeOK, WorkerOK, CallersOK, Bound,
     GuestExits, Worker, OnlyAt, Ends, Aside, ElsewhereThan, callers, flags, time,
     Borrowing, Within, Outcomes
<1>2. OneInside'
  BY DEF IInv, OneInside, GuestExits, Aside, ElsewhereThan, callers
<1>3. (\A d \in Caller : Placed(d))'
  BY DEF IInv, Placed, Starting, Waiting, Joining, Classifying, Serving, GuestExits,
     Worker, OnlyAt, Ends, Aside, ElsewhereThan, callers, flags
<1>4. Bound'
  BY DEF IInv, Bound, GuestExits, Worker, OnlyAt, Ends, Aside, ElsewhereThan, callers,
     flags
<1>5. Loops'
  BY DEF IInv, Loops, GuestExits, Worker, OnlyAt, Ends, Aside, ElsewhereThan, callers,
     Within, Looping
<1>6. Timely'
  BY DEF IInv, Timely, GuestExits, OnlyAt, Ends, Aside, ElsewhereThan, callers, flags,
     time
<1>7. Founded'
  BY DEF IInv, Founded, GuestExits, Ends, Aside, ElsewhereThan, callers, flags
<1> QED
  BY <1>1, <1>2, <1>3, <1>4, <1>5, <1>6, <1>7 DEF IInv

\* KVM_RUN returns with EINTR.
LEMMA GuestInterruptedKeeps ==
    ASSUME IInv, GuestInterrupted
    PROVE  IInv'
<1>1. TypeOK'
  BY DEF IInv, TypeOK, RequestOK, CancelOK, TimeOK, WorkerOK, CallersOK, Bound,
     GuestInterrupted, Worker, OnlyAt, Aside, ElsewhereThan, callers, flags, time,
     Borrowing, Within
<1>2. OneInside'
  BY DEF IInv, OneInside, GuestInterrupted, Aside, ElsewhereThan, callers
<1>3. (\A d \in Caller : Placed(d))'
  BY DEF IInv, Placed, Starting, Waiting, Joining, Classifying, Serving,
     GuestInterrupted, Worker, OnlyAt, Aside, ElsewhereThan, callers, flags
<1>4. Bound'
  BY DEF IInv, Bound, GuestInterrupted, Worker, OnlyAt, Aside, ElsewhereThan, callers,
     flags
<1>5. Loops'
  BY DEF IInv, Loops, GuestInterrupted, Worker, OnlyAt, Aside, ElsewhereThan, callers,
     Within, Looping
<1>6. Timely'
  BY DEF IInv, Timely, GuestInterrupted, OnlyAt, Aside, ElsewhereThan, callers, flags,
     time
<1>7. Founded'
  BY DEF IInv, Founded, GuestInterrupted, Aside, ElsewhereThan, callers, flags
<1> QED
  BY <1>1, <1>2, <1>3, <1>4, <1>5, <1>6, <1>7 DEF IInv

\* Capture is called for the caller that waits.
LEMMA CapturesKeeps ==
    ASSUME IInv, Captures
    PROVE  IInv'
<1>1. TypeOK'
  BY DEF IInv, TypeOK, RequestOK, CancelOK, TimeOK, WorkerOK, CallersOK, Bound,
     Captures, Worker, OnlyAt, Ends, Aside, ElsewhereThan, callers, flags, time,
     Borrowing, Within, Outcomes
<1>2. OneInside'
  BY DEF IInv, OneInside, Captures, Aside, ElsewhereThan, callers
<1>3. (\A d \in Caller : Placed(d))'
  BY DEF IInv, Placed, Starting, Waiting, Joining, Classifying, Serving, Captures,
     Worker, OnlyAt, Ends, Aside, ElsewhereThan, callers, flags
<1>4. Bound'
  BY DEF IInv, Bound, Captures, Worker, OnlyAt, Ends, Aside, ElsewhereThan, callers,
     flags
<1>5. Loops'
  BY DEF IInv, Loops, Captures, Worker, OnlyAt, Ends, Aside, ElsewhereThan, callers,
     Within, Looping
<1>6. Timely'
  BY DEF IInv, Timely, Captures, OnlyAt, Ends, Aside, ElsewhereThan, callers, flags,
     time
<1>7. Founded'
  BY DEF IInv, Founded, Captures, Ends, Aside, ElsewhereThan, callers, flags
<1> QED
  BY <1>1, <1>2, <1>3, <1>4, <1>5, <1>6, <1>7 DEF IInv

\* The worker publishes the outcome, and retires if it was cancelled.
LEMMA PublishesKeeps ==
    ASSUME IInv, Publishes
    PROVE  IInv'
<1>1. TypeOK'
  BY DEF IInv, TypeOK, RequestOK, CancelOK, TimeOK, WorkerOK, CallersOK, Bound,
     Publishes, Worker, ElsewhereThan, callers, time, Threads
<1>2. OneInside'
  BY DEF IInv, OneInside, Publishes, ElsewhereThan, callers
<1>3. (\A d \in Caller : Placed(d))'
  BY DEF IInv, Placed, Starting, Waiting, Joining, Classifying, Serving, Publishes,
     Worker, ElsewhereThan, callers
<1>4. Bound'
  BY DEF IInv, TypeOK, CallersOK, Placed, Waiting, Bound, Publishes, Worker,
     ElsewhereThan, callers
<1>5. Loops'
  BY DEF IInv, Loops, Publishes, Worker, ElsewhereThan, callers, Within, Looping
<1>6. Timely'
  BY DEF IInv, Timely, Publishes, Worker, ElsewhereThan, callers, time
<1>7. Founded'
  BY DEF IInv, Founded, Publishes, ElsewhereThan, callers
<1> QED
  BY <1>1, <1>2, <1>3, <1>4, <1>5, <1>6, <1>7 DEF IInv

\* A delegated loop goes on, or ends by itself.
LEMMA LoopStepKeeps ==
    ASSUME IInv, LoopStep
    PROVE  IInv'
<1>1. TypeOK'
  BY DEF IInv, TypeOK, RequestOK, CancelOK, TimeOK, WorkerOK, CallersOK, Bound,
     LoopStep, Worker, OnlyAt, LoopEnds, Aside, ElsewhereThan, callers, flags, time,
     Borrowing, Looping, Outcomes
<1>2. OneInside'
  BY DEF IInv, OneInside, LoopStep, Aside, ElsewhereThan, callers
<1>3. (\A d \in Caller : Placed(d))'
  BY DEF IInv, Placed, Starting, Waiting, Joining, Classifying, Serving, LoopStep,
     Worker, OnlyAt, LoopEnds, Aside, ElsewhereThan, callers, flags
<1>4. Bound'
  BY DEF IInv, Bound, LoopStep, Worker, OnlyAt, LoopEnds, Aside, ElsewhereThan,
     callers, flags
<1>5. Loops'
  BY DEF IInv, Loops, LoopStep, Worker, OnlyAt, LoopEnds, Aside, ElsewhereThan,
     callers, Within, Looping
<1>6. Timely'
  BY DEF IInv, Timely, LoopStep, OnlyAt, LoopEnds, Aside, ElsewhereThan, callers,
     flags, time
<1>7. Founded'
  BY DEF IInv, Founded, LoopStep, LoopEnds, Aside, ElsewhereThan, callers, flags
<1> QED
  BY <1>1, <1>2, <1>3, <1>4, <1>5, <1>6, <1>7 DEF IInv

\* A native entry of a loop is admitted only before its deadline and without a cancel.
LEMMA AdmitsKeeps ==
    ASSUME IInv, Admits
    PROVE  IInv'
<1>1. TypeOK'
  <2>1. RequestOK'
    BY Zenon DEF IInv, TypeOK, RequestOK, Admits, flags
  <2>2. CancelOK'
    BY DEF IInv, TypeOK, CancelOK, Admits, OnlyAt, LoopEnds, callers, flags
  <2>3. TimeOK'
    BY DEF IInv, TypeOK, TimeOK, Admits
  <2>4. WorkerOK'
    BY DEF IInv, TypeOK, WorkerOK, Admits, OnlyAt, LoopEnds, flags, Borrowing, Within,
       Outcomes
  <2>5. CallersOK'
    BY DEF IInv, TypeOK, CallersOK, Admits, callers
  <2>6. (looping => owner # NoCaller)'
    BY DEF IInv, Bound, Admits, Worker
  <2> QED
    BY <2>1, <2>2, <2>3, <2>4, <2>5, <2>6 DEF TypeOK
<1>2. OneInside'
  BY DEF IInv, OneInside, Admits, callers
<1>3. (\A d \in Caller : Placed(d))'
  BY DEF IInv, Placed, Starting, Waiting, Joining, Classifying, Serving, Admits,
     Worker, OnlyAt, LoopEnds, callers, flags
<1>4. Bound'
  BY DEF IInv, Bound, Admits, Worker, OnlyAt, LoopEnds, callers, flags
<1>5. Loops'
  BY DEF IInv, Loops, Admits, Worker, OnlyAt, LoopEnds, callers, Within, Looping
<1>6. Timely'
  BY DEF IInv, TypeOK, TimeOK, Timely, Admits, Worker, OnlyAt, LoopEnds, callers,
     flags
<1>7. Founded'
  BY DEF IInv, Founded, Admits, LoopEnds, callers, flags
<1> QED
  BY <1>1, <1>2, <1>3, <1>4, <1>5, <1>6, <1>7 DEF IInv

\* A native entry is classified while its control is still active, which is what
\* makes a cancel confirmed.
LEMMA ClassifiesKeeps ==
    ASSUME IInv, Classifies
    PROVE  IInv'
<1>1. TypeOK'
  BY DEF IInv, TypeOK, RequestOK, CancelOK, TimeOK, WorkerOK, CallersOK, Bound, Loops,
     Classifies, Worker, OnlyAt, Owned, Interruption, Aside, ElsewhereThan, callers,
     flags, time, Borrowing, Looping, Outcomes
<1>2. OneInside'
  BY DEF IInv, OneInside, Classifies, Aside, ElsewhereThan, callers
<1>3. (\A d \in Caller : Placed(d))'
  BY DEF IInv, Placed, Starting, Waiting, Joining, Classifying, Serving, Classifies,
     Worker, OnlyAt, Aside, ElsewhereThan, callers, flags
<1>4. Bound'
  BY DEF IInv, Bound, Classifies, Worker, OnlyAt, Aside, ElsewhereThan, callers, flags
<1>5. Loops'
  BY DEF IInv, Bound, Loops, Timely, Classifies, Worker, OnlyAt, Owned, Interruption,
     Interrupted, Aside, ElsewhereThan, callers, Within
<1>6. Timely'
  BY DEF IInv, Timely, Classifies, OnlyAt, Aside, ElsewhereThan, callers, flags, time
<1>7. Founded'
  BY DEF IInv, Bound, Loops, Timely, Founded, Classifies, Worker, Owned, Interruption,
     Interrupted, Aside, ElsewhereThan, callers, flags
<1> QED
  BY <1>1, <1>2, <1>3, <1>4, <1>5, <1>6, <1>7 DEF IInv

\* The native control is given back after the classification.
LEMMA ReleasesKeeps ==
    ASSUME IInv, Releases
    PROVE  IInv'
<1>1. TypeOK'
  <2>1. RequestOK'
    BY Zenon DEF IInv, TypeOK, RequestOK, Releases, ElsewhereThan, flags
  <2>2. CancelOK'
    BY DEF IInv, TypeOK, CancelOK, Releases, OnlyAt, LoopEnds, ElsewhereThan, callers,
       flags
  <2>3. TimeOK'
    BY DEF IInv, TypeOK, TimeOK, Releases, ElsewhereThan, time
  <2>4. WorkerOK'
    BY DEF IInv, TypeOK, WorkerOK, Releases, OnlyAt, LoopEnds, flags, Borrowing,
       Looping, Outcomes
  <2>5. CallersOK'
    BY DEF IInv, TypeOK, CallersOK, Releases, ElsewhereThan, callers
  <2>6. (looping => owner # NoCaller)'
    BY DEF IInv, Bound, Releases, Worker, ElsewhereThan
  <2> QED
    BY <2>1, <2>2, <2>3, <2>4, <2>5, <2>6 DEF TypeOK
<1>2. OneInside'
  BY DEF IInv, OneInside, Releases, ElsewhereThan, callers
<1>3. (\A d \in Caller : Placed(d))'
  BY DEF IInv, Placed, Starting, Waiting, Joining, Classifying, Serving, Releases,
     Worker, OnlyAt, LoopEnds, ElsewhereThan, callers, flags
<1>4. Bound'
  BY DEF IInv, Bound, Releases, Worker, OnlyAt, LoopEnds, ElsewhereThan, callers,
     flags
<1>5. Loops'
  BY DEF IInv, Loops, Releases, Worker, OnlyAt, LoopEnds, ElsewhereThan, callers,
     Within, Looping
<1>6. Timely'
  BY DEF IInv, Timely, Releases, OnlyAt, LoopEnds, ElsewhereThan, callers, flags, time
<1>7. Founded'
  BY DEF IInv, Founded, Releases, LoopEnds, ElsewhereThan, callers, flags
<1> QED
  BY <1>1, <1>2, <1>3, <1>4, <1>5, <1>6, <1>7 DEF IInv

\* A stop only makes more runs overdue.
LEMMA StopAskedKeeps ==
    ASSUME IInv, StopAsked
    PROVE  IInv'
<1>1. TypeOK'
  BY DEF IInv, TypeOK, RequestOK, CancelOK, TimeOK, WorkerOK, CallersOK, StopAsked,
     worker, callers, flags
<1>2. OneInside'
  BY DEF IInv, OneInside, StopAsked, callers
<1>3. (\A d \in Caller : Placed(d))'
  BY DEF IInv, Placed, Starting, Waiting, Joining, Classifying, Serving, StopAsked,
     worker, callers, flags
<1>4. Bound'
  BY DEF IInv, Bound, StopAsked, worker, callers, flags
<1>5. Loops'
  BY DEF IInv, Loops, StopAsked, worker, callers
<1>6. Timely'
  BY DEF IInv, Timely, StopAsked, worker, flags
<1>7. Founded'
  BY DEF IInv, Founded, StopAsked, worker, callers, flags
<1> QED
  BY <1>1, <1>2, <1>3, <1>4, <1>5, <1>6, <1>7 DEF IInv

\* A deadline that passes only makes more runs overdue.
LEMMA DeadlinePassesKeeps ==
    ASSUME IInv, DeadlinePasses
    PROVE  IInv'
<1>1. TypeOK'
  BY DEF IInv, TypeOK, RequestOK, CancelOK, TimeOK, WorkerOK, CallersOK,
     DeadlinePasses, worker, callers, flags
<1>2. OneInside'
  BY DEF IInv, OneInside, DeadlinePasses, callers
<1>3. (\A d \in Caller : Placed(d))'
  BY DEF IInv, Placed, Starting, Waiting, Joining, Classifying, Serving,
     DeadlinePasses, worker, callers, flags
<1>4. Bound'
  BY DEF IInv, Bound, DeadlinePasses, worker, callers, flags
<1>5. Loops'
  BY DEF IInv, Loops, DeadlinePasses, worker, callers
<1>6. Timely'
  BY DEF IInv, Timely, DeadlinePasses, worker, flags
<1>7. Founded'
  BY DEF IInv, Founded, DeadlinePasses, worker, callers, flags
<1> QED
  BY <1>1, <1>2, <1>3, <1>4, <1>5, <1>6, <1>7 DEF IInv

\* A native entry's deadline passes after the run's.
LEMMA StepDeadlinePassesKeeps ==
    ASSUME IInv, StepDeadlinePasses
    PROVE  IInv'
<1>1. TypeOK'
  BY DEF IInv, TypeOK, RequestOK, CancelOK, TimeOK, WorkerOK, CallersOK,
     StepDeadlinePasses, worker, callers, flags
<1>2. OneInside'
  BY DEF IInv, OneInside, StepDeadlinePasses, callers
<1>3. (\A d \in Caller : Placed(d))'
  BY DEF IInv, Placed, Starting, Waiting, Joining, Classifying, Serving,
     StepDeadlinePasses, worker, callers, flags
<1>4. Bound'
  BY DEF IInv, Bound, StepDeadlinePasses, worker, callers, flags
<1>5. Loops'
  BY DEF IInv, Loops, StepDeadlinePasses, worker, callers
<1>6. Timely'
  BY DEF IInv, Timely, StepDeadlinePasses, worker, flags
<1>7. Founded'
  BY DEF IInv, Founded, StepDeadlinePasses, worker, callers, flags
<1> QED
  BY <1>1, <1>2, <1>3, <1>4, <1>5, <1>6, <1>7 DEF IInv

-----------------------------------------------------------------------------
(* The invariant and what follows from it.                                 *)

\* A controller that does not exist yet satisfies the invariant.
LEMMA InitHolds == Init => IInv
<1> SUFFICES ASSUME Init PROVE IInv
  OBVIOUS
<1>1. TypeOK
  BY DEF Init, TypeOK, RequestOK, CancelOK, TimeOK, WorkerOK, CallersOK, Threads, Outcomes
<1>2. OneInside /\ (\A c \in Caller : Placed(c)) /\ Bound
  BY DEF Init, OneInside, Placed, Starting, Waiting, Joining, Classifying, Bound
<1>3. Loops /\ Timely /\ Founded
  BY DEF Init, Loops, Timely, Founded, Looping, Within
<1> QED
  BY <1>1, <1>2, <1>3 DEF IInv

\* A step of any thread, of the clock or of the stop token's holder keeps it.
LEMMA NextKeeps == IInv /\ [Next]_vars => IInv'
<1> SUFFICES ASSUME IInv, [Next]_vars PROVE IInv'
  OBVIOUS
<1>1. ASSUME NEW c \in Caller, Call(c) PROVE IInv'
  BY <1>1, CreatesKeeps, DestroysKeeps, RefusedKeeps, TooLateKeeps, DispatchesKeeps,
     StartedKeeps, OwnerLooksKeeps, OwnerSeesKeeps, JoinsKeeps, OwnerReturnsKeeps DEF Call
<1>2. CASE Work
  BY <1>2, InitializesKeeps, TakesKeeps, PreparesKeeps, ChecksKeeps,
     GuestExitsKeeps, GuestInterruptedKeeps, CapturesKeeps, PublishesKeeps,
     LoopStepKeeps, AdmitsKeeps, ClassifiesKeeps, ReleasesKeeps DEF Work
<1>3. CASE StopAsked \/ DeadlinePasses \/ StepDeadlinePasses
  BY <1>3, StopAskedKeeps, DeadlinePassesKeeps, StepDeadlinePassesKeeps
<1>4. CASE UNCHANGED vars
  <2> USE <1>4 DEF vars, worker, callers, flags, time
  <2>1. TypeOK'
    BY DEF IInv, TypeOK, RequestOK, CancelOK, TimeOK, WorkerOK, CallersOK
  <2>2. OneInside' /\ (\A c \in Caller : Placed(c))' /\ Bound'
    BY DEF IInv, OneInside, Placed, Starting, Waiting, Joining, Classifying, Serving, Bound
  <2>3. Loops' /\ Timely' /\ Founded'
    BY DEF IInv, Loops, Timely, Founded
  <2> QED
    BY <2>1, <2>2, <2>3 DEF IInv
<1> QED
  BY <1>1, <1>2, <1>3, <1>4 DEF Next

\* The inductive invariant: where the one caller inside is says what the worker, the
\* request and the borrowed control are, and a cancel is always overdue.
THEOREM Invariant == Spec => []IInv
<1> QED
  BY InitHolds, NextKeeps, PTL DEF Spec

\* Every variable keeps its type, and a loop is set only with its caller.
THEOREM TypeCorrect == Spec => []TypeOK
<1>1. IInv => TypeOK
  BY DEF IInv
<1> QED
  BY <1>1, Invariant, PTL

\* Nothing the caller of dispatch lent is used after it stopped waiting, for any
\* number of threads that call.
THEOREM BorrowsCorrect == Spec => []BorrowsEnd
<1>1. IInv => BorrowsEnd
  BY DEF IInv, BorrowsEnd, Bound, Borrowing, Within, Looping
<1> QED
  BY <1>1, Invariant, PTL

\* A kick is pending only at the run it was sent for.
THEOREM KickCorrect == Spec => []KickStaysHome
<1>1. IInv => KickStaysHome
  <2> SUFFICES ASSUME IInv, kicked PROVE cancel /\ running
    BY DEF KickStaysHome
  <2>1. cancel /\ owner # NoCaller /\ phase[owner] \in {"waiting", "joining"}
    BY DEF IInv, Bound
  <2>2. owner \in Caller
    BY <2>1 DEF IInv, TypeOK, CallersOK
  <2>3. Waiting(owner) /\ Joining(owner)
    BY <2>2 DEF IInv, Placed
  <2> QED
    BY <2>1, <2>3 DEF Waiting, Joining
<1> QED
  BY <1>1, Invariant, PTL

\* Every interruption reported is confirmed by the control it is reported for.
THEOREM InterruptionsCorrect == Spec => []InterruptionsAreFounded
<1>1. IInv => InterruptionsAreFounded
  BY DEF IInv, Founded, InterruptionsAreFounded
<1> QED
  BY <1>1, Invariant, PTL
=============================================================================
