---------------------------- MODULE WorkerProofs ----------------------------
(***************************************************************************)
(* Proofs about Worker, for any client, any queue bounds and any number of *)
(* messages.                                                               *)
(***************************************************************************)
EXTENDS Worker, FiniteSetTheorems, SequenceTheorems, WellFoundedInduction, TLAPS

Kinds == {"ok", "error", "stopped"}
FinalKinds == {"ok", "error", "stopped", "completed", "cancelled", "refused"}
Result == [n : 1..MaxSent, id : Id, kind : Kinds, revision : Nat, project : Nat,
           opened : BOOLEAN]
FinalReply == [n : 1..MaxSent, kind : Kinds \union {"completed"}, revision : Nat,
               project : Nat, opened : BOOLEAN, sequence : Nat, background : Background]

\* What TypeOK leaves out: the threads' own state, the client's and the history.
SharedOK ==
    /\ queue \in Seq(Requests) /\ active \in Requests \union {Nothing}
    /\ pending \subseteq Id /\ queuedBytes \in Nat /\ sent \in 0..MaxSent
    /\ promised \subseteq 1..MaxSent
FlagsOK ==
    cancelled \in BOOLEAN /\ stopping \in BOOLEAN /\ finished \in BOOLEAN /\ failed \in BOOLEAN
StateOK ==
    /\ revision \in Nat /\ sequence \in Nat /\ background \in Background
    /\ engine \in [revision : Nat, project : Nat, background : Background]
    /\ client \in [loaded : BOOLEAN, revision : Nat, project : Nat, sequence : Nat,
                   background : Background]
    /\ heart \in Snapshot \union {Nothing}
HistoryOK ==
    /\ answers \in [1..MaxSent -> Seq(FinalKinds)]
    /\ runs \in Seq([n : 1..MaxSent, expects : Nat \union {Nothing}, changed : BOOLEAN])

\* A request is active exactly while the executor runs it and has not retired
\* it, and what the executor holds fits the place it is at.
Places ==
    /\ active # Nothing <=> executor.at \in {"run", "publish"}
    /\ At("idle") => executor.msg \in BOOLEAN /\ engine.background.left # 0
    /\ At("announce") => executor.msg \in Snapshot
    /\ At("publish") => executor.msg \in Result /\ executor.msg.n = active.n
                        /\ executor.msg.id = active.id
    /\ At("send") => executor.msg \in FinalReply

\* The pending ids are the ids waiting or running, each once.
Admitted ==
    /\ pending = {queue[i].id : i \in DOMAIN queue}
                 \union {r.id : r \in {active} \ {Nothing}}
    /\ \A i, j \in DOMAIN queue : queue[i].id = queue[j].id => i = j
    /\ active # Nothing => \A i \in DOMAIN queue : queue[i].id # active.id
Counted ==
    /\ queuedBytes = QueueBytes(queue)
    /\ Len(queue) <= MaxQueueRequests /\ queuedBytes <= MaxQueueBytes

\* Every message the worker owes a reply is at one place, in the order of arrival:
\* the one retired, the running one, the queue, and the one the input loop holds.
Arrival ==
    /\ \A i, j \in DOMAIN queue : i < j => queue[i].n < queue[j].n
    /\ \A i \in DOMAIN queue :
          /\ queue[i].n \in Nat /\ queue[i].n <= sent
          /\ active # Nothing => active.n < queue[i].n
          /\ At("send") => executor.msg.n < queue[i].n
    /\ active # Nothing => active.n \in Nat /\ active.n <= sent
    /\ At("send") => executor.msg.n \in Nat /\ executor.msg.n <= sent
Replying ==
    reader.at \in {"refuse", "reply"} =>
        /\ reader.msg.n = sent /\ sent # 0
        /\ \A i \in DOMAIN queue : queue[i].n < sent
        /\ active # Nothing => active.n < sent
        /\ At("send") => executor.msg.n < sent

\* What ran arrived before what runs, and that before what waits.
RunOrder ==
    /\ \A i, j \in DOMAIN runs : i < j => runs[i].n < runs[j].n
    /\ \A i \in DOMAIN runs :
          /\ runs[i].n \in 1..MaxSent /\ runs[i].n <= sent
          /\ \A j \in DOMAIN queue : runs[i].n < queue[j].n
          /\ At("run") => runs[i].n < active.n

\* The engine's revision counts the changes made.
Changes(k) == Cardinality({j \in 1..k : runs[j].changed})
Revisions ==
    /\ engine.revision = Changes(Len(runs))
    /\ \A i \in DOMAIN runs : runs[i].expects # Nothing => runs[i].expects = Changes(i - 1)

\* Whatever a message under way tells was published, and the newest number
\* tells the newest state.
Known(m) ==
    /\ m.revision <= revision /\ m.sequence <= sequence
    /\ m.sequence = sequence => m.background = background
Published ==
    /\ revision <= engine.revision
    /\ heart # Nothing => Known(heart)
    /\ At("announce") => Known(executor.msg)
    /\ At("publish") => executor.msg.revision = engine.revision
    /\ At("send") => Known(executor.msg) /\ executor.msg.sequence # 0
ClientKnows ==
    /\ client.revision <= revision /\ client.sequence <= sequence
    /\ client.loaded /\ client.sequence = sequence => client.background = background

\* Every message is answered once, when nobody owes it a reply any more.
Owed(n) ==
    \/ \E i \in DOMAIN queue : queue[i].n = n
    \/ active # Nothing /\ active.n = n
    \/ At("send") /\ executor.msg.n = n
    \/ reader.at \in {"refuse", "reply"} /\ reader.msg.n = n
Answered ==
    /\ \A n \in 1..MaxSent : Len(answers[n]) <= 1 /\ (n > sent => answers[n] = <<>>)
    /\ \A n \in 1..sent : /\ answers[n] # <<>> => ~Owed(n)
                          /\ ~failed /\ ~Owed(n) => answers[n] # <<>>

\* What ran was not answered "cancelled", and an acknowledged cancel is in the
\* flag, then in the reply that waits, then in the answer.
Truthful ==
    /\ \A i \in DOMAIN runs : answers[runs[i].n] # <<"cancelled">>
    /\ \A n \in promised :
          /\ n \in 1..MaxSent /\ n < sent /\ \A i \in DOMAIN queue : n < queue[i].n
          /\ active # Nothing /\ active.n = n => cancelled
          /\ At("send") /\ executor.msg.n = n => executor.msg.kind \in {"stopped", "completed"}
          /\ answers[n] # <<>> => answers[n][1] \in {"stopped", "completed"}

IInv ==
    /\ SharedOK /\ FlagsOK /\ StateOK /\ HistoryOK /\ Places
    /\ Admitted /\ Counted /\ Arrival /\ Replying /\ RunOrder
    /\ Revisions /\ Published /\ ClientKnows /\ Answered /\ Truthful

-----------------------------------------------------------------------------
(* The bytes of a queue.                                                   *)

\* The number of messages is bounded by a natural number.
LEMMA Bounded == MaxSent \in Nat
  BY WorkerAssumption

\* Induction over the naturals, for a set: one that holds 0 and the successor
\* of each of its members holds them all.
LEMMA NatInductionSet ==
    ASSUME NEW S \in SUBSET Nat, 0 \in S, \A n \in S : n + 1 \in S
    PROVE  S = Nat
<1>1. SUFFICES ASSUME Nat \ S # {} PROVE FALSE
  OBVIOUS
<1>2. PICK x \in Nat \ S : \A y \in Nat \ S : ~(<<y, x>> \in OpToRel(<, Nat))
  BY <1>1, WFMin, NatLessThanWellFounded, Zenon
<1>3. \A y \in Nat \ S : ~(y < x)
  BY <1>2 DEF OpToRel
<1>4. x # 0 /\ x - 1 \in Nat /\ x - 1 < x
  OBVIOUS
<1>5. x - 1 \in S
  BY <1>3, <1>4
<1> QED BY <1>5, <1>4

\* A request has a size.
LEMMA RequestBytes == ASSUME NEW r \in Requests PROVE r.bytes \in Nat
<1>1. \A b \in Bytes : b \in Nat
  BY WorkerAssumption
<1> QED BY <1>1 DEF Requests

\* t gives every set of positions of q the bytes waiting there.
IsSum(t, q) ==
    /\ t \in [SUBSET DOMAIN q -> Nat] /\ t[{}] = 0
    /\ \A s \in SUBSET DOMAIN q : \A x \in s : t[s] = q[x].bytes + t[s \ {x}]

\* The recursive function QueueBytes folds with.
Fold(q) == CHOOSE iter : iter = [s \in SUBSET DOMAIN q |->
    IF s = {} THEN 0 ELSE LET x == CHOOSE x \in s : TRUE IN q[x].bytes + iter[s \ {x}]]

\* QueueBytes is the fold at the whole queue.
LEMMA QueueBytesFold == ASSUME NEW q PROVE QueueBytes(q) = Fold(q)[DOMAIN q]
  BY DEF QueueBytes, FoldSeq, FoldFunction, FoldFunctionOnSet, MapThenFoldSet, Fold

\* When the positions have a sum, the fold computes it.
LEMMA SumIsFold ==
    ASSUME NEW q \in Seq(Requests), NEW t, IsSum(t, q)
    PROVE  QueueBytes(q) = t[DOMAIN q]
<1> DEFINE P == SUBSET DOMAIN q
           Body(f) == [s \in P |-> IF s = {} THEN 0
                       ELSE LET x == CHOOSE x \in s : TRUE IN q[x].bytes + f[s \ {x}]]
<1>1. t = Body(t)
  <2>1. \A s \in P : t[s] = IF s = {} THEN 0
                       ELSE LET x == CHOOSE x \in s : TRUE IN q[x].bytes + t[s \ {x}]
    BY DEF IsSum
  <2>2. t = [s \in P |-> t[s]]
    BY DEF IsSum
  <2> QED BY <2>1, <2>2
<1>2. Fold(q) = Body(Fold(q))
  <2>1. \E f : f = Body(f)
    BY <1>1
  <2> HIDE DEF Body
  <2>2. Fold(q) = CHOOSE f : f = Body(f)
    BY DEF Fold, Body
  <2> QED BY <2>1, <2>2
<1> DEFINE N == {n \in Nat : \A s \in P : Cardinality(s) = n => Fold(q)[s] = t[s]}
<1>3. \A s \in P : IsFiniteSet(s) /\ Cardinality(s) \in Nat
  <2>1. IsFiniteSet(DOMAIN q)
    BY LenProperties, FS_Interval
  <2> QED BY <2>1, FS_Subset, FS_CardinalityType
<1>4. 0 \in N
  <2>1. ASSUME NEW s \in P, Cardinality(s) = 0 PROVE Fold(q)[s] = t[s]
    <3>1. s = {}
      BY <1>3, <2>1, FS_EmptySet
    <3> QED BY <1>2, <3>1 DEF IsSum
  <2> QED BY <2>1
<1>5. ASSUME NEW n \in N PROVE n + 1 \in N
  <2>1. ASSUME NEW s \in P, Cardinality(s) = n + 1 PROVE Fold(q)[s] = t[s]
    <3>1. s # {}
      <4>1. n \in Nat /\ n + 1 # 0
        OBVIOUS
      <4> QED BY <2>1, <4>1, FS_EmptySet
    <3>2. PICK x : x = (CHOOSE y \in s : TRUE) /\ x \in s
      BY <3>1
    <3>3. s \ {x} \in P /\ Cardinality(s \ {x}) = n
      <4>1. IsFiniteSet(s) /\ n \in Nat
        BY <1>3
      <4>2. Cardinality(s \ {x}) = Cardinality(s) - 1
        BY <3>2, <4>1, FS_RemoveElement
      <4> QED BY <2>1, <4>1, <4>2
    <3>4. Fold(q)[s \ {x}] = t[s \ {x}]
      BY <3>3
    <3>5. Fold(q)[s] = q[x].bytes + Fold(q)[s \ {x}]
      BY <1>2, <3>1, <3>2
    <3> QED BY <3>2, <3>4, <3>5 DEF IsSum
  <2> QED BY <2>1
<1>6. N = Nat
  BY <1>4, <1>5, NatInductionSet
<1>7. DOMAIN q \in P /\ Cardinality(DOMAIN q) \in N
  BY <1>3, <1>6
<1> QED BY <1>7, QueueBytesFold

\* A request at the end adds its bytes to every set that holds its position.
LEMMA SumOfAppend ==
    ASSUME NEW q \in Seq(Requests), NEW r \in Requests, NEW t, IsSum(t, q)
    PROVE  IsSum([s \in SUBSET DOMAIN Append(q, r) |->
                     t[s \ {Len(q) + 1}] + IF Len(q) + 1 \in s THEN r.bytes ELSE 0],
                 Append(q, r))
<1> DEFINE e == Len(q) + 1
           p == Append(q, r)
           u == [s \in SUBSET DOMAIN p |-> t[s \ {e}] + IF e \in s THEN r.bytes ELSE 0]
<1>1. /\ DOMAIN q = 1..Len(q) /\ DOMAIN p = 1..e /\ Len(q) \in Nat /\ r.bytes \in Nat
      /\ \A i \in 1..Len(q) : p[i] = q[i]
      /\ p[e] = r
  BY RequestBytes, LenProperties, AppendProperties
<1>2. \A s \in SUBSET DOMAIN p : s \ {e} \in SUBSET DOMAIN q
  BY <1>1
<1>3. u \in [SUBSET DOMAIN p -> Nat]
  BY <1>1, <1>2 DEF IsSum
<1>4. u[{}] = 0
  <2>1. {} \in SUBSET DOMAIN p /\ {} \ {e} = {} /\ e \notin {}
    OBVIOUS
  <2> QED BY <2>1 DEF IsSum
<1>5. ASSUME NEW s \in SUBSET DOMAIN p, NEW x \in s PROVE u[s] = p[x].bytes + u[s \ {x}]
  <2>1. s \ {x} \in SUBSET DOMAIN p /\ s \ {e} \in SUBSET DOMAIN q /\ t[s \ {e}] \in Nat
    BY <1>2 DEF IsSum
  <2>2. CASE x = e
    <3>1. (s \ {x}) \ {e} = s \ {e} /\ e \in s /\ e \notin s \ {x}
      BY <2>2
    <3>2. u[s] = t[s \ {e}] + r.bytes /\ u[s \ {x}] = t[s \ {e}] + 0
      BY <2>1, <3>1
    <3> QED BY <1>1, <2>1, <2>2, <3>2
  <2>3. CASE x # e
    <3>1. (s \ {x}) \ {e} = (s \ {e}) \ {x} /\ x \in s \ {e} /\ (e \in s <=> e \in s \ {x})
      BY <2>3
    <3>2. x \in 1..Len(q) /\ p[x] = q[x] /\ (s \ {e}) \ {x} \in SUBSET DOMAIN q
      BY <1>1, <2>3
    <3>3. t[s \ {e}] = q[x].bytes + t[(s \ {e}) \ {x}]
      BY <2>1, <3>1 DEF IsSum
    <3>4. t[(s \ {e}) \ {x}] \in Nat /\ q[x].bytes \in Nat
      BY <1>1, <3>2, RequestBytes, ElementOfSeq DEF IsSum
    <3>5. /\ u[s] = t[s \ {e}] + IF e \in s THEN r.bytes ELSE 0
          /\ u[s \ {x}] = t[(s \ {e}) \ {x}] + IF e \in s THEN r.bytes ELSE 0
      BY <2>1, <3>1
    <3> QED BY <1>1, <3>2, <3>3, <3>4, <3>5
  <2> QED BY <2>2, <2>3
<1> QED BY <1>3, <1>4, <1>5 DEF IsSum

\* Every queue has a sum.
LEMMA SumExists ==
    ASSUME NEW q \in Seq(Requests)
    PROVE  \E t : IsSum(t, q)
<1> DEFINE N == {n \in Nat : \A p \in Seq(Requests) : Len(p) = n => \E t : IsSum(t, p)}
<1>1. 0 \in N
  <2>1. ASSUME NEW p \in Seq(Requests), Len(p) = 0 PROVE IsSum([s \in {{}} |-> 0], p)
    <3>1. DOMAIN p = {} /\ SUBSET DOMAIN p = {{}}
      BY <2>1
    <3> QED BY <3>1 DEF IsSum
  <2> QED BY <2>1
<1>2. ASSUME NEW n \in N PROVE n + 1 \in N
  <2>1. ASSUME NEW p \in Seq(Requests), Len(p) = n + 1 PROVE \E t : IsSum(t, p)
    <3> DEFINE f == SubSeq(p, 1, n)
    <3>1. f \in Seq(Requests) /\ Len(f) = n /\ p[n + 1] \in Requests
      BY <2>1
    <3>2. p = Append(f, p[n + 1])
      BY <2>1, <3>1
    <3> HIDE DEF f
    <3>3. PICK t : IsSum(t, f)
      BY <3>1
    <3> QED BY <3>1, <3>2, <3>3, SumOfAppend
  <2> QED BY <2>1
<1>3. N = Nat
  BY <1>1, <1>2, NatInductionSet
<1>4. Len(q) \in N
  BY <1>3
<1> QED BY <1>4

\* No request waits, no bytes do.
LEMMA BytesOfEmpty == QueueBytes(<<>>) = 0
<1>2. DOMAIN <<>> = {} /\ <<>> \in Seq(Requests)
  OBVIOUS
<1>1. PICK t : IsSum(t, <<>>)
  BY <1>2, SumExists
<1> QED BY <1>1, <1>2, SumIsFold DEF IsSum

\* The bytes of a queue are a natural number.
LEMMA BytesType == ASSUME NEW q \in Seq(Requests) PROVE QueueBytes(q) \in Nat
<1>1. PICK t : IsSum(t, q)
  BY SumExists
<1> QED BY <1>1, SumIsFold DEF IsSum

\* Enqueueing a request adds its bytes.
LEMMA BytesOfAppend ==
    ASSUME NEW q \in Seq(Requests), NEW r \in Requests
    PROVE  QueueBytes(Append(q, r)) = QueueBytes(q) + r.bytes
<1> DEFINE e == Len(q) + 1
           p == Append(q, r)
           u(t) == [s \in SUBSET DOMAIN p |-> t[s \ {e}] + IF e \in s THEN r.bytes ELSE 0]
<1>1. PICK t : IsSum(t, q)
  BY SumExists
<1>2. IsSum(u(t), p)
  BY <1>1, SumOfAppend
<1>3. p \in Seq(Requests) /\ e \in DOMAIN p /\ DOMAIN p \ {e} = DOMAIN q
  <2>1. Len(q) \in Nat /\ DOMAIN q = 1..Len(q) /\ DOMAIN p = 1..e
    BY LenProperties, AppendProperties
  <2>2. p \in Seq(Requests)
    BY AppendProperties
  <2> HIDE DEF p
  <2> QED BY <2>1, <2>2
<1>4. QueueBytes(p) = u(t)[DOMAIN p] /\ QueueBytes(q) = t[DOMAIN q]
  BY <1>1, <1>2, <1>3, SumIsFold
<1>5. u(t)[DOMAIN p] = t[DOMAIN q] + r.bytes
  BY <1>3
<1> QED BY <1>4, <1>5

\* Removing position k moves the positions after it down by one.
LEMMA RemoveAtProperties ==
    ASSUME NEW S, NEW q \in Seq(S), NEW k \in DOMAIN q
    PROVE  /\ RemoveAt(q, k) \in Seq(S) /\ Len(RemoveAt(q, k)) = Len(q) - 1
           /\ DOMAIN RemoveAt(q, k) = 1..(Len(q) - 1)
           /\ \A i \in 1..(Len(q) - 1) :
                 LET old == IF i < k THEN i ELSE i + 1
                 IN  RemoveAt(q, k)[i] = q[old] /\ old \in DOMAIN q
<1> DEFINE p == RemoveAt(q, k)
           old(i) == IF i < k THEN i ELSE i + 1
<1> DEFINE a == SubSeq(q, 1, k - 1)
           b == SubSeq(q, k + 1, Len(q))
<1>1. Len(q) \in Nat /\ k \in 1..Len(q) /\ DOMAIN q = 1..Len(q)
  BY LenProperties
<1>2. a \in Seq(S) /\ Len(a) = k - 1 /\ \A i \in 1..(k - 1) : a[i] = q[i]
  BY <1>1
<1>3. b \in Seq(S) /\ Len(b) = Len(q) - k /\ \A i \in 1..(Len(q) - k) : b[i] = q[i + k]
  BY <1>1
<1> HIDE DEF a, b
<1>4. /\ a \o b \in Seq(S) /\ Len(a \o b) = Len(q) - 1
      /\ \A i \in 1..(Len(q) - 1) : (a \o b)[i] = IF i < k THEN a[i] ELSE b[i - k + 1]
  <2>1. /\ a \o b \in Seq(S) /\ Len(a \o b) = Len(a) + Len(b)
        /\ \A i \in 1..(Len(a) + Len(b)) :
              (a \o b)[i] = IF i <= Len(a) THEN a[i] ELSE b[i - Len(a)]
    BY <1>2, <1>3, ConcatProperties, Zenon
  <2>2. Len(a) + Len(b) = Len(q) - 1
    BY <1>1, <1>2, <1>3
  <2>3. \A i \in 1..(Len(q) - 1) : (i <= Len(a) <=> i < k) /\ i - Len(a) = i - k + 1
    BY <1>1, <1>2
  <2> QED BY <2>1, <2>2, <2>3
<1>5. p = a \o b
  BY DEF RemoveAt, a, b
<1> HIDE DEF p
<1>6. p \in Seq(S) /\ Len(p) = Len(q) - 1 /\ DOMAIN p = 1..(Len(q) - 1)
  BY <1>1, <1>4, <1>5, LenProperties
<1>7. ASSUME NEW i \in 1..(Len(q) - 1) PROVE p[i] = q[old(i)] /\ old(i) \in DOMAIN q
  <2>1. CASE i < k
    BY <1>1, <1>2, <1>4, <1>5, <2>1
  <2>2. CASE ~(i < k)
    <3>1. i - k + 1 \in 1..(Len(q) - k) /\ (i - k + 1) + k = i + 1 /\ i + 1 \in 1..Len(q)
      BY <1>1, <2>2
    <3> QED BY <1>1, <1>3, <1>4, <1>5, <2>2, <3>1
  <2> QED BY <2>1, <2>2
<1> QED BY <1>1, <1>6, <1>7 DEF p

\* Taking the request at position k away takes its bytes, and no more.
LEMMA BytesOfRemove ==
    ASSUME NEW q \in Seq(Requests), NEW k \in DOMAIN q
    PROVE  /\ QueueBytes(q) = QueueBytes(RemoveAt(q, k)) + q[k].bytes
           /\ q[k].bytes \in Nat
<1> DEFINE p == RemoveAt(q, k)
           old(i) == IF i < k THEN i ELSE i + 1
           Old(s) == {old(i) : i \in s}
<1>1. PICK t : IsSum(t, q)
  BY SumExists
<1>2. /\ p \in Seq(Requests) /\ DOMAIN p = 1..(Len(q) - 1) /\ DOMAIN q = 1..Len(q)
      /\ \A i \in DOMAIN p : p[i] = q[old(i)] /\ old(i) \in DOMAIN q
  BY RemoveAtProperties, LenProperties
<1> HIDE DEF p
<1>3. \A s \in SUBSET DOMAIN p : Old(s) \in SUBSET DOMAIN q
  BY <1>2
<1> DEFINE u == [s \in SUBSET DOMAIN p |-> t[Old(s)]]
<1>4. IsSum(u, p)
  <2>1. u \in [SUBSET DOMAIN p -> Nat]
    BY <1>1, <1>3 DEF IsSum
  <2>2. u[{}] = 0
    <3>1. {} \in SUBSET DOMAIN p /\ Old({}) = {}
      OBVIOUS
    <3> QED BY <1>1, <3>1 DEF IsSum
  <2>3. ASSUME NEW s \in SUBSET DOMAIN p, NEW x \in s PROVE u[s] = p[x].bytes + u[s \ {x}]
    <3>1. Old(s \ {x}) = Old(s) \ {old(x)} /\ old(x) \in Old(s)
      BY <1>2
    <3>2. s \ {x} \in SUBSET DOMAIN p /\ Old(s) \in SUBSET DOMAIN q /\ p[x] = q[old(x)]
      BY <1>2, <1>3
    <3>3. t[Old(s)] = q[old(x)].bytes + t[Old(s) \ {old(x)}]
      BY <1>1, <3>1, <3>2 DEF IsSum
    <3> QED BY <3>1, <3>2, <3>3
  <2> QED BY <2>1, <2>2, <2>3 DEF IsSum
<1>5. Old(DOMAIN p) = DOMAIN q \ {k}
  <2>1. \A j \in DOMAIN q \ {k} : \E i \in DOMAIN p : j = old(i)
    <3>1. TAKE j \in DOMAIN q \ {k}
    <3>2. CASE j < k
      BY <1>2, <3>2
    <3>3. CASE j > k
      <4>1. j - 1 \in DOMAIN p /\ j = old(j - 1)
        BY <1>2, <3>3
      <4> QED BY <4>1
    <3> QED BY <1>2, <3>2, <3>3
  <2> QED BY <1>2, <2>1
<1>6. QueueBytes(p) = t[DOMAIN q \ {k}] /\ QueueBytes(q) = t[DOMAIN q]
  <2>1. QueueBytes(p) = u[DOMAIN p] /\ QueueBytes(q) = t[DOMAIN q]
    BY <1>1, <1>2, <1>4, SumIsFold
  <2>2. u[DOMAIN p] = t[Old(DOMAIN p)]
    OBVIOUS
  <2> QED BY <1>5, <2>1, <2>2
<1>7. t[DOMAIN q] = q[k].bytes + t[DOMAIN q \ {k}] /\ t[DOMAIN q \ {k}] \in Nat
  BY <1>1 DEF IsSum
<1>8. q[k].bytes \in Nat
  BY RequestBytes, ElementOfSeq, LenProperties
<1> QED BY <1>6, <1>7, <1>8 DEF p

\* What is left of a queue without position k: its other requests, in order.
LEMMA RemoveAtKeeps ==
    ASSUME NEW S, NEW q \in Seq(S), NEW k \in DOMAIN q, NEW p, p = RemoveAt(q, k)
    PROVE  /\ p \in Seq(S)
           /\ \A i \in DOMAIN p : \E a \in DOMAIN q : a # k /\ p[i] = q[a]
           /\ \A a \in DOMAIN q : a # k => \E i \in DOMAIN p : p[i] = q[a]
           /\ \A i, j \in DOMAIN p : i < j =>
                 \E a, b \in DOMAIN q : a # k /\ b # k /\ a < b /\ p[i] = q[a] /\ p[j] = q[b]
<1> DEFINE old(i) == IF i < k THEN i ELSE i + 1
<1>1. /\ p \in Seq(S) /\ DOMAIN p = 1..(Len(q) - 1) /\ DOMAIN q = 1..Len(q) /\ Len(q) \in Nat
      /\ \A i \in DOMAIN p : p[i] = q[old(i)] /\ old(i) \in DOMAIN q
  BY RemoveAtProperties, LenProperties
<1>2. \A i \in DOMAIN p : old(i) # k
  BY <1>1
<1>3. \A i, j \in DOMAIN p : i < j => old(i) < old(j)
  BY <1>1
<1>4. \A a \in DOMAIN q : a # k => \E i \in DOMAIN p : a = old(i)
  <2>1. TAKE a \in DOMAIN q
  <2>2. CASE a < k
    BY <1>1, <2>2
  <2>3. CASE a > k
    <3>1. a - 1 \in DOMAIN p /\ a = old(a - 1)
      BY <1>1, <2>3
    <3> QED BY <3>1
  <2> QED BY <1>1, <2>2, <2>3
<1> HIDE DEF old
<1> QED BY <1>1, <1>2, <1>3, <1>4

\* The first request of a queue is at position 1.
LEMMA TailIsRemoveAt ==
    ASSUME NEW S, NEW q \in Seq(S), q # <<>>
    PROVE  1 \in DOMAIN q /\ Head(q) = q[1] /\ Tail(q) = RemoveAt(q, 1)
  BY DEF RemoveAt

-----------------------------------------------------------------------------
(* Every step keeps the invariant.                                         *)

\* What a step of the input loop that reads a message leaves alone, and what
\* it knows of the message.
Receiving ==
    Reading /\ sent' = sent + 1 /\ UNCHANGED <<engine, executor, heart, failed, client, runs>>
Numbered(m) ==
    /\ sent < MaxSent /\ m.n = sent + 1 /\ m.id \in Id /\ m.target \in Id
    /\ m.op \in Op => m \in Requests

\* Each part of the invariant depends on its own variables only.
LEMMA Frame ==
    /\ SharedOK /\ UNCHANGED <<queue, active, pending, queuedBytes, sent, promised>> => SharedOK'
    /\ FlagsOK /\ UNCHANGED <<cancelled, stopping, finished, failed>> => FlagsOK'
    /\ StateOK /\ UNCHANGED <<revision, sequence, background, engine, client, heart>> => StateOK'
    /\ HistoryOK /\ UNCHANGED <<answers, runs>> => HistoryOK'
    /\ Places /\ UNCHANGED <<active, executor, engine>> => Places'
    /\ Admitted /\ UNCHANGED <<pending, queue, active>> => Admitted'
    /\ Counted /\ UNCHANGED <<queuedBytes, queue>> => Counted'
    /\ Arrival /\ UNCHANGED <<queue, sent, active, executor>> => Arrival'
    /\ Replying /\ UNCHANGED <<reader, sent, queue, active, executor>> => Replying'
    /\ RunOrder /\ UNCHANGED <<runs, sent, queue, executor, active>> => RunOrder'
    /\ Revisions /\ UNCHANGED <<engine, runs>> => Revisions'
    /\ Published /\ UNCHANGED <<revision, engine, heart, executor, sequence, background>> => Published'
    /\ ClientKnows /\ UNCHANGED <<client, revision, sequence, background>> => ClientKnows'
    /\ Answered /\ UNCHANGED <<answers, sent, failed, queue, active, executor, reader>> => Answered'
    /\ Truthful /\ UNCHANGED <<runs, answers, promised, sent, queue, active, cancelled, executor>> => Truthful'
<1>1. SharedOK /\ UNCHANGED <<queue, active, pending, queuedBytes, sent, promised>> => SharedOK'
  BY DEF SharedOK
<1>2. FlagsOK /\ UNCHANGED <<cancelled, stopping, finished, failed>> => FlagsOK'
  BY DEF FlagsOK
<1>3. StateOK /\ UNCHANGED <<revision, sequence, background, engine, client, heart>> => StateOK'
  BY DEF StateOK
<1>4. HistoryOK /\ UNCHANGED <<answers, runs>> => HistoryOK'
  BY DEF HistoryOK
<1>5. Places /\ UNCHANGED <<active, executor, engine>> => Places'
  BY DEF Places, At
<1>6. Admitted /\ UNCHANGED <<pending, queue, active>> => Admitted'
  BY DEF Admitted
<1>7. Counted /\ UNCHANGED <<queuedBytes, queue>> => Counted'
  BY DEF Counted
<1>8. Arrival /\ UNCHANGED <<queue, sent, active, executor>> => Arrival'
  BY DEF Arrival, At
<1>9. Replying /\ UNCHANGED <<reader, sent, queue, active, executor>> => Replying'
  BY DEF Replying, At
<1>10. RunOrder /\ UNCHANGED <<runs, sent, queue, executor, active>> => RunOrder'
  BY DEF RunOrder, At
<1>11. Revisions /\ UNCHANGED <<engine, runs>> => Revisions'
  BY DEF Revisions, Changes
<1>12. Published /\ UNCHANGED <<revision, engine, heart, executor, sequence, background>> => Published'
  BY DEF Published, At, Known
<1>13. ClientKnows /\ UNCHANGED <<client, revision, sequence, background>> => ClientKnows'
  BY DEF ClientKnows
<1>14. Answered /\ UNCHANGED <<answers, sent, failed, queue, active, executor, reader>> => Answered'
  BY DEF Answered, Owed, At
<1>15. Truthful /\ UNCHANGED <<runs, answers, promised, sent, queue, active, cancelled, executor>> => Truthful'
  BY DEF Truthful, At
<1> QED BY <1>1, <1>2, <1>3, <1>4, <1>5, <1>6, <1>7, <1>8, <1>9, <1>10, <1>11, <1>12, <1>13, <1>14, <1>15

\* Writing replies: a message without one gets it, unless the pipe is broken.
LEMMA AnswerGives ==
    ASSUME HistoryOK, NEW f, Answer(f),
           \A n \in DOMAIN f : n \in 1..MaxSent /\ f[n] \in FinalKinds /\ answers[n] = <<>>
    PROVE  /\ answers' \in [1..MaxSent -> Seq(FinalKinds)]
           /\ \A n \in 1..MaxSent :
                 answers'[n] = IF ~failed /\ n \in DOMAIN f THEN <<f[n]>> ELSE answers[n]
<1>1. DOMAIN answers = 1..MaxSent /\ \A n \in 1..MaxSent : answers[n] \in Seq(FinalKinds)
  BY DEF HistoryOK
<1>2. CASE failed
  BY <1>1, <1>2 DEF Answer, HistoryOK
<1>3. CASE ~failed
  <2>1. answers' = [n \in 1..MaxSent |-> IF n \in DOMAIN f THEN Append(answers[n], f[n])
                                                          ELSE answers[n]]
    BY <1>1, <1>3 DEF Answer
  <2>2. \A x \in FinalKinds : Append(<<>>, x) = <<x>> /\ <<x>> \in Seq(FinalKinds)
    OBVIOUS
  <2> QED BY <1>1, <1>3, <2>1, <2>2
<1> QED BY <1>2, <1>3

\* A step that answers the messages Done, each owed a reply or just read, and
\* owes a reply to what it read otherwise, keeps the account of answers.
LEMMA AnsweredKept ==
    ASSUME Answered, sent \in Nat, sent' \in {sent, sent + 1}, failed' = failed,
           NEW Done \in SUBSET (1..sent'),
           \A n \in 1..MaxSent : answers'[n] = answers[n] \/ (n \in Done /\ Len(answers'[n]) = 1),
           \A n \in Done : ~failed => Len(answers'[n]) = 1,
           failed => answers' = answers,
           \A n \in 1..sent' : Owed(n)' <=> n \notin Done /\ (Owed(n) \/ n = sent + 1),
           sent' <= MaxSent
    PROVE  Answered'
<1> DEFINE Gone(n) == n \notin Done /\ (Owed(n) \/ n = sent + 1)
<1>1. \A n \in 1..MaxSent : n > sent' => n > sent /\ n \notin Done
  BY Bounded
<1>2. \A n \in 1..MaxSent : Len(answers'[n]) <= 1 /\ (n > sent' => answers'[n] = <<>>)
  <2>1. TAKE n \in 1..MaxSent
  <2>2. CASE answers'[n] = answers[n]
    BY <1>1, <2>2 DEF Answered
  <2>3. CASE n \in Done /\ Len(answers'[n]) = 1
    BY <1>1, <2>3
  <2> QED BY <2>2, <2>3
<1>3. ASSUME NEW n \in 1..sent', answers'[n] # <<>> PROVE ~Owed(n)'
  <2>1. n \in 1..MaxSent
    BY Bounded
  <2>2. CASE n \in Done
    BY <2>2
  <2>3. CASE n \notin Done
    BY <1>3, <2>1, <2>3 DEF Answered
  <2> QED BY <2>2, <2>3
<1>4. ASSUME NEW n \in 1..sent', ~failed', ~(Owed(n)') PROVE answers'[n] # <<>>
  <2>1. n \in 1..MaxSent /\ (n = sent + 1 \/ n \in 1..sent)
    BY Bounded
  <2>2. CASE n \in Done
    BY <1>4, <2>2
  <2>3. CASE n \notin Done
    BY <1>4, <2>1, <2>3 DEF Answered
  <2> QED BY <2>2, <2>3
<1> QED BY <1>2, <1>3, <1>4 DEF Answered

\* The request at position k leaves the queue, and nothing else of it changes.
Leaves(k) ==
    /\ k \in DOMAIN queue /\ queue' \in Seq(Requests)
    /\ \A i \in DOMAIN queue' : \E a \in DOMAIN queue : a # k /\ queue'[i] = queue[a]
    /\ \A a \in DOMAIN queue : a # k => \E i \in DOMAIN queue' : queue'[i] = queue[a]
    /\ \A i, j \in DOMAIN queue' : i < j =>
          \E a, b \in DOMAIN queue :
             a # k /\ b # k /\ a < b /\ queue'[i] = queue[a] /\ queue'[j] = queue[b]

\* Removing a request is that.
LEMMA RemoveLeaves ==
    ASSUME IInv, NEW k \in DOMAIN queue, queue' = RemoveAt(queue, k)
    PROVE  Leaves(k)
<1>1. queue \in Seq(Requests)
  BY DEF IInv, SharedOK
<1> QED BY <1>1, RemoveAtKeeps DEF Leaves

\* Its bytes are counted off and the queue stays within its bounds.
LEMMA RemoveCounts ==
    ASSUME IInv, NEW k \in DOMAIN queue, queue' = RemoveAt(queue, k),
           queuedBytes' = queuedBytes - queue[k].bytes
    PROVE  queuedBytes' \in Nat /\ Counted'
<1>1. queue \in Seq(Requests) /\ queuedBytes = QueueBytes(queue)
  BY DEF IInv, SharedOK, Counted
<1>2. queue' \in Seq(Requests) /\ Len(queue') = Len(queue) - 1 /\ Len(queue) \in Nat
  BY <1>1, RemoveAtProperties, LenProperties
<1>3. QueueBytes(queue) = QueueBytes(queue') + queue[k].bytes /\ queue[k].bytes \in Nat
  BY <1>1, BytesOfRemove
<1>4. QueueBytes(queue') \in Nat
  BY <1>2, BytesType
<1>5. queuedBytes' = QueueBytes(queue') /\ queuedBytes' \in Nat /\ queuedBytes' <= queuedBytes
  BY <1>1, <1>3, <1>4
<1>6. Len(queue') <= MaxQueueRequests /\ queuedBytes' <= MaxQueueBytes
  BY <1>2, <1>3, <1>4, <1>5, WorkerAssumption DEF IInv, Counted
<1> QED BY <1>5, <1>6 DEF Counted

\* Its id is free again, and the ids that wait are still distinct.
LEMMA LeavesIds ==
    ASSUME IInv, NEW k, Leaves(k)
    PROVE  /\ {queue'[i].id : i \in DOMAIN queue'} = {queue[i].id : i \in DOMAIN queue} \ {queue[k].id}
           /\ \A i, j \in DOMAIN queue' : queue'[i].id = queue'[j].id => i = j
<1>1. \A a \in DOMAIN queue : a # k => queue[a].id # queue[k].id
  BY DEF IInv, Admitted, Leaves
<1>2. {queue'[i].id : i \in DOMAIN queue'} = {queue[i].id : i \in DOMAIN queue} \ {queue[k].id}
  BY <1>1 DEF Leaves
<1>3. \A i, j \in DOMAIN queue' : i < j => queue'[i].id # queue'[j].id
  <2>1. \A a, b \in DOMAIN queue : a < b => a # b
    BY LenProperties DEF IInv, SharedOK
  <2>2. \A a, b \in DOMAIN queue : a < b => queue[a].id # queue[b].id
    BY <2>1 DEF IInv, Admitted
  <2> QED BY <2>2 DEF Leaves
<1>4. \A i, j \in DOMAIN queue' : i \in Int /\ j \in Int
  BY LenProperties DEF Leaves
<1> QED BY <1>2, <1>3, <1>4

\* The queue is in the order of arrival still, and its numbers are other numbers
\* of the queue before.
LEMMA LeavesOrder ==
    ASSUME IInv, NEW k, Leaves(k)
    PROVE  /\ \A i, j \in DOMAIN queue' : i < j => queue'[i].n < queue'[j].n
           /\ \A n : (\E i \in DOMAIN queue' : queue'[i].n = n) <=>
                     (\E i \in DOMAIN queue : queue[i].n = n) /\ n # queue[k].n
<1>1. \A i, j \in DOMAIN queue' : i < j => queue'[i].n < queue'[j].n
  BY DEF Leaves, IInv, Arrival
<1>2. \A a \in DOMAIN queue : a # k => queue[a].n # queue[k].n
  <2>1. \A a, b \in DOMAIN queue : a \in Int /\ b \in Int
    BY LenProperties DEF IInv, SharedOK
  <2> QED BY <2>1 DEF Leaves, IInv, Arrival
<1>3. ASSUME NEW n
      PROVE  (\E i \in DOMAIN queue' : queue'[i].n = n) <=>
             (\E i \in DOMAIN queue : queue[i].n = n) /\ n # queue[k].n
  BY <1>2 DEF Leaves
<1> QED BY <1>1, <1>3

\* The executor's take removes the first request.
LEMMA TakeLeaves ==
    ASSUME IInv, Take
    PROVE  /\ Leaves(1) /\ active' = queue[1] /\ active' \in Requests
           /\ active' # Nothing /\ active = Nothing
<1>1. queue \in Seq(Requests) /\ queue # <<>>
  BY DEF IInv, SharedOK, Take
<1>2. 1 \in DOMAIN queue /\ Head(queue) = queue[1] /\ Tail(queue) = RemoveAt(queue, 1)
  BY <1>1, TailIsRemoveAt
<1>3. queue[1] \in Requests
  BY <1>1, <1>2, ElementOfSeq, LenProperties
<1>4. active = Nothing
  BY DEF IInv, Places, Take, At
<1> QED BY <1>2, <1>3, <1>4, RemoveLeaves, NothingAssumption DEF Take

\* A set of positions has a least one.
LEMMA MinIsMember ==
    ASSUME NEW S \in SUBSET Nat, S # {}
    PROVE  Min(S) \in S
<1>1. PICK x \in S : \A y \in S : ~(<<y, x>> \in OpToRel(<, Nat))
  BY WFMin, NatLessThanWellFounded, Zenon
<1>2. \A y \in S : ~(y < x)
  BY <1>1 DEF OpToRel
<1>3. \A y \in S : x =< y
  BY <1>2
<1> QED BY <1>3 DEF Min

\* A message not read yet, or still owed a reply, has none.
LEMMA NotAnswered ==
    ASSUME IInv, NEW n \in 1..MaxSent, n > sent \/ Owed(n)
    PROVE  answers[n] = <<>>
<1>1. n \in Nat /\ sent \in Nat /\ (n > sent \/ n \in 1..sent)
  BY Bounded DEF IInv, SharedOK
<1> QED BY <1>1 DEF IInv, Answered

\* A cancelled request leaves the queue, and it and the cancel are answered.
LEMMA CancelLeaves ==
    ASSUME IInv, NEW m, Numbered(m), Receiving, CancelQueued(m)
    PROVE  \E k \in DOMAIN queue :
              /\ Leaves(k) /\ queue' = RemoveAt(queue, k) /\ queue[k].id = m.target
              /\ queuedBytes' = queuedBytes - queue[k].bytes
              /\ queue[k].n \in 1..sent
              /\ answers' \in [1..MaxSent -> Seq(FinalKinds)]
              /\ \A n \in 1..MaxSent :
                    answers'[n] = IF failed THEN answers[n]
                                  ELSE IF n = sent + 1 THEN <<"ok">>
                                  ELSE IF n = queue[k].n THEN <<"cancelled">> ELSE answers[n]
<1> DEFINE k == Min(Waiting(m.target))
           f == Both(One(queue[k].n, "cancelled"), m.n, "ok")
<1>1. k \in DOMAIN queue /\ queue[k].id = m.target
  <2>1. Waiting(m.target) \in SUBSET Nat /\ Waiting(m.target) # {}
    BY LenProperties DEF IInv, SharedOK, Waiting, CancelQueued
  <2>2. k \in Waiting(m.target)
    BY <2>1, MinIsMember
  <2> QED BY <2>2 DEF Waiting
<1>2. queue' = RemoveAt(queue, k) /\ queuedBytes' = queuedBytes - queue[k].bytes /\ Answer(f)
  BY DEF CancelQueued
<1> HIDE DEF k
<1>3. Leaves(k)
  BY <1>1, <1>2, RemoveLeaves
<1>4. queue[k].n \in 1..sent /\ sent + 1 \in 1..MaxSent /\ m.n = sent + 1 /\ sent \in Nat
  <2>0. queue[k] \in Requests
    BY <1>1, ElementOfSeq, LenProperties DEF IInv, SharedOK
  <2>1. queue[k].n \in 1..MaxSent
    BY <2>0 DEF Requests
  <2> QED BY <1>1, <2>1, Bounded DEF IInv, Arrival, SharedOK, Numbered
<1>5. DOMAIN f = {queue[k].n, sent + 1} /\ f[sent + 1] = "ok" /\ f[queue[k].n] = "cancelled"
  BY <1>4 DEF Both, One
<1> HIDE DEF f
<1>6. answers[queue[k].n] = <<>> /\ answers[sent + 1] = <<>>
  <2>1. Owed(queue[k].n) /\ queue[k].n \in 1..MaxSent
    BY <1>1, <1>4, Bounded DEF Owed
  <2> QED BY <1>4, <2>1, NotAnswered
<1>7. \A n \in DOMAIN f : n \in 1..MaxSent /\ f[n] \in FinalKinds /\ answers[n] = <<>>
  <2>1. queue[k].n \in 1..MaxSent
    BY <1>4, Bounded
  <2>2. "ok" \in FinalKinds /\ "cancelled" \in FinalKinds
    BY DEF FinalKinds
  <2> QED BY <1>4, <1>5, <1>6, <2>1, <2>2
<1>8. /\ answers' \in [1..MaxSent -> Seq(FinalKinds)]
      /\ \A n \in 1..MaxSent :
            answers'[n] = IF ~failed /\ n \in DOMAIN f THEN <<f[n]>> ELSE answers[n]
  BY <1>2, <1>7, AnswerGives DEF IInv
<1>9. \A n \in 1..MaxSent :
         answers'[n] = IF failed THEN answers[n]
                       ELSE IF n = sent + 1 THEN <<"ok">>
                       ELSE IF n = queue[k].n THEN <<"cancelled">> ELSE answers[n]
  BY <1>4, <1>5, <1>8
<1> QED BY <1>1, <1>2, <1>3, <1>4, <1>8, <1>9

\* One reply is written.
LEMMA OneGiven ==
    ASSUME IInv, NEW n0 \in 1..MaxSent, NEW kind \in FinalKinds, Answer(One(n0, kind)),
           n0 > sent \/ Owed(n0)
    PROVE  /\ answers' \in [1..MaxSent -> Seq(FinalKinds)]
           /\ \A n \in 1..MaxSent :
                 answers'[n] = IF ~failed /\ n = n0 THEN <<kind>> ELSE answers[n]
<1> DEFINE f == One(n0, kind)
<1>1. DOMAIN f = {n0} /\ f[n0] = kind
  BY DEF One
<1> HIDE DEF f
<1>2. \A n \in DOMAIN f : n \in 1..MaxSent /\ f[n] \in FinalKinds /\ answers[n] = <<>>
  BY <1>1, NotAnswered
<1>3. /\ answers' \in [1..MaxSent -> Seq(FinalKinds)]
      /\ \A n \in 1..MaxSent :
            answers'[n] = IF ~failed /\ n \in DOMAIN f THEN <<f[n]>> ELSE answers[n]
  BY <1>2, AnswerGives DEF IInv, f
<1> QED BY <1>1, <1>3

\* The numbers in the queue are numbers of messages read.
LEMMA QueueNumbers ==
    ASSUME IInv, NEW i \in DOMAIN queue
    PROVE  queue[i].n \in 1..sent /\ queue[i].n \in 1..MaxSent /\ Owed(queue[i].n)
<1>1. queue[i] \in Requests
  BY ElementOfSeq, LenProperties DEF IInv, SharedOK
<1>2. queue[i].n \in 1..MaxSent
  BY <1>1 DEF Requests
<1>3. queue[i].n <= sent /\ sent \in Nat
  BY Bounded DEF IInv, Arrival, SharedOK
<1>4. Owed(queue[i].n)
  BY DEF Owed
<1> QED BY <1>2, <1>3, <1>4, Bounded

\* The queue is dropped: every waiting request is answered, and nothing more
\* unless the message that asked for it is.
LEMMA DropAnswers ==
    ASSUME IInv, Answer(Drained)
    PROVE  /\ answers' \in [1..MaxSent -> Seq(FinalKinds)]
           /\ \A n \in 1..MaxSent :
                 answers'[n] = IF ~failed /\ (\E i \in DOMAIN queue : queue[i].n = n)
                               THEN <<"cancelled">> ELSE answers[n]
<1>1. /\ \A n : n \in DOMAIN Drained <=> \E i \in DOMAIN queue : queue[i].n = n
      /\ \A n \in DOMAIN Drained : Drained[n] = "cancelled"
  BY DEF Drained
<1>2. \A n \in DOMAIN Drained : n \in 1..MaxSent /\ Drained[n] \in FinalKinds /\ answers[n] = <<>>
  <2>1. TAKE n \in DOMAIN Drained
  <2>2. PICK i \in DOMAIN queue : queue[i].n = n
    BY <1>1
  <2>3. n \in 1..MaxSent /\ Owed(n)
    BY <2>2, QueueNumbers
  <2> QED BY <1>1, <2>3, NotAnswered DEF FinalKinds
<1>3. /\ answers' \in [1..MaxSent -> Seq(FinalKinds)]
      /\ \A n \in 1..MaxSent :
            answers'[n] = IF ~failed /\ n \in DOMAIN Drained THEN <<Drained[n]>> ELSE answers[n]
  BY <1>2, AnswerGives DEF IInv
<1> QED BY <1>1, <1>3

\* The same with an answer to the shutdown.
LEMMA ShutdownAnswers ==
    ASSUME IInv, sent + 1 \in 1..MaxSent, Answer(Both(Drained, sent + 1, "ok"))
    PROVE  /\ answers' \in [1..MaxSent -> Seq(FinalKinds)]
           /\ \A n \in 1..MaxSent :
                 answers'[n] = IF failed THEN answers[n]
                               ELSE IF n = sent + 1 THEN <<"ok">>
                               ELSE IF \E i \in DOMAIN queue : queue[i].n = n
                                    THEN <<"cancelled">> ELSE answers[n]
<1> DEFINE f == Both(Drained, sent + 1, "ok")
<1>1. /\ \A n : n \in DOMAIN f <=> n = sent + 1 \/ \E i \in DOMAIN queue : queue[i].n = n
      /\ \A n \in DOMAIN f : f[n] = IF n = sent + 1 THEN "ok" ELSE "cancelled"
  BY DEF Drained, Both
<1> HIDE DEF f
<1>2. \A n \in DOMAIN f : n \in 1..MaxSent /\ f[n] \in FinalKinds /\ answers[n] = <<>>
  <2>1. TAKE n \in DOMAIN f
  <2>2. CASE n = sent + 1
    <3>1. sent + 1 > sent
      BY DEF IInv, SharedOK
    <3> QED BY <1>1, <2>2, <3>1, NotAnswered DEF FinalKinds
  <2>3. CASE n # sent + 1
    <3>1. PICK i \in DOMAIN queue : queue[i].n = n
      BY <1>1, <2>3
    <3>2. n \in 1..MaxSent /\ Owed(n)
      BY <3>1, QueueNumbers
    <3> QED BY <1>1, <2>3, <3>2, NotAnswered DEF FinalKinds
  <2> QED BY <2>2, <2>3
<1>3. /\ answers' \in [1..MaxSent -> Seq(FinalKinds)]
      /\ \A n \in 1..MaxSent :
            answers'[n] = IF ~failed /\ n \in DOMAIN f THEN <<f[n]>> ELSE answers[n]
  BY <1>2, AnswerGives DEF IInv, f
<1> QED BY <1>1, <1>3

Clients == [loaded : BOOLEAN, revision : Nat, project : Nat, sequence : Nat,
            background : Background]

\* What a client makes of a snapshot: it keeps its type, and knows nothing that
\* the snapshot and it did not.
LEMMA ApplyBackgroundKnows ==
    ASSUME NEW c \in Clients, NEW msg, msg.sequence \in Nat, msg.background \in Background
    PROVE  /\ ApplyBackground(c, msg) \in Clients
           /\ ApplyBackground(c, msg).revision = c.revision
           /\ ApplyBackground(c, msg).loaded = c.loaded
           /\ \/ /\ ApplyBackground(c, msg).sequence = msg.sequence
                 /\ ApplyBackground(c, msg).background = msg.background
              \/ /\ ApplyBackground(c, msg).sequence = c.sequence
                 /\ ApplyBackground(c, msg).background = c.background
           /\ c.loaded /\ msg.revision = c.revision /\ msg.sequence > c.sequence =>
                 /\ ApplyBackground(c, msg).sequence = msg.sequence
                 /\ ApplyBackground(c, msg).background = msg.background
<1>1. CASE c.loaded /\ msg.revision = c.revision /\ msg.sequence > c.sequence
  <2>1. ApplyBackground(c, msg)
          = [c EXCEPT !.sequence = msg.sequence, !.background = msg.background]
    BY <1>1 DEF ApplyBackground
  <2> QED BY <2>1 DEF Clients
<1>2. CASE ~(c.loaded /\ msg.revision = c.revision /\ msg.sequence > c.sequence)
  <2>1. ApplyBackground(c, msg) = c
    BY <1>2 DEF ApplyBackground
  <2> QED BY <1>2, <2>1
<1> QED BY <1>1, <1>2

\* A reply the worker published tells a client nothing newer than what is
\* published, and the newest number tells the newest state.
LEMMA ApplyReplyKnows ==
    ASSUME NEW c \in Clients, NEW msg \in FinalReply
    PROVE  /\ ApplyReply(c, msg) \in Clients
           /\ (/\ Known(msg) /\ msg.sequence # 0 /\ revision \in Nat /\ sequence \in Nat
               /\ c.revision <= revision /\ c.sequence <= sequence
               /\ c.loaded /\ c.sequence = sequence => c.background = background)
              => LET d == ApplyReply(c, msg)
                 IN  /\ d.revision <= revision /\ d.sequence <= sequence
                     /\ d.loaded /\ d.sequence = sequence => d.background = background
<1> DEFINE known == [c EXCEPT !.revision = msg.revision, !.project = msg.project]
           fresh == [known EXCEPT !.loaded = TRUE, !.sequence = 0, !.background = NoBackground]
<1>1. /\ msg.sequence \in Nat /\ msg.background \in Background /\ msg.revision \in Nat
      /\ msg.project \in Nat
  BY DEF FinalReply
<1>2. NoBackground \in Background
  BY DEF NoBackground, Background
<1>3. /\ known \in Clients /\ known.revision = msg.revision /\ known.sequence = c.sequence
      /\ known.background = c.background /\ known.loaded = c.loaded
  BY <1>1 DEF Clients
<1>4. /\ fresh \in Clients /\ fresh.revision = msg.revision /\ fresh.sequence = 0 /\ fresh.loaded
  BY <1>1, <1>2 DEF Clients
<1>5. \/ ApplyReply(c, msg) = ApplyBackground(fresh, msg)
      \/ ApplyReply(c, msg) = c
      \/ ApplyReply(c, msg) = ApplyBackground(known, msg)
  BY DEF ApplyReply
<1> HIDE DEF known, fresh
<1>6. ApplyReply(c, msg) \in Clients
  BY <1>1, <1>3, <1>4, <1>5, ApplyBackgroundKnows
<1>7. ASSUME Known(msg), msg.sequence # 0, revision \in Nat, sequence \in Nat,
             c.revision <= revision, c.sequence <= sequence,
             c.loaded /\ c.sequence = sequence => c.background = background,
             NEW d, d = ApplyReply(c, msg)
      PROVE  /\ d.revision <= revision /\ d.sequence <= sequence
             /\ d.loaded /\ d.sequence = sequence => d.background = background
  <2>1. CASE d = ApplyBackground(fresh, msg)
    <3>1. d.revision = msg.revision /\ d.sequence = msg.sequence /\ d.background = msg.background
      <4>1. fresh.loaded /\ msg.revision = fresh.revision /\ msg.sequence > fresh.sequence
        BY <1>1, <1>4, <1>7
      <4> QED BY <1>1, <1>4, <2>1, <4>1, ApplyBackgroundKnows
    <3> QED BY <1>7, <3>1 DEF Known
  <2>2. CASE d = c
    BY <1>7, <2>2
  <2>3. CASE d = ApplyBackground(known, msg)
    <3>1. /\ d.revision = msg.revision /\ d.loaded = c.loaded
          /\ \/ d.sequence = msg.sequence /\ d.background = msg.background
             \/ d.sequence = c.sequence /\ d.background = c.background
      BY <1>1, <1>3, <2>3, ApplyBackgroundKnows
    <3> QED BY <1>7, <3>1 DEF Known
  <2> QED BY <1>5, <1>7, <2>1, <2>2, <2>3
<1> QED BY <1>6, <1>7

\* A step of background work publishes what it leaves, and announces that or
\* nothing.
LEMMA IdleStep ==
    ASSUME IInv, IdleEnd
    PROVE  \E bg \in Background :
              /\ engine' = [engine EXCEPT !.background = bg]
              /\ background' = bg /\ sequence' = sequence + 1
              /\ \/ /\ executor'.at = "announce"
                    /\ executor'.msg = [revision |-> revision, sequence |-> sequence',
                                        background |-> bg]
                 \/ executor'.at = "wait"
<1>1. engine.background \in Background /\ engine.background.left # 0
  BY DEF IInv, StateOK, Places, IdleEnd
<1>2. [discovered |-> TRUE, left |-> engine.background.left - 1] \in Background
  BY <1>1 DEF Background
<1> DEFINE left(done) ==
             IF done THEN [discovered |-> TRUE, left |-> engine.background.left - 1]
                     ELSE engine.background
<1>3. PICK done \in BOOLEAN :
         /\ engine' = [engine EXCEPT !.background = left(done)]
         /\ PublishBackground(left(done))
         /\ IF ~executor.msg /\ left(done).discovered
            THEN Hold("announce", [revision |-> revision, sequence |-> sequence',
                                   background |-> left(done)])
            ELSE Go("wait")
  BY DEF IdleEnd
<1>4. left(done) \in Background
  BY <1>1, <1>2
<1> HIDE DEF left
<1> WITNESS left(done) \in Background
<1> QED BY <1>3 DEF PublishBackground, Hold, Go

\* What a request may leave behind.
LEMMA OutcomeTypes ==
    ASSUME NEW request \in Requests, NEW outcome \in Outcomes(request)
    PROVE  outcome.kind \in Kinds /\ outcome.changed \in BOOLEAN
<1>1. request.op \in Op
  BY DEF Requests
<1> DEFINE Set == [kind : Kinds, changed : BOOLEAN]
<1>2. \A k \in Kinds : [kind |-> k, changed |-> TRUE] \in Set /\ [kind |-> k, changed |-> FALSE] \in Set
  OBVIOUS
<1>3. "ok" \in Kinds /\ "error" \in Kinds /\ "stopped" \in Kinds
  BY DEF Kinds
<1>4. [kind : {"ok", "error"}, changed : BOOLEAN] \subseteq Set
  BY <1>3
<1>5. outcome \in Set
  <2>1. CASE request.op = "open"
    <3>1. Outcomes(request) = {[kind |-> "ok", changed |-> TRUE], [kind |-> "error", changed |-> FALSE]}
      BY <2>1 DEF Outcomes
    <3> HIDE DEF Set
    <3> QED BY <1>2, <1>3, <3>1
  <2>2. CASE request.op = "edit"
    <3>1. Outcomes(request) = IF engine.project = 0 THEN {[kind |-> "error", changed |-> FALSE]}
                              ELSE [kind : {"ok", "error"}, changed : BOOLEAN]
      BY <2>2 DEF Outcomes
    <3> DEFINE E == [kind : {"ok", "error"}, changed : BOOLEAN]
               e == [kind |-> "error", changed |-> FALSE]
    <3>2. e \in Set /\ E \subseteq Set
      BY <1>2, <1>3, <1>4
    <3>3. outcome \in E \/ outcome = e
      BY <3>1
    <3> HIDE DEF Set, E, e
    <3> QED BY <3>2, <3>3
  <2>3. CASE request.op = "compare"
    <3>1. Outcomes(request) =
            {[kind |-> "ok", changed |-> FALSE]} \union
            (IF cancelled THEN {[kind |-> "stopped", changed |-> FALSE]} ELSE {})
      BY <2>3 DEF Outcomes
    <3> HIDE DEF Set
    <3> QED BY <1>2, <1>3, <3>1
  <2> QED BY <1>1, <2>1, <2>2, <2>3 DEF Op
<1> QED BY <1>5

\* A request the engine does not refuse names the engine's revision or none, and
\* is recorded with whether it changed the project.
Ran1(changed) ==
    /\ runs' = Append(runs, [n |-> active.n, expects |-> active.expects, changed |-> changed])
    /\ active.expects # Nothing => active.expects = engine.revision
    /\ engine'.revision = IF changed THEN engine.revision + 1 ELSE engine.revision

\* The engine refuses the request, or runs it; the reply tells the revision
\* either way.
LEMMA RunStep ==
    ASSUME IInv, Run
    PROVE  /\ active \in Requests /\ active # Nothing /\ active' = active
           /\ engine' \in [revision : Nat, project : Nat, background : Background]
           /\ executor'.at = "publish" /\ executor'.msg \in Result
           /\ executor'.msg.n = active.n /\ executor'.msg.id = active.id
           /\ executor'.msg.revision = engine'.revision
           /\ (engine' = engine /\ runs' = runs) \/ \E changed \in BOOLEAN : Ran1(changed)
<1>1. active \in Requests /\ active # Nothing /\ active' = active
  BY DEF IInv, Places, SharedOK, Run, At, shared
<1>2. active.n \in 1..MaxSent /\ active.id \in Id
  BY <1>1 DEF Requests
<1>3. engine \in [revision : Nat, project : Nat, background : Background]
  BY DEF IInv, StateOK
<1>4. ASSUME NEW e \in [revision : Nat, project : Nat, background : Background],
             NEW kind \in Kinds, executor' = [at |-> "publish", msg |-> Reply(active, e, kind)]
      PROVE  /\ executor'.at = "publish" /\ executor'.msg \in Result
             /\ executor'.msg.n = active.n /\ executor'.msg.id = active.id
             /\ executor'.msg.revision = e.revision
  BY <1>2, <1>4 DEF Reply, Result
<1>5. CASE Stale(active) /\ Hold("publish", Reply(active, engine, "error"))
           /\ UNCHANGED <<engine, runs>>
  BY <1>1, <1>3, <1>4, <1>5 DEF Hold, Kinds
<1>6. ASSUME ~Stale(active), NEW outcome \in Outcomes(active),
             engine' = After(active, outcome), Hold("publish", Reply(active, engine', outcome.kind)),
             runs' = Append(runs, [n |-> active.n, expects |-> active.expects,
                                   changed |-> outcome.changed])
      PROVE  /\ engine' \in [revision : Nat, project : Nat, background : Background]
             /\ executor'.at = "publish" /\ executor'.msg \in Result
             /\ executor'.msg.n = active.n /\ executor'.msg.id = active.id
             /\ executor'.msg.revision = engine'.revision
             /\ \E changed \in BOOLEAN : Ran1(changed)
  <2>1. outcome.kind \in Kinds /\ outcome.changed \in BOOLEAN
    BY <1>1, <1>6, OutcomeTypes
  <2>2. /\ engine' \in [revision : Nat, project : Nat, background : Background]
        /\ engine'.revision = IF outcome.changed THEN engine.revision + 1 ELSE engine.revision
    <3>1. CASE outcome.changed
      <4> DEFINE project == IF active.op = "open" THEN engine.revision + 1 ELSE engine.project
                 bg == [discovered |-> active.op # "open" /\ engine.background.discovered,
                        left |-> IdleSteps]
      <4>1. engine' = [revision |-> engine.revision + 1, project |-> project, background |-> bg]
        BY <1>6, <3>1 DEF After
      <4>2. project \in Nat
        BY <1>3
      <4>3. bg \in Background
        <5>1. engine.background.discovered \in BOOLEAN
          BY <1>3 DEF Background
        <5>2. (active.op # "open" /\ engine.background.discovered) \in BOOLEAN
          BY <5>1
        <5>3. IdleSteps \in Nat
          BY WorkerAssumption
        <5> QED BY <5>2, <5>3 DEF Background
      <4> HIDE DEF project, bg
      <4> QED BY <1>3, <3>1, <4>1, <4>2, <4>3
    <3>2. CASE ~outcome.changed
      BY <1>3, <1>6, <3>2 DEF After
    <3> QED BY <3>1, <3>2
  <2>3. /\ executor'.at = "publish" /\ executor'.msg \in Result
        /\ executor'.msg.n = active.n /\ executor'.msg.id = active.id
        /\ executor'.msg.revision = engine'.revision
    BY <1>4, <1>6, <2>1, <2>2 DEF Hold
  <2>4. active.expects # Nothing => active.expects = engine.revision
    BY <1>6 DEF Stale
  <2>5. Ran1(outcome.changed)
    BY <1>6, <2>2, <2>4 DEF Ran1
  <2> QED BY <2>1, <2>2, <2>3, <2>5
<1> QED BY <1>1, <1>3, <1>5, <1>6 DEF Run

\* The record of what ran grows at its end.
LEMMA RunsGrow ==
    ASSUME IInv, NEW changed, Ran1(changed)
    PROVE  /\ Len(runs) \in Nat /\ DOMAIN runs = 1..Len(runs) /\ DOMAIN runs' = 1..(Len(runs) + 1)
           /\ Len(runs') = Len(runs) + 1
           /\ \A i \in 1..Len(runs) : runs'[i] = runs[i]
           /\ runs'[Len(runs) + 1].n = active.n
           /\ runs'[Len(runs) + 1].expects = active.expects
           /\ runs'[Len(runs) + 1].changed = changed
<1>1. runs \in Seq([n : 1..MaxSent, expects : Nat \union {Nothing}, changed : BOOLEAN])
  BY DEF IInv, HistoryOK
<1> DEFINE r == [n |-> active.n, expects |-> active.expects, changed |-> changed]
<1>2. runs' = Append(runs, r)
  BY DEF Ran1
<1> HIDE DEF r
<1>3. /\ Len(runs) \in Nat /\ DOMAIN runs = 1..Len(runs) /\ DOMAIN runs' = 1..(Len(runs) + 1)
      /\ Len(runs') = Len(runs) + 1
      /\ \A i \in 1..Len(runs) : runs'[i] = runs[i]
      /\ runs'[Len(runs) + 1] = r
  BY <1>1, <1>2
<1> QED BY <1>3 DEF r

\* The engine starts, or fails to.
LEMMA StartEngineKeeps ==
    ASSUME IInv, StartEngine
    PROVE  IInv'
<1>1. (SharedOK /\ FlagsOK /\ StateOK /\ HistoryOK /\ Admitted /\ Counted /\ Revisions /\
       ClientKnows)'
  BY Frame DEF IInv, StartEngine, shared, ghosts
<1>2. Places'
  BY DEF IInv, Places, StartEngine, shared, At, Go
<1>3. Arrival'
  BY DEF IInv, Arrival, StartEngine, shared, ghosts, At, Go
<1>4. Replying'
  BY DEF IInv, Replying, StartEngine, shared, ghosts, At, Go
<1>5. RunOrder'
  BY DEF IInv, RunOrder, StartEngine, shared, ghosts, At, Go
<1>6. Published'
  BY DEF IInv, Published, StartEngine, shared, At, Go, Known
<1>7. Truthful'
  BY DEF IInv, Truthful, StartEngine, At, Go, shared, ghosts
<1>8. Answered'
  <2>1. \A n : Owed(n)' <=> Owed(n)
    BY DEF Owed, StartEngine, At, Go, shared
  <2> QED BY <2>1 DEF IInv, Answered, StartEngine, ghosts
<1> QED BY <1>1, <1>2, <1>3, <1>4, <1>5, <1>6, <1>7, <1>8 DEF IInv

\* Background work begins: nothing shared changes.
LEMMA IdleBeginKeeps ==
    ASSUME IInv, IdleBegin
    PROVE  IInv'
<1>1. (SharedOK /\ FlagsOK /\ StateOK /\ HistoryOK /\ Admitted /\ Counted /\ Revisions /\
       ClientKnows)'
  BY Frame DEF IInv, IdleBegin, shared, ghosts
<1>2. Arrival'
  BY DEF IInv, Arrival, IdleBegin, shared, At, Hold, Places
<1>3. Replying'
  BY DEF IInv, Replying, IdleBegin, shared, ghosts, At, Hold
<1>4. RunOrder'
  BY DEF IInv, RunOrder, IdleBegin, shared, ghosts, At, Hold
<1>5. Published'
  BY DEF IInv, Published, IdleBegin, shared, At, Hold, Known
<1>6. Answered'
  BY Bounded, Zenon DEF IInv, Answered, IdleBegin, shared, ghosts, At, Hold, Owed
<1>7. Truthful'
  BY DEF IInv, Truthful, IdleBegin, shared, ghosts, At, Hold
<1>8. Places'
  <2>1. background.discovered \in BOOLEAN
    BY DEF IInv, StateOK, Background
  <2>2. engine.background.left # 0 /\ executor'.at = "idle" /\ executor'.msg = background.discovered
    BY DEF IdleBegin, Hold, IInv, StateOK, Background
  <2>3. active = Nothing /\ active' = active /\ engine' = engine
    BY DEF IdleBegin, IInv, Places, At, shared
  <2> QED BY <2>1, <2>2, <2>3 DEF Places, At
<1> QED BY <1>1, <1>2, <1>3, <1>4, <1>5, <1>6, <1>7, <1>8 DEF IInv

\* Background work ends under a number of its own.
LEMMA IdleEndKeeps ==
    ASSUME IInv, IdleEnd
    PROVE  IInv'
<1>1. (SharedOK /\ FlagsOK /\ HistoryOK /\ Admitted /\ Counted)'
  BY Frame DEF IInv, IdleEnd, ghosts
<1>2. Arrival'
  BY DEF IInv, Arrival, IdleEnd, ghosts, At, Go, Hold
<1>3. Replying'
  BY DEF IInv, Replying, IdleEnd, ghosts, At, Go, Hold
<1>4. RunOrder'
  BY DEF IInv, RunOrder, IdleEnd, ghosts, At, Go, Hold
<1>5. Revisions'
  BY DEF IInv, Revisions, IdleEnd, ghosts, Changes
<1>6. ClientKnows'
  BY DEF IInv, ClientKnows, IdleEnd, PublishBackground, StateOK
<1>7. Answered'
  BY DEF IInv, Answered, IdleEnd, ghosts, At, Go, Hold, Owed
<1>8. Truthful'
  BY DEF IInv, Truthful, IdleEnd, ghosts, At, Go, Hold
<1>9. StateOK'
  <2>1. PICK bg \in Background : engine' = [engine EXCEPT !.background = bg] /\ background' = bg
                                 /\ sequence' = sequence + 1
    BY IdleStep
  <2>2. engine' \in [revision : Nat, project : Nat, background : Background]
    BY <2>1 DEF IInv, StateOK
  <2>3. sequence' \in Nat
    BY <2>1 DEF IInv, StateOK
  <2> QED BY <2>1, <2>2, <2>3 DEF IInv, StateOK, IdleEnd
<1>10. Places'
  <2>1. PICK bg \in Background : engine' = [engine EXCEPT !.background = bg] /\ sequence' = sequence + 1
           /\ \/ /\ executor'.at = "announce"
                 /\ executor'.msg = [revision |-> revision, sequence |-> sequence', background |-> bg]
              \/ executor'.at = "wait"
    BY IdleStep
  <2>2. active = Nothing /\ active' = active /\ revision \in Nat /\ sequence' \in Nat
    BY <2>1 DEF IdleEnd, IInv, Places, At, StateOK
  <2>3. executor'.at = "announce" => executor'.msg \in Snapshot
    BY <2>1, <2>2 DEF Snapshot
  <2> QED BY <2>1, <2>2, <2>3 DEF Places, At
<1>11. Published'
  <2>1. PICK bg \in Background : engine' = [engine EXCEPT !.background = bg] /\ background' = bg
           /\ sequence' = sequence + 1
           /\ \/ /\ executor'.at = "announce"
                 /\ executor'.msg = [revision |-> revision, sequence |-> sequence', background |-> bg]
              \/ executor'.at = "wait"
    BY IdleStep
  <2>2. revision \in Nat /\ sequence \in Nat /\ heart' = heart /\ revision' = revision
        /\ engine'.revision = engine.revision
    BY <2>1 DEF IInv, StateOK, IdleEnd
  <2>3. heart # Nothing => Known(heart)'
    BY <2>1, <2>2 DEF IInv, Published, Known, StateOK, Snapshot
  <2>4. executor'.at = "announce" => Known(executor.msg)'
    BY <2>1, <2>2 DEF Known
  <2>5. revision <= engine.revision
    BY DEF IInv, Published
  <2> QED BY <2>1, <2>2, <2>3, <2>4, <2>5 DEF Published, At
<1> QED BY <1>1, <1>2, <1>3, <1>4, <1>5, <1>6, <1>7, <1>8, <1>9, <1>10, <1>11 DEF IInv

\* The end of discovery reaches the client.
LEMMA AnnounceKeeps ==
    ASSUME IInv, Announce
    PROVE  IInv'
<1>1. (SharedOK /\ FlagsOK /\ HistoryOK /\ Admitted /\ Counted /\ Revisions)'
  BY Frame DEF IInv, Announce, shared, ghosts
<1>2. StateOK'
  BY Zenon DEF IInv, StateOK, Announce, shared, Deliver, ApplyBackground, Places, Snapshot
<1>3. Places'
  BY DEF IInv, Places, Announce, shared, At, Go
<1>4. Arrival'
  BY DEF IInv, Arrival, Announce, shared, ghosts, At, Go
<1>5. Replying'
  BY DEF IInv, Replying, Announce, shared, ghosts, At, Go
<1>6. RunOrder'
  BY DEF IInv, RunOrder, Announce, shared, ghosts, At, Go
<1>7. Published'
  BY DEF IInv, Published, Announce, shared, At, Go, Known
<1>8. ClientKnows'
  BY DEF IInv, ClientKnows, Announce, shared, Deliver, ApplyBackground, Published, Known
<1>9. Answered'
  BY DEF IInv, Answered, Announce, shared, ghosts, At, Go, Owed
<1>10. Truthful'
  BY DEF IInv, Truthful, Announce, shared, ghosts, At, Go
<1> QED BY <1>1, <1>2, <1>3, <1>4, <1>5, <1>6, <1>7, <1>8, <1>9, <1>10 DEF IInv

\* The first request leaves the queue with its bytes.
LEMMA TakeKeeps ==
    ASSUME IInv, Take
    PROVE  IInv'
<1>1. (StateOK /\ HistoryOK /\ Revisions /\ ClientKnows)'
  BY Frame DEF IInv, Take, ghosts
<1>2. FlagsOK'
  BY Zenon DEF IInv, FlagsOK, Take
<1>3. Places'
  BY NothingAssumption DEF IInv, Places, Take, At, Go, SharedOK
<1>4. Replying'
  BY DEF IInv, Replying, Take, ghosts, At, Go, SharedOK
<1>5. RunOrder'
  BY Bounded DEF IInv, RunOrder, Take, ghosts
<1>6. Published'
  BY DEF IInv, Published, Take, At, Go, Known
<1>7. SharedOK'
  <2>1. queue \in Seq(Requests) /\ queue # <<>>
    BY DEF IInv, SharedOK, Take
  <2>2. 1 \in DOMAIN queue /\ Head(queue) = queue[1] /\ Tail(queue) = RemoveAt(queue, 1)
    BY <2>1, TailIsRemoveAt
  <2>3. queuedBytes' \in Nat
    BY <2>2, RemoveCounts DEF Take
  <2>4. queue' \in Seq(Requests) /\ active' \in Requests
    BY <2>1, HeadTailProperties DEF Take
  <2> QED BY <2>3, <2>4 DEF IInv, SharedOK, Take, ghosts
<1>8. Admitted'
  <2>1. Leaves(1) /\ active' = queue[1] /\ active' # Nothing /\ active = Nothing
    BY TakeLeaves
  <2>2. /\ {queue'[i].id : i \in DOMAIN queue'} = {queue[i].id : i \in DOMAIN queue} \ {queue[1].id}
        /\ \A i, j \in DOMAIN queue' : queue'[i].id = queue'[j].id => i = j
    BY <2>1, LeavesIds
  <2>3. queue[1].id \in {queue[i].id : i \in DOMAIN queue} /\ pending' = pending
    BY <2>1 DEF Leaves, Take
  <2>4. \A i \in DOMAIN queue' : queue'[i].id # queue[1].id
    BY <2>2
  <2>5. pending = {queue[i].id : i \in DOMAIN queue}
    BY <2>1 DEF IInv, Admitted
  <2>6. {r.id : r \in {active'} \ {Nothing}} = {queue[1].id}
    BY <2>1
  <2> QED BY <2>1, <2>2, <2>3, <2>4, <2>5, <2>6 DEF Admitted
<1>9. Counted'
  <2>1. 1 \in DOMAIN queue /\ queue' = RemoveAt(queue, 1) /\ Head(queue) = queue[1]
    BY TailIsRemoveAt DEF IInv, SharedOK, Take
  <2> QED BY <2>1, RemoveCounts DEF Take
<1>10. Arrival'
  <2>1. Leaves(1) /\ active' = queue[1]
    BY TakeLeaves
  <2>2. \A i \in DOMAIN queue' : queue[1].n < queue'[i].n /\ queue'[i].n \in Nat /\ queue'[i].n <= sent
    <3>1. \A a \in DOMAIN queue : a # 1 => 1 < a
      BY LenProperties DEF IInv, SharedOK
    <3> QED BY <2>1, <3>1 DEF Leaves, IInv, Arrival
  <2>3. \A i, j \in DOMAIN queue' : i < j => queue'[i].n < queue'[j].n
    BY <2>1, LeavesOrder
  <2>4. queue[1].n \in Nat /\ queue[1].n <= sent
    BY <2>1 DEF Leaves, IInv, Arrival
  <2> QED BY <2>1, <2>2, <2>3, <2>4 DEF Arrival, Take, At, Go, ghosts
<1>11. Answered'
  <2>1. Leaves(1) /\ active' = queue[1] /\ active' # Nothing /\ active = Nothing
    BY TakeLeaves
  <2>2. ASSUME NEW n PROVE Owed(n)' <=> Owed(n)
    <3>1. (\E i \in DOMAIN queue' : queue'[i].n = n) <=>
          (\E i \in DOMAIN queue : queue[i].n = n) /\ n # queue[1].n
      BY <2>1, LeavesOrder
    <3>2. 1 \in DOMAIN queue
      BY <2>1 DEF Leaves
    <3> QED BY <2>1, <3>1, <3>2 DEF Owed, Take, At, Go
  <2> QED BY <2>2 DEF IInv, Answered, Take, ghosts
<1>12. Truthful'
  <2>1. Leaves(1) /\ active' = queue[1]
    BY TakeLeaves
  <2>2. \A n \in promised : n # active'.n /\ \A i \in DOMAIN queue' : n < queue'[i].n
    BY <2>1 DEF Leaves, IInv, Truthful, Arrival
  <2> QED BY <2>2 DEF IInv, Truthful, Take, At, Go, ghosts
<1> QED BY <1>1, <1>2, <1>3, <1>4, <1>5, <1>6, <1>7, <1>8, <1>9, <1>10, <1>11, <1>12 DEF
   IInv

\* The engine runs or refuses the request.
LEMMA RunKeeps ==
    ASSUME IInv, Run
    PROVE  IInv'
<1>1. (SharedOK /\ FlagsOK /\ Admitted /\ Counted /\ ClientKnows)'
  BY Frame DEF IInv, Run, shared
<1>2. StateOK'
  <2>1. engine' \in [revision : Nat, project : Nat, background : Background]
    BY RunStep
  <2> QED BY <2>1 DEF IInv, StateOK, Run, shared
<1>3. HistoryOK'
  <2>1. (runs' = runs) \/ \E changed \in BOOLEAN : Ran1(changed)
    BY RunStep
  <2>2. active \in Requests
    BY RunStep
  <2>3. ASSUME NEW changed \in BOOLEAN, Ran1(changed)
        PROVE  runs' \in Seq([n : 1..MaxSent, expects : Nat \union {Nothing}, changed : BOOLEAN])
    <3>1. [n |-> active.n, expects |-> active.expects, changed |-> changed]
             \in [n : 1..MaxSent, expects : Nat \union {Nothing}, changed : BOOLEAN]
      BY <2>2 DEF Requests
    <3> QED BY <2>3, <3>1, AppendProperties DEF Ran1, IInv, HistoryOK
  <2> QED BY <2>1, <2>3 DEF IInv, HistoryOK, Run
<1>4. Places'
  <2>1. /\ active # Nothing /\ active' = active /\ executor'.at = "publish"
        /\ executor'.msg \in Result /\ executor'.msg.n = active.n /\ executor'.msg.id = active.id
    BY RunStep
  <2> QED BY <2>1 DEF Places, At
<1>5. Arrival'
  <2>1. executor'.at = "publish"
    BY RunStep
  <2> QED BY <2>1 DEF IInv, Arrival, Run, shared, At
<1>6. Replying'
  <2>1. executor'.at = "publish"
    BY RunStep
  <2> QED BY <2>1 DEF IInv, Replying, Run, shared, At
<1>7. RunOrder'
  <2>1. executor'.at = "publish" /\ active # Nothing /\ active \in Requests
        /\ (runs' = runs \/ \E changed \in BOOLEAN : Ran1(changed))
    BY RunStep
  <2>2. CASE runs' = runs
    BY <2>1, <2>2 DEF IInv, RunOrder, Run, shared, At
  <2>3. ASSUME NEW changed \in BOOLEAN, Ran1(changed) PROVE RunOrder'
    <3>1. /\ DOMAIN runs = 1..Len(runs) /\ DOMAIN runs' = 1..(Len(runs) + 1) /\ Len(runs) \in Nat
          /\ \A i \in 1..Len(runs) : runs'[i] = runs[i]
          /\ runs'[Len(runs) + 1].n = active.n
      BY <2>3, RunsGrow
    <3>2. active.n \in 1..MaxSent
      BY <2>1 DEF Requests
    <3>3. active.n <= sent /\ \A j \in DOMAIN queue : active.n < queue[j].n
      BY <2>1 DEF IInv, Arrival
    <3>4. \A i \in DOMAIN runs : runs[i].n \in 1..MaxSent /\ runs[i].n < active.n
      BY DEF IInv, RunOrder, Run
    <3>5. \A i, j \in DOMAIN runs' : i < j => runs'[i].n < runs'[j].n
      BY <3>1, <3>4 DEF IInv, RunOrder
    <3>6. \A i \in DOMAIN runs' : /\ runs'[i].n \in 1..MaxSent /\ runs'[i].n <= sent
                                  /\ \A j \in DOMAIN queue : runs'[i].n < queue[j].n
      BY <3>1, <3>2, <3>3 DEF IInv, RunOrder
    <3> QED BY <2>1, <3>5, <3>6 DEF RunOrder, Run, shared, At
  <2> QED BY <2>1, <2>2, <2>3
<1>8. Revisions'
  <2>1. (engine' = engine /\ runs' = runs) \/ \E changed \in BOOLEAN : Ran1(changed)
    BY RunStep
  <2>2. CASE engine' = engine /\ runs' = runs
    BY <2>2 DEF IInv, Revisions, Changes
  <2>3. ASSUME NEW changed \in BOOLEAN, Ran1(changed) PROVE Revisions'
    <3> DEFINE N == Len(runs)
               C(k) == {j \in 1..k : runs[j].changed}
               D(k) == {j \in 1..k : runs'[j].changed}
    <3>1. /\ DOMAIN runs = 1..N /\ DOMAIN runs' = 1..(N + 1) /\ N \in Nat /\ Len(runs') = N + 1
          /\ \A i \in 1..N : runs'[i] = runs[i]
          /\ runs'[N + 1].changed = changed /\ runs'[N + 1].expects = active.expects
      BY <2>3, RunsGrow
    <3> HIDE DEF N
    <3>2. \A k \in 0..N : D(k) = C(k)
      BY <3>1
    <3>3. D(N + 1) = IF changed THEN C(N) \union {N + 1} ELSE C(N)
      BY <3>1
    <3>4. IsFiniteSet(C(N)) /\ N + 1 \notin C(N)
      <4>1. IsFiniteSet(1..N) /\ C(N) \subseteq 1..N
        BY <3>1, FS_Interval
      <4> QED BY <3>1, <4>1, FS_Subset
    <3>5. Cardinality(C(N)) = engine.revision
      BY DEF IInv, Revisions, Changes, N
    <3>6. Cardinality(D(N + 1)) = engine'.revision
      <4>1. Cardinality(C(N) \union {N + 1}) = Cardinality(C(N)) + 1
        BY <3>4, FS_AddElement
      <4> HIDE DEF C, D
      <4> QED BY <2>3, <3>3, <3>5, <4>1 DEF Ran1
    <3>7. ASSUME NEW i \in DOMAIN runs', runs'[i].expects # Nothing
          PROVE  runs'[i].expects = Cardinality(D(i - 1))
      <4>1. CASE i = N + 1
        <5>1. i - 1 = N /\ N \in 0..N
          BY <3>1, <4>1
        <5>2. D(i - 1) = C(N)
          BY <3>2, <5>1
        <5>3. runs'[i].expects = engine.revision
          BY <2>3, <3>1, <3>7, <4>1 DEF Ran1
        <5> HIDE DEF C, D
        <5> QED BY <3>5, <5>2, <5>3
      <4>2. CASE i \in 1..N
        <5>1. i - 1 \in 0..N
          BY <3>1, <4>2
        <5>2. D(i - 1) = C(i - 1)
          BY <3>2, <5>1
        <5>3. runs'[i] = runs[i] /\ i \in DOMAIN runs
          BY <3>1, <4>2
        <5>4. runs[i].expects = Cardinality(C(i - 1))
          BY <3>7, <5>3 DEF IInv, Revisions, Changes
        <5> HIDE DEF C, D
        <5> QED BY <5>2, <5>3, <5>4
      <4> QED BY <3>1, <4>1, <4>2
    <3> QED BY <3>1, <3>6, <3>7 DEF Revisions, Changes
  <2> QED BY <2>1, <2>2, <2>3
<1>9. Published'
  <2>1. /\ executor'.at = "publish" /\ executor'.msg.revision = engine'.revision
        /\ (engine' = engine \/ \E changed \in BOOLEAN : Ran1(changed))
    BY RunStep
  <2>2. engine.revision \in Nat /\ revision \in Nat
    BY DEF IInv, StateOK
  <2>3. revision <= engine.revision
    BY DEF IInv, Published
  <2>4. engine'.revision \in {engine.revision, engine.revision + 1}
    BY <2>1 DEF Ran1
  <2>5. revision <= engine'.revision
    BY <2>2, <2>3, <2>4
  <2> QED BY <2>1, <2>5 DEF IInv, Published, Known, Run, shared, At
<1>10. Answered'
  <2>1. executor'.at = "publish"
    BY RunStep
  <2>2. \A n : Owed(n)' <=> Owed(n)
    BY <2>1 DEF Owed, Run, shared, At
  <2> QED BY <2>2 DEF IInv, Answered, Run
<1>11. Truthful'
  <2>1. executor'.at = "publish" /\ active # Nothing /\ active \in Requests
        /\ (runs' = runs \/ \E changed \in BOOLEAN : Ran1(changed))
    BY RunStep
  <2>2. ASSUME NEW i \in DOMAIN runs' PROVE answers[runs'[i].n] # <<"cancelled">>
    <3>1. CASE runs' = runs
      BY <3>1 DEF IInv, Truthful
    <3>2. ASSUME NEW changed \in BOOLEAN, Ran1(changed) PROVE answers[runs'[i].n] # <<"cancelled">>
      <4>1. /\ DOMAIN runs = 1..Len(runs) /\ DOMAIN runs' = 1..(Len(runs) + 1) /\ Len(runs) \in Nat
            /\ \A j \in 1..Len(runs) : runs'[j] = runs[j]
            /\ runs'[Len(runs) + 1].n = active.n
        BY <3>2, RunsGrow
      <4>2. answers[active.n] = <<>>
        <5>1. active.n \in 1..MaxSent
          BY <2>1 DEF Requests
        <5>2. Owed(active.n)
          BY <2>1 DEF Owed
        <5> QED BY <5>1, <5>2, NotAnswered
      <4>3. CASE i = Len(runs) + 1
        <5>1. <<>> # <<"cancelled">>
          OBVIOUS
        <5> QED BY <4>1, <4>2, <4>3, <5>1
      <4>4. CASE i \in 1..Len(runs)
        BY <4>1, <4>4 DEF IInv, Truthful
      <4> QED BY <4>1, <4>3, <4>4
    <3> QED BY <2>1, <3>1, <3>2
  <2> QED BY <2>1, <2>2 DEF IInv, Truthful, Run, shared, At
<1> QED BY <1>1, <1>2, <1>3, <1>4, <1>5, <1>6, <1>7, <1>8, <1>9, <1>10, <1>11 DEF IInv

\* The request is retired and its state published in one critical section.
LEMMA PublishKeeps ==
    ASSUME IInv, Publish
    PROVE  IInv'
<1>1. (FlagsOK /\ HistoryOK /\ Counted /\ Revisions)'
  BY Frame DEF IInv, Publish, ghosts
<1>2. SharedOK'
  BY DEF IInv, SharedOK, Publish, ghosts
<1>3. StateOK'
  BY DEF IInv, StateOK, Publish, PublishBackground
<1>4. Admitted'
  BY DEF IInv, Admitted, Publish, At, Places
<1>5. Arrival'
  BY DEF IInv, Arrival, Publish, ghosts, At, Hold, Final, Places
<1>6. Replying'
  BY DEF IInv, Replying, Publish, ghosts, At, Hold, Final, Places
<1>7. RunOrder'
  BY DEF IInv, RunOrder, Publish, ghosts, At, Hold
<1>8. Published'
  BY DEF IInv, Published, Publish, Hold, PublishBackground, Final, StateOK, Known, Snapshot
<1>9. ClientKnows'
  BY DEF IInv, ClientKnows, Publish, PublishBackground, Published, StateOK
<1>10. Places'
  <2>1. executor.msg \in Result /\ engine.background \in Background /\ sequence + 1 \in Nat
    BY DEF Publish, IInv, Places, At, StateOK
  <2> DEFINE kind == IF cancelled /\ executor.msg.kind # "stopped" THEN "completed" ELSE executor.msg.kind
  <2>2. kind \in Kinds \union {"completed"}
    BY <2>1 DEF Result
  <2>3. executor'.at = "send" /\ executor'.msg = Final(executor.msg, kind)
    BY DEF Publish, Hold
  <2> HIDE DEF kind
  <2>4. executor'.msg \in FinalReply
    BY <2>1, <2>2, <2>3 DEF Final, FinalReply, Result
  <2>5. active' = Nothing
    BY DEF Publish
  <2> QED BY <2>3, <2>4, <2>5 DEF Places, At
<1>11. Answered'
  <2>1. active # Nothing /\ executor.msg.n = active.n /\ active' = Nothing
    BY DEF Publish, IInv, Places, At
  <2>2. executor'.at = "send" /\ executor'.msg.n = executor.msg.n /\ executor.at = "publish"
    BY DEF Publish, Hold, Final, At
  <2>3. \A n : Owed(n)' <=> Owed(n)
    BY <2>1, <2>2 DEF Owed, At, Publish
  <2> QED BY <2>3 DEF IInv, Answered, Publish, ghosts
<1>12. Truthful'
  <2>1. active # Nothing /\ executor.msg.n = active.n /\ active' = Nothing /\ executor.msg \in Result
    BY DEF Publish, IInv, Places, At
  <2>2. executor'.at = "send" /\ executor'.msg.n = executor.msg.n
        /\ executor'.msg.kind = IF cancelled /\ executor.msg.kind # "stopped" THEN "completed"
                                ELSE executor.msg.kind
    BY DEF Publish, Hold, Final
  <2>3. \A n \in promised : executor'.msg.n = n => executor'.msg.kind \in {"stopped", "completed"}
    BY <2>1, <2>2 DEF IInv, Truthful
  <2> QED BY <2>1, <2>3 DEF IInv, Truthful, Publish, At, ghosts
<1> QED BY <1>1, <1>2, <1>3, <1>4, <1>5, <1>6, <1>7, <1>8, <1>9, <1>10, <1>11, <1>12 DEF
   IInv

\* The reply is written and the client applies it.
LEMMA SendResultKeeps ==
    ASSUME IInv, SendResult
    PROVE  IInv'
<1>1. (SharedOK /\ FlagsOK /\ Admitted /\ Counted /\ Revisions)'
  BY Frame DEF IInv, SendResult, shared, ghosts
<1>2. Places'
  BY DEF IInv, Places, SendResult, shared, At, Go
<1>3. Arrival'
  BY DEF IInv, Arrival, SendResult, shared, ghosts, At, Go
<1>4. Replying'
  BY DEF IInv, Replying, SendResult, shared, ghosts, At, Go
<1>5. RunOrder'
  BY DEF IInv, RunOrder, SendResult, shared, ghosts, At, Go
<1>6. StateOK'
  <2>1. executor.msg \in FinalReply /\ client \in Clients
    BY DEF SendResult, IInv, Places, At, StateOK, Clients
  <2>2. ApplyReply(client, executor.msg) \in Clients
    BY <2>1, ApplyReplyKnows
  <2>3. client' \in Clients
    BY <2>1, <2>2 DEF SendResult, Deliver
  <2> QED BY <2>3 DEF IInv, StateOK, SendResult, shared, Clients
<1>7. HistoryOK'
  <2>1. executor.msg.n \in 1..MaxSent /\ executor.msg.kind \in FinalKinds /\ Owed(executor.msg.n)
    BY DEF SendResult, IInv, Places, At, FinalReply, FinalKinds, Kinds, Owed
  <2> QED BY <2>1, OneGiven DEF SendResult, IInv, HistoryOK, ghosts
<1>8. ClientKnows'
  <2>1. executor.msg \in FinalReply /\ client \in Clients /\ Known(executor.msg)
        /\ executor.msg.sequence # 0
    BY DEF SendResult, IInv, Places, At, StateOK, Clients, Published
  <2>2. revision \in Nat /\ sequence \in Nat
    BY DEF IInv, StateOK
  <2> DEFINE c == ApplyReply(client, executor.msg)
  <2>3. /\ c.revision <= revision /\ c.sequence <= sequence
        /\ c.loaded /\ c.sequence = sequence => c.background = background
    BY <2>1, <2>2, ApplyReplyKnows DEF IInv, ClientKnows
  <2>4. client' = client \/ client' = c
    BY DEF SendResult, Deliver
  <2> HIDE DEF c
  <2> QED BY <2>3, <2>4 DEF IInv, ClientKnows, SendResult, shared
<1>9. Published'
  <2>1. executor'.at \in {"leave", "wait"}
    BY DEF SendResult, Go
  <2> QED BY <2>1 DEF IInv, Published, Known, SendResult, shared, At
<1>10. Answered'
  <2>1. executor.msg.n \in 1..MaxSent /\ executor.msg.kind \in FinalKinds /\ Owed(executor.msg.n)
    BY DEF SendResult, IInv, Places, At, FinalReply, FinalKinds, Kinds, Owed
  <2>2. \A n \in 1..MaxSent : answers'[n] = IF ~failed /\ n = executor.msg.n
                                            THEN <<executor.msg.kind>> ELSE answers[n]
    BY <2>1, OneGiven DEF SendResult
  <2>3. executor'.at \in {"leave", "wait"} /\ active = Nothing /\ active' = active
    BY DEF SendResult, Go, IInv, Places, At, shared
  <2>4. ASSUME NEW n PROVE Owed(n)' <=> Owed(n) /\ n # executor.msg.n
    <3>1. \A i \in DOMAIN queue : queue[i].n # executor.msg.n
      BY DEF IInv, Arrival, SendResult
    <3>2. reader.at \in {"refuse", "reply"} => reader.msg.n # executor.msg.n
      BY DEF IInv, Replying, Arrival, SendResult
    <3> QED BY <2>3, <3>1, <3>2 DEF Owed, SendResult, At, shared
  <2> DEFINE Done == {executor.msg.n}
  <2>5. sent \in Nat /\ sent' = sent /\ sent' <= MaxSent /\ failed' = failed
        /\ sent' \in {sent, sent + 1} /\ (failed => answers' = answers)
    BY Bounded DEF IInv, SharedOK, SendResult, ghosts, Answer
  <2>6. Done \in SUBSET (1..sent')
    BY <2>1, <2>5, Bounded DEF IInv, Arrival, SendResult
  <2>7. \A n \in 1..sent' : Owed(n)' <=> n \notin Done /\ (Owed(n) \/ n = sent + 1)
    BY <2>4, <2>5
  <2>8. \A n \in 1..MaxSent : answers'[n] = answers[n] \/ (n \in Done /\ Len(answers'[n]) = 1)
    BY <2>2
  <2>9. \A n \in Done : ~failed => Len(answers'[n]) = 1
    BY <2>1, <2>2
  <2> HIDE DEF Done
  <2> QED BY <2>5, <2>6, <2>7, <2>8, <2>9, AnsweredKept DEF IInv
<1>11. Truthful'
  <2>1. executor.msg.n \in 1..MaxSent /\ executor.msg.kind \in FinalKinds /\ Owed(executor.msg.n)
        /\ executor.msg.kind # "cancelled"
    BY DEF SendResult, IInv, Places, At, FinalReply, FinalKinds, Kinds, Owed
  <2>2. \A n \in 1..MaxSent : answers'[n] = IF ~failed /\ n = executor.msg.n
                                            THEN <<executor.msg.kind>> ELSE answers[n]
    BY <2>1, OneGiven DEF SendResult
  <2>3. executor'.at \in {"leave", "wait"} /\ At("send")
    BY DEF SendResult, Go
  <2>4. \A i \in DOMAIN runs : answers'[runs[i].n] # <<"cancelled">>
    BY <2>1, <2>2 DEF IInv, Truthful, RunOrder
  <2>5. ASSUME NEW n \in promised, answers'[n] # <<>>
        PROVE  answers'[n][1] \in {"stopped", "completed"}
    <3>1. n \in 1..MaxSent
      BY DEF IInv, Truthful
    <3>2. CASE answers'[n] = answers[n]
      BY <2>5, <3>2 DEF IInv, Truthful
    <3>3. CASE n = executor.msg.n /\ answers'[n] = <<executor.msg.kind>>
      BY <2>3, <3>3 DEF IInv, Truthful
    <3> QED BY <2>2, <3>1, <3>2, <3>3
  <2> QED BY <2>3, <2>4, <2>5 DEF IInv, Truthful, SendResult, shared, ghosts, At
<1> QED BY <1>1, <1>2, <1>3, <1>4, <1>5, <1>6, <1>7, <1>8, <1>9, <1>10, <1>11 DEF IInv

\* A stopping executor leaves when nothing waits.
LEMMA StopWaitingKeeps ==
    ASSUME IInv, StopWaiting
    PROVE  IInv'
<1>1. (SharedOK /\ FlagsOK /\ StateOK /\ HistoryOK /\ Admitted /\ Counted /\ Revisions /\
       ClientKnows)'
  BY Frame DEF IInv, StopWaiting, shared, ghosts
<1>2. Places'
  BY DEF IInv, Places, StopWaiting, shared, At, Go
<1>3. Arrival'
  BY DEF IInv, Arrival, StopWaiting, shared, At, Go, Places
<1>4. Replying'
  BY DEF IInv, Replying, StopWaiting, shared, ghosts, At, Go
<1>5. RunOrder'
  BY DEF IInv, RunOrder, StopWaiting, shared, ghosts, At, Go
<1>6. Published'
  BY DEF IInv, Published, StopWaiting, shared, At, Go, Known
<1>7. Answered'
  BY Bounded, Zenon DEF IInv, Answered, StopWaiting, shared, ghosts, At, Go, Owed
<1>8. Truthful'
  BY DEF IInv, Truthful, StopWaiting, shared, ghosts, At, Go
<1> QED BY <1>1, <1>2, <1>3, <1>4, <1>5, <1>6, <1>7, <1>8 DEF IInv

\* The fatal error is written.
LEMMA SendFatalKeeps ==
    ASSUME IInv, SendFatal
    PROVE  IInv'
<1>1. (SharedOK /\ FlagsOK /\ StateOK /\ HistoryOK /\ Admitted /\ Counted /\ Revisions /\
       ClientKnows)'
  BY Frame DEF IInv, SendFatal, shared, ghosts
<1>2. Places'
  BY DEF IInv, Places, SendFatal, shared, At, Go
<1>3. Arrival'
  BY DEF IInv, Arrival, SendFatal, shared, ghosts, At, Go
<1>4. Replying'
  BY DEF IInv, Replying, SendFatal, shared, ghosts, At, Go
<1>5. RunOrder'
  BY DEF IInv, RunOrder, SendFatal, shared, ghosts, At, Go
<1>6. Published'
  BY DEF IInv, Published, SendFatal, shared, At, Go, Known
<1>7. Answered'
  BY Zenon DEF IInv, Answered, SendFatal, shared, ghosts, At, Go, Owed
<1>8. Truthful'
  BY DEF IInv, Truthful, SendFatal, shared, ghosts, At, Go
<1> QED BY <1>1, <1>2, <1>3, <1>4, <1>5, <1>6, <1>7, <1>8 DEF IInv

\* The executor ends.
LEMMA LeaveKeeps ==
    ASSUME IInv, Leave
    PROVE  IInv'
<1>1. (SharedOK /\ StateOK /\ HistoryOK /\ Admitted /\ Counted /\ Revisions /\ ClientKnows)'
  BY Frame DEF IInv, Leave, ghosts
<1>2. FlagsOK'
  BY DEF IInv, FlagsOK, Leave
<1>3. Places'
  BY DEF IInv, Places, Leave, At, Go
<1>4. Arrival'
  BY DEF IInv, Arrival, Leave, ghosts, At, Go
<1>5. Replying'
  BY DEF IInv, Replying, Leave, ghosts, At, Go
<1>6. RunOrder'
  BY DEF IInv, RunOrder, Leave, ghosts, At, Go
<1>7. Published'
  BY DEF IInv, Published, Leave, At, Go, Known
<1>8. Answered'
  BY DEF IInv, Answered, Leave, ghosts, At, Go, Owed
<1>9. Truthful'
  BY DEF IInv, Truthful, Leave, ghosts, At, Go
<1> QED BY <1>1, <1>2, <1>3, <1>4, <1>5, <1>6, <1>7, <1>8, <1>9 DEF IInv

\* The heartbeat is built under the mutex.
LEMMA BeatKeeps ==
    ASSUME IInv, Beat
    PROVE  IInv'
<1>1. (SharedOK /\ FlagsOK /\ HistoryOK /\ Places /\ Admitted /\ Counted /\ Arrival /\
       Replying /\ RunOrder /\ Revisions /\ ClientKnows /\ Answered /\ Truthful)'
  BY Frame DEF IInv, Beat, shared, ghosts
<1>2. StateOK'
  BY DEF IInv, StateOK, Beat, shared, HeartbeatMessage, Snapshot
<1>3. Published'
  BY DEF IInv, Published, Beat, shared, HeartbeatMessage, At, StateOK, Known
<1> QED BY <1>1, <1>2, <1>3 DEF IInv

\* The heartbeat is written later.
LEMMA SendBeatKeeps ==
    ASSUME IInv, SendBeat
    PROVE  IInv'
<1>1. (SharedOK /\ FlagsOK /\ HistoryOK /\ Places /\ Admitted /\ Counted /\ Arrival /\
       Replying /\ RunOrder /\ Revisions /\ Answered /\ Truthful)'
  BY Frame DEF IInv, SendBeat, shared, ghosts
<1>2. StateOK'
  BY Zenon DEF IInv, StateOK, SendBeat, shared, Deliver, ApplyBackground, Snapshot
<1>3. Published'
  BY DEF IInv, Published, SendBeat, shared, At, Known
<1>4. ClientKnows'
  BY DEF IInv, ClientKnows, SendBeat, shared, Deliver, ApplyBackground, Published, Known
<1> QED BY <1>1, <1>2, <1>3, <1>4 DEF IInv

\* A refused message waits for its reply.
LEMMA RefuseKeeps ==
    ASSUME IInv, NEW m, Numbered(m), Receiving, Refuse(m)
    PROVE  IInv'
<1>1. (FlagsOK /\ StateOK /\ HistoryOK /\ Places /\ Admitted /\ Counted /\ Revisions /\
       Published /\ ClientKnows)'
  BY Frame DEF IInv, Refuse, Receiving, shared, NoAnswer
<1>2. SharedOK'
  BY Bounded DEF IInv, SharedOK, Refuse, Receiving, Numbered, shared
<1>3. Arrival'
  BY DEF IInv, Arrival, Refuse, Receiving, At, shared, SharedOK
<1>4. Replying'
  BY DEF IInv, Replying, Refuse, Receiving, Numbered, At, shared, ReaderAt, Arrival,
     SharedOK
<1>5. RunOrder'
  BY DEF IInv, RunOrder, Refuse, Receiving, At, shared, SharedOK
<1>6. Answered'
  <2>1. sent \in Nat /\ sent' = sent + 1 /\ sent' <= MaxSent /\ failed' = failed /\ answers' = answers
    BY Bounded DEF IInv, SharedOK, Receiving, Refuse, NoAnswer, Numbered
  <2>2. \A n \in 1..sent' : Owed(n)' <=> Owed(n) \/ n = sent + 1
    BY <2>1 DEF Owed, Receiving, Reading, Refuse, ReaderAt, shared, At, Numbered
  <2> DEFINE Done == {}
  <2>3. Done \in SUBSET (1..sent') /\ \A n \in 1..sent' : Owed(n)' <=> n \notin Done /\ (Owed(n) \/ n = sent + 1)
    BY <2>2
  <2> QED BY <2>1, <2>3, AnsweredKept DEF IInv
<1>7. Truthful'
  <2>1. sent \in Nat /\ sent' = sent + 1
    BY Bounded DEF IInv, SharedOK, Receiving
  <2>2. \A n \in promised : n < sent'
    BY <2>1 DEF IInv, Truthful
  <2> QED BY <2>2 DEF IInv, Truthful, Receiving, Refuse, NoAnswer, shared, At
<1> QED BY <1>1, <1>2, <1>3, <1>4, <1>5, <1>6, <1>7 DEF IInv

\* A greeting waits for its reply.
LEMMA HelloKeeps ==
    ASSUME IInv, NEW m, Numbered(m), Receiving, Hello(m)
    PROVE  IInv'
<1>1. (FlagsOK /\ StateOK /\ HistoryOK /\ Places /\ Admitted /\ Counted /\ Revisions /\
       Published /\ ClientKnows)'
  BY Frame DEF IInv, Hello, Receiving, shared, NoAnswer
<1>2. SharedOK'
  BY Bounded DEF IInv, SharedOK, Hello, Receiving, Numbered, shared
<1>3. Arrival'
  BY DEF IInv, Arrival, Hello, Receiving, At, shared, SharedOK
<1>4. Replying'
  BY DEF IInv, Replying, Hello, Receiving, Numbered, At, shared, ReaderAt, Arrival, SharedOK
<1>5. RunOrder'
  BY DEF IInv, RunOrder, Hello, Receiving, At, shared, SharedOK
<1>6. Answered'
  <2>1. sent \in Nat /\ sent' = sent + 1 /\ sent' <= MaxSent /\ failed' = failed /\ answers' = answers
    BY Bounded DEF IInv, SharedOK, Receiving, Hello, NoAnswer, Numbered
  <2>2. \A n \in 1..sent' : Owed(n)' <=> Owed(n) \/ n = sent + 1
    BY <2>1 DEF Owed, Receiving, Reading, Hello, ReaderAt, shared, At, Numbered
  <2> DEFINE Done == {}
  <2>3. Done \in SUBSET (1..sent') /\ \A n \in 1..sent' : Owed(n)' <=> n \notin Done /\ (Owed(n) \/ n = sent + 1)
    BY <2>2
  <2> QED BY <2>1, <2>3, AnsweredKept DEF IInv
<1>7. Truthful'
  <2>1. sent \in Nat /\ sent' = sent + 1
    BY Bounded DEF IInv, SharedOK, Receiving
  <2>2. \A n \in promised : n < sent'
    BY <2>1 DEF IInv, Truthful
  <2> QED BY <2>2 DEF IInv, Truthful, Receiving, Hello, NoAnswer, shared, At
<1> QED BY <1>1, <1>2, <1>3, <1>4, <1>5, <1>6, <1>7 DEF IInv

\* A request is admitted under the limits.
LEMMA EnqueueKeeps ==
    ASSUME IInv, NEW m, Numbered(m), Receiving, Enqueue(m)
    PROVE  IInv'
<1>1. (FlagsOK /\ StateOK /\ HistoryOK /\ Places /\ Revisions /\ Published /\ ClientKnows)'
  BY Frame DEF IInv, Enqueue, Receiving, NoAnswer
<1>2. Admitted'
  BY DEF IInv, Admitted, Enqueue, Refusal
<1>3. Arrival'
  BY DEF IInv, Arrival, Enqueue, Receiving, Numbered, At, SharedOK
<1>4. RunOrder'
  BY DEF IInv, RunOrder, Enqueue, Receiving, Numbered, At, SharedOK
<1>5. SharedOK'
  <2>1. m \in Requests /\ m.id \in Id /\ m.bytes \in Nat
    BY RequestBytes DEF Enqueue, Numbered
  <2>2. queue' \in Seq(Requests)
    BY <2>1, AppendProperties DEF IInv, SharedOK, Enqueue
  <2>3. sent' \in 0..MaxSent /\ queuedBytes' \in Nat
    BY <2>1, Bounded DEF IInv, SharedOK, Enqueue, Numbered, Receiving
  <2> QED BY <2>1, <2>2, <2>3 DEF IInv, SharedOK, Enqueue
<1>6. Counted'
  <2>1. m \in Requests /\ m.bytes \in Nat /\ queue \in Seq(Requests) /\ queuedBytes \in Nat
    BY RequestBytes DEF Enqueue, Numbered, IInv, SharedOK
  <2>2. QueueBytes(queue') = QueueBytes(queue) + m.bytes /\ Len(queue') = Len(queue) + 1
    BY <2>1, BytesOfAppend, AppendProperties DEF Enqueue
  <2>3. ~(Len(queue) >= MaxQueueRequests) /\ ~(m.bytes > MaxQueueBytes - queuedBytes)
    BY DEF Enqueue, Refusal
  <2>4. Len(queue) \in Nat /\ MaxQueueRequests \in Nat /\ MaxQueueBytes \in Nat
    BY <2>1, LenProperties, WorkerAssumption
  <2>5. Len(queue') <= MaxQueueRequests /\ queuedBytes + m.bytes <= MaxQueueBytes
    BY <2>1, <2>2, <2>3, <2>4
  <2> QED BY <2>2, <2>5 DEF IInv, Counted, Enqueue
<1>7. Replying'
  BY DEF Replying, Enqueue, Receiving, Reading
<1>8. Answered'
  <2>1. sent \in Nat /\ sent' = sent + 1 /\ sent' <= MaxSent /\ failed' = failed /\ answers' = answers
    BY Bounded DEF IInv, SharedOK, Receiving, Enqueue, NoAnswer, Numbered
  <2>2. ASSUME NEW n
        PROVE  (\E i \in DOMAIN queue' : queue'[i].n = n) <=>
               (\E i \in DOMAIN queue : queue[i].n = n) \/ n = sent + 1
    <3>1. queue \in Seq(Requests) /\ m \in Requests /\ m.n = sent + 1
      BY DEF IInv, SharedOK, Enqueue, Numbered
    <3>2. /\ DOMAIN queue = 1..Len(queue) /\ DOMAIN queue' = 1..(Len(queue) + 1) /\ Len(queue) \in Nat
          /\ queue'[Len(queue) + 1] = m
          /\ \A i \in 1..Len(queue) : queue'[i] = queue[i]
      BY <3>1, AppendProperties, LenProperties DEF Enqueue
    <3> QED BY <3>1, <3>2
  <2>3. \A n \in 1..sent' : Owed(n)' <=> Owed(n) \/ n = sent + 1
    BY <2>2 DEF Owed, Receiving, Enqueue, At
  <2> DEFINE Done == {}
  <2>4. Done \in SUBSET (1..sent') /\ \A n \in 1..sent' : Owed(n)' <=> n \notin Done /\ (Owed(n) \/ n = sent + 1)
    BY <2>3
  <2> QED BY <2>1, <2>4, AnsweredKept DEF IInv
<1>9. Truthful'
  <2>1. sent \in Nat /\ sent' = sent + 1 /\ queue \in Seq(Requests) /\ m \in Requests /\ m.n = sent + 1
    BY Bounded DEF IInv, SharedOK, Receiving, Enqueue, Numbered
  <2>2. /\ DOMAIN queue = 1..Len(queue) /\ DOMAIN queue' = 1..(Len(queue) + 1) /\ Len(queue) \in Nat
        /\ queue'[Len(queue) + 1] = m
        /\ \A i \in 1..Len(queue) : queue'[i] = queue[i]
    BY <2>1, AppendProperties, LenProperties DEF Enqueue
  <2>3. \A n \in promised : n < sent' /\ \A i \in DOMAIN queue' : n < queue'[i].n
    BY <2>1, <2>2 DEF IInv, Truthful
  <2> QED BY <2>3 DEF IInv, Truthful, Receiving, Enqueue, NoAnswer, At
<1> QED BY <1>1, <1>2, <1>3, <1>4, <1>5, <1>6, <1>7, <1>8, <1>9 DEF IInv

\* A running request is told of its cancellation.
LEMMA CancelActiveKeeps ==
    ASSUME IInv, NEW m, Numbered(m), Receiving, CancelActive(m)
    PROVE  IInv'
<1>1. (StateOK /\ Places /\ Admitted /\ Counted /\ Revisions /\ Published /\ ClientKnows)'
  BY Frame DEF IInv, CancelActive, Receiving
<1>2. FlagsOK'
  BY DEF IInv, FlagsOK, CancelActive, Receiving
<1>3. Arrival'
  BY DEF IInv, Arrival, CancelActive, Receiving, At, SharedOK
<1>4. RunOrder'
  BY DEF IInv, RunOrder, CancelActive, Receiving, At, SharedOK
<1>5. SharedOK'
  <2>1. sent' \in 0..MaxSent
    BY Bounded DEF IInv, SharedOK, Numbered, Receiving
  <2>2. active \in Requests
    BY DEF IInv, SharedOK, CancelActive, Running
  <2>3. promised' \subseteq 1..MaxSent
    BY <2>2 DEF Requests, IInv, SharedOK, CancelActive
  <2> QED BY <2>1, <2>3 DEF IInv, SharedOK, CancelActive
<1>6. HistoryOK'
  <2>1. sent + 1 \in 1..MaxSent /\ sent + 1 > sent /\ m.n = sent + 1 /\ "ok" \in FinalKinds
    BY Bounded DEF IInv, SharedOK, Numbered, FinalKinds
  <2> QED BY <2>1, OneGiven DEF CancelActive, Receiving, IInv, HistoryOK
<1>7. Replying'
  BY DEF Replying, CancelActive, Receiving, Reading
<1>8. Answered'
  <2>1. sent + 1 \in 1..MaxSent /\ sent + 1 > sent /\ m.n = sent + 1 /\ "ok" \in FinalKinds /\ sent \in Nat
    BY Bounded DEF IInv, SharedOK, Numbered, FinalKinds
  <2>2. \A n \in 1..MaxSent : answers'[n] = IF ~failed /\ n = sent + 1 THEN <<"ok">> ELSE answers[n]
    BY <2>1, OneGiven DEF CancelActive
  <2>3. \A n : Owed(n)' <=> Owed(n)
    BY DEF Owed, CancelActive, Receiving, At
  <2>4. ~Owed(sent + 1)
    BY <2>1 DEF Owed, IInv, Arrival, Receiving, Reading
  <2>5. sent' = sent + 1 /\ failed' = failed /\ (failed => answers' = answers)
    BY DEF Receiving, CancelActive, Answer
  <2>6. ASSUME NEW n \in 1..sent' PROVE Owed(n)' <=> n \notin {sent + 1} /\ (Owed(n) \/ n = sent + 1)
    BY <2>3, <2>4
  <2>7. \A n \in 1..MaxSent : answers'[n] = answers[n] \/ (n \in {sent + 1} /\ Len(answers'[n]) = 1)
    BY <2>2
  <2>8. \A n \in {sent + 1} : ~failed => Len(answers'[n]) = 1
    BY <2>1, <2>2
  <2>9. {sent + 1} \in SUBSET (1..sent') /\ sent' <= MaxSent /\ sent' \in {sent, sent + 1}
    BY <2>1, <2>5, Bounded
  <2> QED BY <2>1, <2>5, <2>6, <2>7, <2>8, <2>9, AnsweredKept DEF IInv
<1>9. Truthful'
  <2>1. sent + 1 \in 1..MaxSent /\ sent + 1 > sent /\ m.n = sent + 1 /\ "ok" \in FinalKinds /\ sent \in Nat
    BY Bounded DEF IInv, SharedOK, Numbered, FinalKinds
  <2>2. \A n \in 1..MaxSent : answers'[n] = IF ~failed /\ n = sent + 1 THEN <<"ok">> ELSE answers[n]
    BY <2>1, OneGiven DEF CancelActive
  <2>3. active # Nothing /\ active \in Requests /\ active.n <= sent /\ active.n \in Nat
    BY DEF CancelActive, Running, IInv, SharedOK, Arrival
  <2>4. active.n \in 1..MaxSent /\ Owed(active.n) /\ answers[active.n] = <<>>
    <3>1. active.n \in 1..MaxSent
      BY <2>3 DEF Requests
    <3> QED BY <2>3, <3>1, NotAnswered DEF Owed
  <2>5. ~At("send")
    BY <2>3 DEF IInv, Places, At
  <2>6. \A i \in DOMAIN runs : answers'[runs[i].n] # <<"cancelled">>
    BY <2>2 DEF IInv, Truthful, RunOrder
  <2>7. ASSUME NEW n \in promised'
        PROVE  /\ n \in 1..MaxSent /\ n < sent' /\ \A i \in DOMAIN queue : n < queue[i].n
               /\ answers'[n] # <<>> => answers'[n][1] \in {"stopped", "completed"}
    <3>1. CASE n = active.n
      BY <2>1, <2>2, <2>3, <2>4, <3>1 DEF IInv, Arrival, Receiving
    <3>2. CASE n # active.n
      BY <2>1, <2>2, <3>2 DEF IInv, Truthful, Receiving, CancelActive
    <3> QED BY <3>1, <3>2
  <2> QED BY <2>5, <2>6, <2>7 DEF Truthful, CancelActive, Receiving, At
<1> QED BY <1>1, <1>2, <1>3, <1>4, <1>5, <1>6, <1>7, <1>8, <1>9 DEF IInv

\* A waiting request is answered and removed.
LEMMA CancelQueuedKeeps ==
    ASSUME IInv, NEW m, Numbered(m), Receiving, CancelQueued(m)
    PROVE  IInv'
<1>1. (FlagsOK /\ StateOK /\ Places /\ Revisions /\ Published /\ ClientKnows)'
  BY Frame DEF IInv, CancelQueued, Receiving
<1>2. SharedOK'
  <2>1. PICK k \in DOMAIN queue : Leaves(k) /\ queue' = RemoveAt(queue, k)
                                  /\ queuedBytes' = queuedBytes - queue[k].bytes
    BY CancelLeaves
  <2>2. queue' \in Seq(Requests) /\ queuedBytes' \in Nat
    BY <2>1, RemoveCounts DEF Leaves
  <2>3. sent' \in 0..MaxSent
    BY Bounded DEF IInv, SharedOK, Numbered, Receiving
  <2> QED BY <2>2, <2>3 DEF IInv, SharedOK, CancelQueued
<1>3. HistoryOK'
  <2>1. answers' \in [1..MaxSent -> Seq(FinalKinds)]
    BY CancelLeaves
  <2> QED BY <2>1 DEF IInv, HistoryOK, Receiving
<1>4. Admitted'
  <2>1. PICK k \in DOMAIN queue : Leaves(k) /\ queue[k].id = m.target
    BY CancelLeaves
  <2>2. /\ {queue'[i].id : i \in DOMAIN queue'} = {queue[i].id : i \in DOMAIN queue} \ {m.target}
        /\ \A i, j \in DOMAIN queue' : queue'[i].id = queue'[j].id => i = j
    BY <2>1, LeavesIds
  <2>3. pending' = pending \ {m.target} /\ active' = active /\ (active # Nothing => active.id # m.target)
    BY DEF CancelQueued, Running
  <2>4. {r.id : r \in {active} \ {Nothing}} \ {m.target} = {r.id : r \in {active} \ {Nothing}}
    BY <2>3
  <2>5. active # Nothing => \A i \in DOMAIN queue' : queue'[i].id # active.id
    BY <2>1 DEF IInv, Admitted, Leaves
  <2>6. pending' = {queue'[i].id : i \in DOMAIN queue'} \union {r.id : r \in {active'} \ {Nothing}}
    BY <2>2, <2>3, <2>4 DEF IInv, Admitted
  <2> QED BY <2>2, <2>3, <2>5, <2>6 DEF Admitted
<1>5. Counted'
  <2>1. PICK k \in DOMAIN queue : queue' = RemoveAt(queue, k)
                                  /\ queuedBytes' = queuedBytes - queue[k].bytes
    BY CancelLeaves
  <2> QED BY <2>1, RemoveCounts
<1>6. Arrival'
  <2>1. PICK k \in DOMAIN queue : Leaves(k)
    BY CancelLeaves
  <2>2. \A i, j \in DOMAIN queue' : i < j => queue'[i].n < queue'[j].n
    BY <2>1, LeavesOrder
  <2>3. sent \in Nat /\ sent' = sent + 1
    BY Bounded DEF IInv, SharedOK, Receiving
  <2>4. \A i \in DOMAIN queue' :
           /\ queue'[i].n \in Nat /\ queue'[i].n <= sent'
           /\ active # Nothing => active.n < queue'[i].n
           /\ At("send") => executor.msg.n < queue'[i].n
    BY <2>1, <2>3 DEF Leaves, IInv, Arrival
  <2>5. (active # Nothing => active.n <= sent') /\ (At("send") => executor.msg.n <= sent')
    BY <2>3 DEF IInv, Arrival
  <2> QED BY <2>2, <2>4, <2>5 DEF IInv, Arrival, CancelQueued, Receiving, At
<1>7. Replying'
  BY DEF Replying, CancelQueued, Receiving, Reading
<1>8. RunOrder'
  <2>1. PICK k \in DOMAIN queue : Leaves(k)
    BY CancelLeaves
  <2>2. sent \in Nat /\ sent' = sent + 1
    BY Bounded DEF IInv, SharedOK, Receiving
  <2>3. \A i \in DOMAIN runs : runs[i].n <= sent' /\ \A j \in DOMAIN queue' : runs[i].n < queue'[j].n
    BY <2>1, <2>2 DEF Leaves, IInv, RunOrder
  <2> QED BY <2>3 DEF IInv, RunOrder, CancelQueued, Receiving, At
<1>9. Answered'
  <2>1. PICK k \in DOMAIN queue :
              /\ Leaves(k) /\ queue[k].n \in 1..sent
              /\ \A n \in 1..MaxSent :
                    answers'[n] = IF failed THEN answers[n]
                                  ELSE IF n = sent + 1 THEN <<"ok">>
                                  ELSE IF n = queue[k].n THEN <<"cancelled">> ELSE answers[n]
    BY CancelLeaves
  <2> DEFINE Done == {queue[k].n, sent + 1}
  <2>2. sent + 1 \in 1..MaxSent /\ sent \in Nat /\ sent' = sent + 1 /\ failed' = failed
        /\ (failed => answers' = answers)
    BY Bounded DEF IInv, SharedOK, Numbered, Receiving, CancelQueued, Answer
  <2>3. Done \in SUBSET (1..sent') /\ sent' <= MaxSent /\ sent' \in {sent, sent + 1}
    BY <2>1, <2>2, Bounded
  <2>4. ~Owed(sent + 1)
    BY <2>2 DEF Owed, IInv, Arrival, Receiving, Reading
  <2>5. ASSUME NEW n PROVE Owed(n)' <=> Owed(n) /\ n # queue[k].n
    <3>1. (\E i \in DOMAIN queue' : queue'[i].n = n) <=>
          (\E i \in DOMAIN queue : queue[i].n = n) /\ n # queue[k].n
      BY <2>1, LeavesOrder
    <3>2. active # Nothing => active.n # queue[k].n
      BY <2>1 DEF IInv, Arrival
    <3>3. At("send") => executor.msg.n # queue[k].n
      BY <2>1 DEF IInv, Arrival
    <3> QED BY <3>1, <3>2, <3>3 DEF Owed, CancelQueued, Receiving, Reading, At
  <2>6. \A n \in 1..sent' : Owed(n)' <=> n \notin Done /\ (Owed(n) \/ n = sent + 1)
    BY <2>4, <2>5
  <2>7. \A n \in 1..MaxSent : answers'[n] = answers[n] \/ (n \in Done /\ Len(answers'[n]) = 1)
    BY <2>1
  <2>8. \A n \in Done : ~failed => Len(answers'[n]) = 1
    BY <2>1, <2>2, Bounded
  <2> HIDE DEF Done
  <2> QED BY <2>2, <2>3, <2>6, <2>7, <2>8, AnsweredKept DEF IInv
<1>10. Truthful'
  <2>1. PICK k \in DOMAIN queue :
              /\ Leaves(k) /\ queue[k].n \in 1..sent
              /\ \A n \in 1..MaxSent :
                    answers'[n] = IF failed THEN answers[n]
                                  ELSE IF n = sent + 1 THEN <<"ok">>
                                  ELSE IF n = queue[k].n THEN <<"cancelled">> ELSE answers[n]
    BY CancelLeaves
  <2>2. sent \in Nat /\ sent' = sent + 1
    BY Bounded DEF IInv, SharedOK, Receiving
  <2>3. \A i \in DOMAIN runs : runs[i].n # queue[k].n /\ answers'[runs[i].n] # <<"cancelled">>
    BY <2>1 DEF IInv, Truthful, RunOrder
  <2>4. \A n \in promised :
           /\ n < sent' /\ \A i \in DOMAIN queue' : n < queue'[i].n
           /\ answers'[n] # <<>> => answers'[n][1] \in {"stopped", "completed"}
    <3>1. TAKE n \in promised
    <3>2. n \in 1..MaxSent /\ n < sent /\ n # queue[k].n
      BY <2>1 DEF IInv, Truthful
    <3>3. answers'[n] = answers[n]
      BY <2>1, <2>2, <3>2
    <3> QED BY <2>1, <2>2, <3>2, <3>3 DEF Leaves, IInv, Truthful
  <2> QED BY <2>3, <2>4 DEF IInv, Truthful, CancelQueued, Receiving, At
<1> QED BY <1>1, <1>2, <1>3, <1>4, <1>5, <1>6, <1>7, <1>8, <1>9, <1>10 DEF IInv

\* A cancel of nothing is acknowledged.
LEMMA CancelMissingKeeps ==
    ASSUME IInv, NEW m, Numbered(m), Receiving, CancelMissing(m)
    PROVE  IInv'
<1>1. (FlagsOK /\ StateOK /\ Places /\ Admitted /\ Counted /\ Revisions /\ Published /\
       ClientKnows)'
  BY Frame DEF IInv, CancelMissing, Receiving, shared
<1>2. SharedOK'
  BY Bounded DEF IInv, SharedOK, CancelMissing, Receiving, Numbered, shared
<1>3. Arrival'
  BY DEF IInv, Arrival, CancelMissing, Receiving, At, shared, SharedOK
<1>4. RunOrder'
  BY DEF IInv, RunOrder, CancelMissing, Receiving, At, shared, SharedOK
<1>5. HistoryOK'
  <2>1. sent + 1 \in 1..MaxSent /\ sent + 1 > sent /\ m.n = sent + 1 /\ "ok" \in FinalKinds
    BY Bounded DEF IInv, SharedOK, Numbered, FinalKinds
  <2> QED BY <2>1, OneGiven DEF CancelMissing, Receiving, IInv, HistoryOK
<1>6. Replying'
  BY DEF Replying, CancelMissing, Receiving, Reading
<1>7. Answered'
  <2>1. sent + 1 \in 1..MaxSent /\ sent + 1 > sent /\ m.n = sent + 1 /\ "ok" \in FinalKinds /\ sent \in Nat
    BY Bounded DEF IInv, SharedOK, Numbered, FinalKinds
  <2>2. \A n \in 1..MaxSent : answers'[n] = IF ~failed /\ n = sent + 1 THEN <<"ok">> ELSE answers[n]
    BY <2>1, OneGiven DEF CancelMissing
  <2>3. \A n : Owed(n)' <=> Owed(n)
    BY DEF Owed, CancelMissing, Receiving, At, shared
  <2>4. ~Owed(sent + 1)
    BY <2>1 DEF Owed, IInv, Arrival, Receiving, Reading
  <2>5. sent' = sent + 1 /\ failed' = failed /\ (failed => answers' = answers)
    BY DEF Receiving, CancelMissing, Answer
  <2>6. ASSUME NEW n \in 1..sent' PROVE Owed(n)' <=> n \notin {sent + 1} /\ (Owed(n) \/ n = sent + 1)
    BY <2>3, <2>4
  <2>7. \A n \in 1..MaxSent : answers'[n] = answers[n] \/ (n \in {sent + 1} /\ Len(answers'[n]) = 1)
    BY <2>2
  <2>8. \A n \in {sent + 1} : ~failed => Len(answers'[n]) = 1
    BY <2>1, <2>2
  <2>9. {sent + 1} \in SUBSET (1..sent') /\ sent' <= MaxSent /\ sent' \in {sent, sent + 1}
    BY <2>1, <2>5, Bounded
  <2> QED BY <2>1, <2>5, <2>6, <2>7, <2>8, <2>9, AnsweredKept DEF IInv
<1>8. Truthful'
  <2>1. sent + 1 \in 1..MaxSent /\ sent + 1 > sent /\ m.n = sent + 1 /\ "ok" \in FinalKinds /\ sent \in Nat
    BY Bounded DEF IInv, SharedOK, Numbered, FinalKinds
  <2>2. \A n \in 1..MaxSent : answers'[n] = IF ~failed /\ n = sent + 1 THEN <<"ok">> ELSE answers[n]
    BY <2>1, OneGiven DEF CancelMissing
  <2>3. \A i \in DOMAIN runs : answers'[runs[i].n] # <<"cancelled">>
    BY <2>2 DEF IInv, Truthful, RunOrder
  <2>4. \A n \in promised : n < sent' /\ (answers'[n] # <<>> => answers'[n][1] \in {"stopped", "completed"})
    BY <2>1, <2>2 DEF IInv, Truthful, Receiving
  <2> QED BY <2>3, <2>4 DEF IInv, Truthful, CancelMissing, Receiving, At, shared
<1> QED BY <1>1, <1>2, <1>3, <1>4, <1>5, <1>6, <1>7, <1>8 DEF IInv

\* A shutdown answers every waiting request.
LEMMA ShutdownKeeps ==
    ASSUME IInv, NEW m, Numbered(m), Receiving, Shutdown(m)
    PROVE  IInv'
<1>1. (StateOK /\ Places /\ Revisions /\ Published /\ ClientKnows)'
  BY Frame DEF IInv, Shutdown, Receiving, DropQueue
<1>2. SharedOK'
  BY Bounded DEF IInv, SharedOK, Shutdown, Receiving, Numbered, DropQueue
<1>3. FlagsOK'
  BY DEF IInv, FlagsOK, Shutdown, Receiving, DropQueue
<1>4. Admitted'
  BY DEF IInv, Admitted, Shutdown, DropQueue
<1>5. Arrival'
  BY DEF IInv, Arrival, Shutdown, Receiving, At, DropQueue, SharedOK
<1>6. Replying'
  BY DEF IInv, Replying, Shutdown, ReaderAt
<1>7. RunOrder'
  BY DEF IInv, RunOrder, Shutdown, Receiving, At, DropQueue, SharedOK
<1>8. HistoryOK'
  <2>1. sent + 1 \in 1..MaxSent /\ m.n = sent + 1
    BY Bounded DEF IInv, SharedOK, Numbered
  <2> QED BY <2>1, ShutdownAnswers DEF IInv, HistoryOK, Shutdown, Receiving
<1>9. Counted'
  BY BytesOfEmpty, WorkerAssumption DEF Counted, Shutdown, DropQueue
<1>10. Answered'
  <2>1. sent + 1 \in 1..MaxSent /\ sent \in Nat /\ sent' = sent + 1 /\ failed' = failed
        /\ m.n = sent + 1 /\ (failed => answers' = answers)
    BY Bounded DEF IInv, SharedOK, Numbered, Receiving, Shutdown, Answer
  <2> DEFINE Done == {sent + 1} \union {queue[i].n : i \in DOMAIN queue}
  <2>2. \A n \in 1..MaxSent :
           answers'[n] = IF failed THEN answers[n]
                         ELSE IF n = sent + 1 THEN <<"ok">>
                         ELSE IF \E i \in DOMAIN queue : queue[i].n = n
                              THEN <<"cancelled">> ELSE answers[n]
    BY <2>1, ShutdownAnswers DEF Shutdown
  <2>3. Done \in SUBSET (1..sent') /\ sent' <= MaxSent /\ sent' \in {sent, sent + 1}
    BY <2>1, QueueNumbers, Bounded
  <2>4. ~Owed(sent + 1)
    BY <2>1 DEF Owed, IInv, Arrival, Receiving, Reading
  <2>5. ASSUME NEW n PROVE Owed(n)' <=> Owed(n) /\ n \notin {queue[i].n : i \in DOMAIN queue}
    <3>1. active # Nothing => active.n \notin {queue[i].n : i \in DOMAIN queue}
      BY DEF IInv, Arrival
    <3>2. At("send") => executor.msg.n \notin {queue[i].n : i \in DOMAIN queue}
      BY DEF IInv, Arrival
    <3>3. DOMAIN queue' = {}
      BY DEF Shutdown, DropQueue
    <3> QED BY <3>1, <3>2, <3>3 DEF Owed, Shutdown, DropQueue, ReaderAt, Receiving, Reading, At
  <2>6. \A n \in 1..sent' : Owed(n)' <=> n \notin Done /\ (Owed(n) \/ n = sent + 1)
    BY <2>4, <2>5
  <2>7. \A n \in 1..MaxSent : answers'[n] = answers[n] \/ (n \in Done /\ Len(answers'[n]) = 1)
    BY <2>2
  <2>8. \A n \in Done : ~failed => Len(answers'[n]) = 1
    BY <2>1, <2>2, <2>3, Bounded
  <2> HIDE DEF Done
  <2> QED BY <2>1, <2>3, <2>6, <2>7, <2>8, AnsweredKept DEF IInv
<1>11. Truthful'
  <2>1. sent + 1 \in 1..MaxSent /\ sent \in Nat /\ sent' = sent + 1 /\ m.n = sent + 1
    BY Bounded DEF IInv, SharedOK, Numbered, Receiving
  <2>2. \A n \in 1..MaxSent :
           answers'[n] = IF failed THEN answers[n]
                         ELSE IF n = sent + 1 THEN <<"ok">>
                         ELSE IF \E i \in DOMAIN queue : queue[i].n = n
                              THEN <<"cancelled">> ELSE answers[n]
    BY <2>1, ShutdownAnswers DEF Shutdown
  <2>3. \A i \in DOMAIN runs : answers'[runs[i].n] # <<"cancelled">>
    <3>1. TAKE i \in DOMAIN runs
    <3>2. runs[i].n \in 1..MaxSent /\ ~\E j \in DOMAIN queue : queue[j].n = runs[i].n
      BY DEF IInv, RunOrder
    <3> QED BY <2>2, <3>2 DEF IInv, Truthful
  <2>4. \A n \in promised :
           /\ n < sent' /\ (answers'[n] # <<>> => answers'[n][1] \in {"stopped", "completed"})
    <3>1. TAKE n \in promised
    <3>2. n \in 1..MaxSent /\ n < sent /\ ~\E j \in DOMAIN queue : queue[j].n = n
      BY DEF IInv, Truthful
    <3>3. answers'[n] = answers[n]
      BY <2>1, <2>2, <3>2
    <3> QED BY <2>1, <3>2, <3>3 DEF IInv, Truthful
  <2>5. DOMAIN queue' = {}
    BY DEF Shutdown, DropQueue
  <2> QED BY <2>3, <2>4, <2>5 DEF IInv, Truthful, Shutdown, DropQueue, Receiving, At
<1> QED BY <1>1, <1>2, <1>3, <1>4, <1>5, <1>6, <1>7, <1>8, <1>9, <1>10, <1>11 DEF IInv

\* A refusal reads the revision.
LEMMA BuildRefusalKeeps ==
    ASSUME IInv, BuildRefusal
    PROVE  IInv'
<1>1. (SharedOK /\ FlagsOK /\ StateOK /\ HistoryOK /\ Places /\ Admitted /\ Counted /\
       Arrival /\ RunOrder /\ Revisions /\ Published /\ ClientKnows /\ Truthful)'
  BY Frame DEF IInv, BuildRefusal, shared, ghosts
<1>2. Replying'
  BY DEF IInv, Replying, BuildRefusal, shared, ghosts, ReaderAt, At
<1>3. Answered'
  BY DEF IInv, Answered, BuildRefusal, shared, ghosts, ReaderAt, At, Owed
<1> QED BY <1>1, <1>2, <1>3 DEF IInv

\* The input loop writes its reply.
LEMMA SendReplyKeeps ==
    ASSUME IInv, SendReply
    PROVE  IInv'
<1>1. (SharedOK /\ FlagsOK /\ StateOK /\ Places /\ Admitted /\ Counted /\ Arrival /\
       RunOrder /\ Revisions /\ Published /\ ClientKnows)'
  BY Frame DEF IInv, SendReply, shared, ghosts
<1>2. Replying'
  BY DEF IInv, Replying, SendReply, ReaderAt
<1>3. HistoryOK'
  <2>1. Owed(sent) /\ sent \in 1..MaxSent /\ reader.msg.n = sent
    BY Bounded DEF Owed, SendReply, IInv, Replying, SharedOK
  <2>2. (IF reader.msg.code = "ok" THEN "ok" ELSE "refused") \in FinalKinds
    BY DEF FinalKinds
  <2> QED BY <2>1, <2>2, OneGiven DEF SendReply, ghosts, IInv, HistoryOK
<1>4. Answered'
  <2> DEFINE kind == IF reader.msg.code = "ok" THEN "ok" ELSE "refused"
  <2>1. Owed(sent) /\ sent \in 1..MaxSent /\ reader.msg.n = sent
    BY Bounded DEF Owed, SendReply, IInv, Replying, SharedOK
  <2>2. kind \in FinalKinds
    BY DEF FinalKinds
  <2>3. Answer(One(sent, kind))
    BY <2>1 DEF SendReply
  <2> HIDE DEF kind
  <2>4. \A n \in 1..MaxSent : answers'[n] = IF ~failed /\ n = sent THEN <<kind>> ELSE answers[n]
    BY <2>1, <2>2, <2>3, OneGiven
  <2>5. ASSUME NEW n PROVE Owed(n)' <=> Owed(n) /\ n # sent
    <3>1. (active # Nothing => active.n # sent) /\ (At("send") => executor.msg.n # sent)
      BY <2>1 DEF IInv, Replying, SendReply
    <3>2. \A i \in DOMAIN queue : queue[i].n # sent
      BY <2>1 DEF IInv, Replying, SendReply
    <3> QED BY <2>1, <3>1, <3>2 DEF Owed, SendReply, ReaderAt, shared, ghosts, At
  <2> DEFINE Done == {sent}
  <2>6. sent \in Nat /\ Done \in SUBSET (1..sent') /\ sent' <= MaxSent /\ sent' = sent /\ failed' = failed
        /\ sent' \in {sent, sent + 1} /\ (failed => answers' = answers)
    BY <2>1, <2>3, Bounded DEF SendReply, ghosts, Answer
  <2>7. \A n \in 1..sent' : Owed(n)' <=> n \notin Done /\ (Owed(n) \/ n = sent + 1)
    BY <2>5, <2>6
  <2>8. \A n \in 1..MaxSent : answers'[n] = answers[n] \/ (n \in Done /\ Len(answers'[n]) = 1)
    BY <2>4
  <2>9. \A n \in Done : ~failed => Len(answers'[n]) = 1
    BY <2>1, <2>4
  <2> HIDE DEF Done
  <2> QED BY <2>6, <2>7, <2>8, <2>9, AnsweredKept DEF IInv
<1>5. Truthful'
  <2> DEFINE kind == IF reader.msg.code = "ok" THEN "ok" ELSE "refused"
  <2>1. Owed(sent) /\ sent \in 1..MaxSent /\ reader.msg.n = sent
    BY Bounded DEF Owed, SendReply, IInv, Replying, SharedOK
  <2>2. kind \in FinalKinds /\ <<kind>> # <<"cancelled">>
    BY DEF FinalKinds
  <2>3. Answer(One(sent, kind))
    BY <2>1 DEF SendReply
  <2> HIDE DEF kind
  <2>4. \A n \in 1..MaxSent : answers'[n] = IF ~failed /\ n = sent THEN <<kind>> ELSE answers[n]
    BY <2>1, <2>2, <2>3, OneGiven
  <2>5. \A i \in DOMAIN runs : answers'[runs[i].n] # <<"cancelled">>
    BY <2>2, <2>4 DEF IInv, Truthful, RunOrder
  <2>6. \A n \in promised : answers'[n] = answers[n]
    BY <2>1, <2>4 DEF IInv, Truthful
  <2> QED BY <2>5, <2>6 DEF IInv, Truthful, SendReply, shared, ghosts, At
<1> QED BY <1>1, <1>2, <1>3, <1>4, <1>5 DEF IInv

\* The input ends.
LEMMA EofKeeps ==
    ASSUME IInv, Eof
    PROVE  IInv'
<1>1. (SharedOK /\ FlagsOK /\ StateOK /\ HistoryOK /\ Places /\ Admitted /\ Counted /\
       Arrival /\ RunOrder /\ Revisions /\ Published /\ ClientKnows /\ Truthful)'
  BY Frame DEF IInv, Eof, shared, ghosts
<1>2. Replying'
  BY DEF IInv, Replying, Eof, ReaderAt
<1>3. Answered'
  BY DEF IInv, Answered, Eof, shared, ghosts, ReaderAt, Reading, At, Owed
<1> QED BY <1>1, <1>2, <1>3 DEF IInv

\* The end of input answers every waiting request.
LEMMA DrainKeeps ==
    ASSUME IInv, Drain
    PROVE  IInv'
<1>1. (StateOK /\ Places /\ Revisions /\ Published /\ ClientKnows)'
  BY Frame DEF IInv, Drain, ghosts, DropQueue
<1>2. SharedOK'
  BY DEF IInv, SharedOK, Drain, ghosts, DropQueue
<1>3. FlagsOK'
  BY DEF IInv, FlagsOK, Drain, DropQueue
<1>4. Admitted'
  BY DEF IInv, Admitted, Drain, DropQueue
<1>5. Arrival'
  BY DEF IInv, Arrival, Drain, ghosts, DropQueue, At
<1>6. Replying'
  BY DEF IInv, Replying, Drain, ReaderAt
<1>7. RunOrder'
  BY DEF IInv, RunOrder, Drain, ghosts, DropQueue, At
<1>8. HistoryOK'
  BY DropAnswers DEF Drain, ghosts, IInv, HistoryOK
<1>9. Counted'
  BY BytesOfEmpty, WorkerAssumption DEF Counted, Drain, DropQueue
<1>10. Answered'
  <2> DEFINE Done == {queue[i].n : i \in DOMAIN queue}
  <2>1. \A n \in 1..MaxSent :
           answers'[n] = IF ~failed /\ (\E i \in DOMAIN queue : queue[i].n = n)
                         THEN <<"cancelled">> ELSE answers[n]
    BY DropAnswers DEF Drain
  <2>2. sent \in Nat /\ sent' = sent /\ sent' <= MaxSent /\ failed' = failed
        /\ sent' \in {sent, sent + 1} /\ (failed => answers' = answers)
    BY Bounded DEF IInv, SharedOK, Drain, ghosts, Answer
  <2>3. Done \in SUBSET (1..sent') /\ Done \in SUBSET (1..MaxSent)
    BY <2>2, QueueNumbers
  <2>4. ASSUME NEW n PROVE Owed(n)' <=> Owed(n) /\ n \notin Done
    <3>1. active # Nothing => active.n \notin Done
      BY DEF IInv, Arrival
    <3>2. At("send") => executor.msg.n \notin Done
      BY DEF IInv, Arrival
    <3>3. DOMAIN queue' = {}
      BY DEF Drain, DropQueue
    <3> QED BY <3>1, <3>2, <3>3 DEF Owed, Drain, DropQueue, ReaderAt, ghosts, At
  <2>5. \A n \in 1..sent' : Owed(n)' <=> n \notin Done /\ (Owed(n) \/ n = sent + 1)
    BY <2>2, <2>4
  <2>6. \A n \in 1..MaxSent : answers'[n] = answers[n] \/ (n \in Done /\ Len(answers'[n]) = 1)
    BY <2>1
  <2>7. \A n \in Done : ~failed => Len(answers'[n]) = 1
    BY <2>1, <2>3
  <2> HIDE DEF Done
  <2> QED BY <2>2, <2>3, <2>5, <2>6, <2>7, AnsweredKept DEF IInv
<1>11. Truthful'
  <2>1. \A n \in 1..MaxSent :
           answers'[n] = IF ~failed /\ (\E i \in DOMAIN queue : queue[i].n = n)
                         THEN <<"cancelled">> ELSE answers[n]
    BY DropAnswers DEF Drain
  <2>2. \A i \in DOMAIN runs : answers'[runs[i].n] # <<"cancelled">>
    <3>1. TAKE i \in DOMAIN runs
    <3>2. runs[i].n \in 1..MaxSent /\ ~\E j \in DOMAIN queue : queue[j].n = runs[i].n
      BY DEF IInv, RunOrder
    <3> QED BY <2>1, <3>2 DEF IInv, Truthful
  <2>3. \A n \in promised : answers'[n] = answers[n]
    <3>1. TAKE n \in promised
    <3>2. n \in 1..MaxSent /\ ~\E j \in DOMAIN queue : queue[j].n = n
      BY DEF IInv, Truthful
    <3> QED BY <2>1, <3>2
  <2>4. DOMAIN queue' = {}
    BY DEF Drain, DropQueue
  <2> QED BY <2>2, <2>3, <2>4 DEF IInv, Truthful, Drain, DropQueue, ghosts, At
<1> QED BY <1>1, <1>2, <1>3, <1>4, <1>5, <1>6, <1>7, <1>8, <1>9, <1>10, <1>11 DEF IInv

\* The process ends when its threads have.
LEMMA ExitKeeps ==
    ASSUME IInv, Exit
    PROVE  IInv'
<1>1. (SharedOK /\ FlagsOK /\ StateOK /\ HistoryOK /\ Places /\ Admitted /\ Counted /\
       Arrival /\ RunOrder /\ Revisions /\ Published /\ ClientKnows /\ Truthful)'
  BY Frame DEF IInv, Exit, shared, ghosts
<1>2. Replying'
  BY DEF IInv, Replying, Exit, ReaderAt
<1>3. Answered'
  BY DEF IInv, Answered, Exit, shared, ghosts, ReaderAt, At, Owed
<1> QED BY <1>1, <1>2, <1>3 DEF IInv

\* Writes fail from now on.
LEMMA PipeBreaksKeeps ==
    ASSUME IInv, PipeBreaks
    PROVE  IInv'
<1>1. (SharedOK /\ StateOK /\ HistoryOK /\ Places /\ Admitted /\ Counted /\ Arrival /\
       Replying /\ RunOrder /\ Revisions /\ Published /\ ClientKnows /\ Truthful)'
  BY Frame DEF IInv, PipeBreaks, shared, ghosts
<1>2. FlagsOK'
  BY DEF IInv, FlagsOK, PipeBreaks, shared
<1>3. Answered'
  BY Zenon DEF IInv, Answered, PipeBreaks, shared, ghosts, At, Owed
<1> QED BY <1>1, <1>2, <1>3 DEF IInv

-----------------------------------------------------------------------------
(* The invariant and what follows from it.                                 *)

\* What a client may send is a numbered message, and a request when it is for
\* the executor.
LEMMA IncomingNumbered ==
    ASSUME IInv, sent < MaxSent, NEW m \in Incoming
    PROVE  Numbered(m)
<1>1. sent \in Nat /\ sent + 1 \in 1..MaxSent
  BY Bounded DEF IInv, SharedOK
<1>2. client.revision \in Nat /\ client.project \in Nat
  BY DEF IInv, StateOK
<1>3. m \in [n : {sent + 1}, id : Id, bytes : Bytes,
             op : Op \union {"hello", "cancel", "shutdown"}, target : Id,
             expects : {Nothing, client.revision}, project : {Nothing, client.project}]
  BY DEF Incoming
<1>4. m.op \in Op => m \in Requests
  BY <1>1, <1>2, <1>3 DEF Requests
<1> QED BY <1>3, <1>4 DEF Numbered

\* A worker that starts satisfies the invariant.
LEMMA Initial == Init => IInv
<1> SUFFICES ASSUME Init PROVE IInv
  OBVIOUS
<1> USE DEF Init
<1>1. SharedOK /\ FlagsOK /\ StateOK
  <2>1. SharedOK
    BY Bounded DEF SharedOK
  <2>2. FlagsOK
    BY DEF FlagsOK
  <2>3. StateOK
    BY DEF StateOK, Background, NoBackground
  <2> QED BY <2>1, <2>2, <2>3
<1>2. HistoryOK /\ Places /\ Admitted
  BY DEF HistoryOK, Places, Admitted, At
<1>3. Counted
  BY BytesOfEmpty, WorkerAssumption DEF Counted
<1>4. Arrival /\ Replying /\ RunOrder
  BY DEF Arrival, Replying, RunOrder, At
<1>5. Revisions
  <2>1. Changes(0) = 0
    BY FS_EmptySet DEF Changes
  <2> QED BY <2>1 DEF Revisions
<1>6. Published /\ ClientKnows
  BY DEF Published, ClientKnows, At
<1>7. Answered /\ Truthful
  BY Bounded DEF Answered, Truthful, Owed, At
<1> QED BY <1>1, <1>2, <1>3, <1>4, <1>5, <1>6, <1>7 DEF IInv

\* A message the input loop reads keeps it, whatever it asks for.
LEMMA ReceiveKeeps ==
    ASSUME IInv, sent < MaxSent, NEW m \in Incoming, Receive(m)
    PROVE  IInv'
<1>1. Numbered(m) /\ Receiving
  BY IncomingNumbered DEF Receive, Receiving
<1>2. CASE Refuse(m)
  BY <1>1, <1>2, RefuseKeeps
<1>3. CASE Hello(m)
  BY <1>1, <1>3, HelloKeeps
<1>4. CASE Enqueue(m)
  BY <1>1, <1>4, EnqueueKeeps
<1>5. CASE CancelActive(m)
  BY <1>1, <1>5, CancelActiveKeeps
<1>6. CASE CancelQueued(m)
  BY <1>1, <1>6, CancelQueuedKeeps
<1>7. CASE CancelMissing(m)
  BY <1>1, <1>7, CancelMissingKeeps
<1>8. CASE Shutdown(m)
  BY <1>1, <1>8, ShutdownKeeps
<1> QED BY <1>2, <1>3, <1>4, <1>5, <1>6, <1>7, <1>8 DEF Receive

\* Every step of every thread keeps it.
LEMMA StepKeeps == IInv /\ [Next]_vars => IInv'
<1> SUFFICES ASSUME IInv, [Next]_vars PROVE IInv'
  OBVIOUS
<1>1. CASE Client
  BY <1>1, ReceiveKeeps, EofKeeps, PipeBreaksKeeps DEF Client
<1>2. CASE Executor
  BY <1>2, StartEngineKeeps, IdleBeginKeeps, IdleEndKeeps, AnnounceKeeps, TakeKeeps, RunKeeps,
     PublishKeeps, SendResultKeeps, StopWaitingKeeps, SendFatalKeeps, LeaveKeeps DEF Executor
<1>3. CASE Heartbeat
  BY <1>3, BeatKeeps, SendBeatKeeps DEF Heartbeat
<1>4. CASE Reader
  BY <1>4, BuildRefusalKeeps, SendReplyKeeps, DrainKeeps, ExitKeeps DEF Reader
<1>5. CASE UNCHANGED vars
  BY <1>5, Frame DEF IInv, vars, shared, ghosts
<1> QED BY <1>1, <1>2, <1>3, <1>4, <1>5 DEF Next, Exited

\* The inductive invariant holds in every state of the worker.
THEOREM Invariant == Spec => []IInv
<1> QED BY Initial, StepKeeps, PTL DEF Spec

\* What is in flight, by its place.
LEMMA InFlightPlaces ==
    ASSUME IInv
    PROVE  /\ DOMAIN queue = 1..Len(queue)
           /\ \A r : r \in InFlight <=> \/ \E i \in DOMAIN queue : r = queue[i]
                                        \/ active # Nothing /\ r = active
<1>1. queue \in Seq(Requests)
  BY DEF IInv, SharedOK
<1> QED BY <1>1 DEF InFlight, ToSet

\* The three threads keep the admission bookkeeping exact: the ids and the
\* bytes counted are those of the requests waiting and running, whatever the
\* limits and the sizes.
THEOREM AdmissionExactHolds == Spec => []AdmissionExact
<1>1. IInv => AdmissionExact
  <2> SUFFICES ASSUME IInv PROVE AdmissionExact
    OBVIOUS
  <2>1. TypeOK
    BY DEF IInv, SharedOK, FlagsOK, StateOK, TypeOK
  <2>2. pending = {r.id : r \in InFlight}
    BY InFlightPlaces DEF IInv, Admitted
  <2>3. \A r, q \in InFlight : r.id = q.id => r = q
    BY InFlightPlaces DEF IInv, Admitted
  <2> QED BY <2>1, <2>2, <2>3 DEF IInv, Counted, AdmissionExact
<1> QED BY <1>1, Invariant, PTL

\* Whoever of the three threads answers, cancels or drops a message, it gets
\* one final reply, and none while the worker owes it one.
THEOREM OneAnswerHolds == Spec => []OneAnswer
<1>1. IInv => OneAnswer
  <2> SUFFICES ASSUME IInv PROVE OneAnswer
    OBVIOUS
  <2>1. \A n : Outstanding(n) <=> Owed(n)
    BY InFlightPlaces DEF Outstanding, Owed
  <2>2. \A n \in 1..sent : n \in 1..MaxSent
    BY Bounded DEF IInv, SharedOK
  <2> QED BY <2>1, <2>2 DEF IInv, Answered, OneAnswer
<1> QED BY <1>1, Invariant, PTL

\* A request answered "cancelled" never ran, and a cancel acknowledged while
\* the request runs is in its reply.
THEOREM TruthfulCancellationHolds == Spec => []TruthfulCancellation
<1>1. IInv => TruthfulCancellation
  BY DEF IInv, Truthful, TruthfulCancellation, Ran
<1> QED BY <1>1, Invariant, PTL

\* Requests run in the order of arrival, and one that names a revision runs on
\* exactly that one.
THEOREM NoLostUpdateHolds == Spec => []NoLostUpdate
<1>1. IInv => NoLostUpdate
  BY DEF IInv, RunOrder, Revisions, Changes, NoLostUpdate
<1> QED BY <1>1, Invariant, PTL

\* A client that holds the newest sequence number shows the newest background
\* state, and no revision that was not published.
THEOREM SequenceNamesStateHolds == Spec => []SequenceNamesState
<1>1. IInv => SequenceNamesState
  BY DEF IInv, ClientKnows, SequenceNamesState
<1> QED BY <1>1, Invariant, PTL

=============================================================================
