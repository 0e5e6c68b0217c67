----------------------- MODULE SessionTransitionProofs -----------------------
(***************************************************************************)
(* Proofs about SessionTransition, for any number of edits, commands,      *)
(* saves and requests to leave.                                            *)
(***************************************************************************)
EXTENDS SessionTransition, FiniteSetTheorems, FunctionTheorems, SequenceTheorems, TLAPS

Paths == {"packed", "database"}
Edits == SUBSET Nat
Sessions ==
    [loaded : BOOLEAN, opened : BOOLEAN, opening : BOOLEAN, connected : BOOLEAN,
     starting : BOOLEAN, epoch : Nat, pendingFile : BOOLEAN, quit : BOOLEAN,
     transition : {"", "quit", "close", "restart", "open"}, ready : BOOLEAN,
     dirty : BOOLEAN, databaseDirty : BOOLEAN, marked : BOOLEAN, pendingWrites : Nat,
     identity : Edits, writing : BOOLEAN,
     waiting : [path : Paths \union {""}, replace : BOOLEAN]]
Commands ==
    [op : {"note", "edit", "save", "open"}, then : {"", "save", "pack", "transition"},
     edit : Nat, epoch : Nat, dirty : BOOLEAN, identity : Edits, recovered : BOOLEAN,
     code : {"", "unavailable", "ok", "failed", "stopped"}]
Workers == [process : {"up", "gone", "down", "starting"}, staged : Edits]
Openers ==
    [phase : {"unpack", "failed"}] \union [phase : {"read"}, recovered : BOOLEAN]
    \union [phase : {"unpacked"}, identity : Edits, recovered : BOOLEAN]
Recoveries == [journal : Edits, marker : Edits]
Writers ==
    [phase : {"check", "save", "read", "done", "asking"}, path : Paths, replace : BOOLEAN,
     opened : BOOLEAN, expects : BOOLEAN, expected : Edits,
     code : {"", "ok", "changed", "error"}, identity : Edits]

SessionOK == session \in Sessions
CommandsOK == commands \in Seq(Commands)
PartsOK ==
    /\ worker \in Workers /\ opener \in Openers \union {Idle}
    /\ writer \in Writers \union {Idle}
\* The edits are numbered from 1 to `made'.
FilesOK ==
    /\ made \in Nat /\ files \subseteq 1..made /\ database \subseteq 1..made
    /\ acked \subseteq 1..made /\ saved \subseteq 1..made
    /\ given \subseteq 1..made
    /\ recovery \in Recoveries /\ recovery.journal \subseteq 1..made
\* What an edit, a save and an open are for.
Purposes ==
    \A n \in DOMAIN commands :
        /\ commands[n].op = "save" <=> commands[n].then # ""
        /\ commands[n].op \in {"note", "edit"} => commands[n].edit \in 1..made
        /\ commands[n].op \in {"save", "open"} => commands[n].edit = 0
Staged == worker.staged \subseteq 1..made

\* Commands that count as writes.
Writes(queue) == {n \in DOMAIN queue : queue[n].op # "open"}
CountedAs(s, queue) ==
    s.pendingWrites = Cardinality(Writes(queue)) + (IF s.writing THEN 1 ELSE 0)
Counted == CountedAs(session, commands)

\* The write that runs, the one that waits behind it, and the question about
\* it; the database written is the one opened.
WritingAs(s, w) ==
    /\ s.writing <=> w # Idle
    /\ s.waiting # Nothing => s.writing /\ s.waiting.path \in Paths
    /\ s.waiting.path = "database" => s.opened
    /\ w # Idle =>
          /\ w.path = "database" => s.opened
          /\ w.opened <=> w.path = "database"
          /\ w.expects => w.opened /\ ~w.replace
          /\ w.phase = "done" <=> w.code # "" /\ w.phase # "asking"
          /\ w.code = "changed" => w.path = "database"
          /\ w.phase = "asking" => w.code = "changed"
Writing == WritingAs(session, writer)
Asking ==
    /\ questions \in {<<>>, <<"transition">>, <<"conflict">>, <<"transition", "conflict">>}
    /\ questions \in {<<"conflict">>, <<"transition", "conflict">>} <=>
          writer # Idle /\ writer.phase = "asking"

\* The count of pending writes, whatever happens.
WritesInv ==
    /\ SessionOK /\ CommandsOK /\ PartsOK /\ FilesOK /\ Purposes /\ Staged
    /\ Counted /\ Writing /\ Asking

-----------------------------------------------------------------------------
(* Queues of commands, and what leaving does.                              *)

\* No identity is still a set of numbers.
LEMMA UnknownIsOne == Unknown \in Edits
  BY DEF Unknown, Edits

\* A thread at rest is none of those at work.
LEMMA IdleIsNone == Idle \notin Openers /\ Idle \notin Writers
<1>1. Idle.phase = "idle"
  BY DEF Idle
<1>2. \A o \in Openers : o.phase # "idle"
  BY DEF Openers
<1>3. \A w \in Writers : w.phase # "idle"
  BY DEF Writers
<1> QED BY <1>1, <1>2, <1>3

\* The writes of a queue are finitely many.
LEMMA WritesFinite ==
    ASSUME NEW q \in Seq(Commands)
    PROVE  /\ IsFiniteSet(Writes(q)) /\ Cardinality(Writes(q)) \in Nat
           /\ Cardinality(Writes(q)) = 0 => \A n \in DOMAIN q : q[n].op = "open"
<1>1. Writes(q) \subseteq 1..Len(q) /\ Len(q) \in Nat
  BY DEF Writes
<1>2. IsFiniteSet(Writes(q))
  <2>1. IsFiniteSet(1..Len(q))
    BY <1>1, FS_Interval
  <2> QED BY <1>1, <2>1, FS_Subset
<1>3. Cardinality(Writes(q)) \in Nat
  BY <1>2, FS_CardinalityType
<1>4. Cardinality(Writes(q)) = 0 => Writes(q) = {}
  BY <1>2, FS_EmptySet
<1> QED BY <1>2, <1>3, <1>4 DEF Writes

\* One more command is one more write, unless it is an open.
LEMMA WritesAppend ==
    ASSUME NEW q \in Seq(Commands), NEW c \in Commands
    PROVE  /\ Append(q, c) \in Seq(Commands)
           /\ DOMAIN Append(q, c) = DOMAIN q \union {Len(q) + 1}
           /\ Len(q) \in Nat /\ DOMAIN q = 1..Len(q)
           /\ \A n \in DOMAIN q : n # Len(q) + 1 /\ Append(q, c)[n] = q[n]
           /\ Append(q, c)[Len(q) + 1] = c
           /\ Cardinality(Writes(Append(q, c))) =
                 Cardinality(Writes(q)) + IF c.op = "open" THEN 0 ELSE 1
<1> DEFINE p == Append(q, c)
           e == Len(q) + 1
<1>1. /\ p \in Seq(Commands) /\ DOMAIN p = 1..e /\ DOMAIN q = 1..Len(q) /\ Len(q) \in Nat
      /\ \A n \in 1..Len(q) : p[n] = q[n]
      /\ p[e] = c
  OBVIOUS
<1>2. \A n : n \in 1..e <=> n \in 1..Len(q) \/ n = e
  BY <1>1
<1>3. e \notin 1..Len(q)
  BY <1>1
<1>4. Writes(p) = IF c.op = "open" THEN Writes(q) ELSE Writes(q) \union {e}
  BY <1>1, <1>2, <1>3 DEF Writes
<1>5. e \notin Writes(q)
  BY <1>1, <1>3 DEF Writes
<1>6. Cardinality(Writes(q) \union {e}) = Cardinality(Writes(q)) + 1
  BY <1>5, WritesFinite, FS_AddElement
<1>7. Cardinality(Writes(q)) \in Nat
  BY WritesFinite
<1> QED BY <1>1, <1>2, <1>3, <1>4, <1>6, <1>7

\* The positions of the writes behind the first command, moved up by one.
LEMMA WritesTail ==
    ASSUME NEW q \in Seq(Commands), q # <<>>
    PROVE  /\ Tail(q) \in Seq(Commands) /\ Head(q) = q[1] /\ q[1] \in Commands /\ 1 \in DOMAIN q
           /\ \A n \in DOMAIN Tail(q) : n \in Nat /\ n + 1 \in DOMAIN q /\ Tail(q)[n] = q[n + 1]
           /\ \A n \in DOMAIN q : n # 1 => n - 1 \in DOMAIN Tail(q) /\ Tail(q)[n - 1] = q[n]
           /\ Cardinality(Writes(q)) =
                 Cardinality(Writes(Tail(q))) + IF q[1].op = "open" THEN 0 ELSE 1
<1> DEFINE t == Tail(q)
<1>1. /\ t \in Seq(Commands) /\ Len(q) \in Nat /\ Len(q) > 0 /\ DOMAIN q = 1..Len(q)
      /\ DOMAIN t = 1..(Len(q) - 1) /\ Head(q) = q[1] /\ q[1] \in Commands
      /\ \A n \in 1..(Len(q) - 1) : t[n] = q[n + 1]
  OBVIOUS
<1>2. \A n \in DOMAIN t : n \in Nat /\ n + 1 \in DOMAIN q /\ n + 1 # 1 /\ t[n] = q[n + 1]
  BY <1>1
<1>3. \A n \in DOMAIN q : n # 1 => n - 1 \in DOMAIN t /\ t[n - 1] = q[n] /\ n = (n - 1) + 1
  BY <1>1
<1> DEFINE R == Writes(q) \ {1}
           f == [n \in Writes(t) |-> n + 1]
<1>4. f \in Bijection(Writes(t), R)
  <2>1. f \in [Writes(t) -> R]
    BY <1>2 DEF Writes
  <2>2. \A m, n \in Writes(t) : f[m] = f[n] => m = n
    BY <1>1 DEF Writes
  <2>3. \A r \in R : \E n \in Writes(t) : f[n] = r
    BY <1>3 DEF Writes
  <2> QED BY <2>1, <2>2, <2>3, Fun_IsBij
<1>5. IsFiniteSet(Writes(t)) /\ Cardinality(Writes(t)) = Cardinality(R)
  <2>1. ExistsBijection(Writes(t), R)
    BY <1>4 DEF ExistsBijection
  <2> QED BY <1>1, <2>1, WritesFinite, FS_Bijection
<1>6. Cardinality(R) = IF 1 \in Writes(q) THEN Cardinality(Writes(q)) - 1 ELSE Cardinality(Writes(q))
  BY WritesFinite, FS_RemoveElement
<1>7. 1 \in Writes(q) <=> q[1].op # "open"
  BY <1>1 DEF Writes
<1>8. Cardinality(Writes(q)) \in Nat
  BY WritesFinite
<1> QED BY <1>1, <1>2, <1>3, <1>5, <1>6, <1>7, <1>8

\* Commands that are answered stay the writes they were.
LEMMA RetiredKeeps ==
    ASSUME NEW q \in Seq(Commands)
    PROVE  /\ Retired(q) \in Seq(Commands) /\ DOMAIN Retired(q) = DOMAIN q
           /\ Writes(Retired(q)) = Writes(q)
           /\ \A n \in DOMAIN q : Retired(q)[n] = [q[n] EXCEPT !.code = "stopped"]
           /\ \A n \in DOMAIN q :
                 /\ Retired(q)[n].code = "stopped" /\ Retired(q)[n].op = q[n].op
                 /\ Retired(q)[n].then = q[n].then /\ Retired(q)[n].edit = q[n].edit
                 /\ Retired(q)[n].recovered = q[n].recovered
<1>1. Len(q) \in Nat /\ DOMAIN q = 1..Len(q) /\ \A n \in DOMAIN q : q[n] \in Commands
  BY ElementOfSeq
<1>2. DOMAIN Retired(q) = DOMAIN q
      /\ \A n \in DOMAIN q : Retired(q)[n] = [q[n] EXCEPT !.code = "stopped"]
  BY DEF Retired
<1>3. \A n \in DOMAIN q :
         /\ Retired(q)[n] \in Commands
         /\ Retired(q)[n].code = "stopped" /\ Retired(q)[n].op = q[n].op
         /\ Retired(q)[n].then = q[n].then /\ Retired(q)[n].edit = q[n].edit
         /\ Retired(q)[n].recovered = q[n].recovered
  <2>1. TAKE n \in DOMAIN q
  <2>2. q[n] \in Commands /\ Retired(q)[n] = [q[n] EXCEPT !.code = "stopped"]
    BY <1>1, <1>2
  <2> QED BY <2>2 DEF Commands
<1>4. Retired(q) \in Seq(Commands)
  <2>1. Retired(q) = [n \in 1..Len(q) |-> Retired(q)[n]]
    BY <1>1 DEF Retired
  <2>2. \A n \in 1..Len(q) : Retired(q)[n] \in Commands
    BY <1>1, <1>3
  <2> QED BY <1>1, <2>1, <2>2, IsASeq
<1>5. Writes(Retired(q)) = Writes(q)
  BY <1>2, <1>3 DEF Writes
<1> QED BY <1>2, <1>3, <1>4, <1>5

\* The worker answers the first command and leaves the others.
Answered(q, code, dirty) == <<[Head(q) EXCEPT !.code = code, !.dirty = dirty]>> \o Tail(q)

\* The first command answered; the others stay as they are.
LEMMA AnswerKeeps ==
    ASSUME NEW q \in Seq(Commands), q # <<>>, NEW code \in {"ok", "failed"}, NEW dirty \in BOOLEAN,
           NEW p, p = Answered(q, code, dirty)
    PROVE  /\ p \in Seq(Commands) /\ DOMAIN p = DOMAIN q /\ Writes(p) = Writes(q)
           /\ 1 \in DOMAIN q /\ Head(q) = q[1] /\ q[1] \in Commands
           /\ p[1].code = code /\ p[1].dirty = dirty
           /\ p[1].op = q[1].op /\ p[1].then = q[1].then /\ p[1].edit = q[1].edit
           /\ p[1].recovered = q[1].recovered /\ p[1].epoch = q[1].epoch
           /\ \A n \in DOMAIN q : n # 1 => p[n] = q[n]
<1> DEFINE a == [Head(q) EXCEPT !.code = code, !.dirty = dirty]
<1>1. Head(q) = q[1] /\ q[1] \in Commands /\ 1 \in DOMAIN q /\ Len(q) \in Nat /\ DOMAIN q = 1..Len(q)
  OBVIOUS
<1>2. /\ a \in Commands /\ a.code = code /\ a.dirty = dirty /\ a.op = q[1].op
      /\ a.then = q[1].then /\ a.edit = q[1].edit /\ a.recovered = q[1].recovered
      /\ a.epoch = q[1].epoch
  BY <1>1 DEF Commands
<1> HIDE DEF a
<1>3. /\ p \in Seq(Commands) /\ Len(p) = Len(q) /\ DOMAIN p = DOMAIN q /\ p[1] = a
      /\ \A n \in DOMAIN q : n # 1 => p[n] = q[n]
  <2>1. p = <<a>> \o Tail(q)
    BY DEF a, Answered
  <2>2. /\ <<a>> \in Seq(Commands) /\ Tail(q) \in Seq(Commands) /\ Len(<<a>>) = 1
        /\ Len(Tail(q)) = Len(q) - 1 /\ \A n \in 1..(Len(q) - 1) : Tail(q)[n] = q[n + 1]
    BY <1>2
  <2>3. p \in Seq(Commands) /\ Len(p) = Len(q) /\ p[1] = a
        /\ \A n \in 1..Len(q) : n # 1 => p[n] = Tail(q)[n - 1] /\ n - 1 \in 1..(Len(q) - 1)
    BY <1>1, <2>1, <2>2
  <2> QED BY <1>1, <2>2, <2>3
<1>4. Writes(p) = Writes(q)
  <2>1. \A n \in DOMAIN q : p[n].op = q[n].op
    BY <1>2, <1>3
  <2> QED BY <1>3, <2>1 DEF Writes
<1> QED BY <1>1, <1>2, <1>3, <1>4

-----------------------------------------------------------------------------
(* What leaving does.                                                      *)

\* The session goes on as s, but for quitting.
Stays(s, queue) ==
    /\ session'.loaded = s.loaded /\ session'.opened = s.opened
    /\ session'.opening = s.opening /\ session'.connected = s.connected
    /\ session'.starting = s.starting /\ session'.epoch = s.epoch
    /\ session'.dirty = s.dirty /\ session'.databaseDirty = s.databaseDirty
    /\ commands' = queue /\ worker' = worker

\* The worker is replaced, and the session starts afresh.
Restarts(s, queue) ==
    /\ ~session'.loaded /\ ~session'.opened /\ ~session'.opening /\ ~session'.connected
    /\ session'.starting /\ ~session'.dirty /\ ~session'.databaseDirty
    /\ session'.epoch = IF s.connected THEN s.epoch + 1 ELSE s.epoch
    /\ commands' = IF s.connected THEN Retired(queue) ELSE queue
    /\ worker' = [process |-> "starting", staged |-> {}]

GoesOn(s, queue) ==
    /\ session' \in Sessions /\ worker' \in Workers /\ commands' \in Seq(Commands)
    /\ Writes(commands') = Writes(queue)
    /\ session'.pendingWrites = s.pendingWrites /\ session'.writing = s.writing
    /\ session'.waiting = s.waiting /\ session'.marked = s.marked
    /\ session'.transition = s.transition /\ session'.ready = s.ready
    /\ \/ Stays(s, queue) /\ (session'.quit \/ (session' = s /\ ~s.loaded))
       \/ Restarts(s, queue)
    /\ s.quit => session'.quit

\* A request to leave goes on in one of these two ways.
LEMMA GoOnDoes ==
    ASSUME NEW s \in Sessions, NEW action \in {"quit", "close", "restart", "open"},
           NEW queue \in Seq(Commands), NEW due, worker \in Workers,
           GoOn(s, action, queue, due)
    PROVE  GoesOn(s, queue)
<1>1. CASE action = "quit"
  <2>1. session' = [s EXCEPT !.quit = TRUE]
    BY <1>1 DEF GoOn
  <2>2. session' \in Sessions
    BY <2>1 DEF Sessions
  <2>3. /\ session'.pendingWrites = s.pendingWrites /\ session'.writing = s.writing
        /\ session'.waiting = s.waiting /\ session'.marked = s.marked
        /\ session'.transition = s.transition /\ session'.ready = s.ready
        /\ session'.loaded = s.loaded /\ session'.opened = s.opened
        /\ session'.opening = s.opening /\ session'.connected = s.connected
        /\ session'.starting = s.starting /\ session'.epoch = s.epoch
        /\ session'.dirty = s.dirty /\ session'.databaseDirty = s.databaseDirty
        /\ session'.quit
    BY <2>1 DEF Sessions
  <2> QED BY <1>1, <2>2, <2>3 DEF GoOn, GoesOn, Stays
<1>2. CASE action = "close" /\ ~s.loaded
  BY <1>2 DEF GoOn, GoesOn, Stays
<1>3. CASE action # "quit" /\ ~(action = "close" /\ ~s.loaded)
  <2> DEFINE p == CASE action = "open" -> s.pendingFile
                    [] action = "close" -> FALSE
                    [] action = "restart" -> TRUE
             e == IF s.connected THEN s.epoch + 1 ELSE s.epoch
  <2>1. p \in BOOLEAN /\ e \in Nat
    <3>1. s.pendingFile \in BOOLEAN /\ s.epoch \in Nat
      BY DEF Sessions
    <3>2. CASE action = "open"
      BY <3>1, <3>2
    <3>3. CASE action = "close"
      BY <3>1, <3>3
    <3>4. CASE action = "restart"
      BY <3>1, <3>4
    <3> QED BY <1>3, <3>2, <3>3, <3>4
  <2>2. session' = [ResetState(s) EXCEPT !.epoch = e, !.connected = FALSE, !.starting = TRUE,
                                         !.opening = FALSE, !.pendingFile = p]
    BY <1>3 DEF GoOn, ResetState, Sessions
  <2> HIDE DEF p
  <2>3. session' \in Sessions
    <3> HIDE DEF e
    <3>1. ResetState(s) \in Sessions
      BY UnknownIsOne DEF Sessions, ResetState
    <3> QED BY <2>1, <2>2, <3>1 DEF Sessions
  <2>4. /\ session'.pendingWrites = s.pendingWrites /\ session'.writing = s.writing
        /\ session'.waiting = s.waiting /\ session'.marked = s.marked
        /\ session'.transition = s.transition /\ session'.ready = s.ready
        /\ ~session'.loaded /\ ~session'.opened /\ ~session'.opening /\ ~session'.connected
        /\ session'.starting /\ ~session'.dirty /\ ~session'.databaseDirty
        /\ session'.quit = s.quit /\ session'.epoch = e
    BY <2>2 DEF Sessions, ResetState
  <2>5. /\ commands' = IF s.connected THEN Retired(queue) ELSE queue
        /\ worker' = [process |-> "starting", staged |-> {}]
    BY <1>3 DEF GoOn
  <2>6. commands' \in Seq(Commands) /\ Writes(commands') = Writes(queue)
    BY <2>5, RetiredKeeps
  <2>7. worker' \in Workers
    BY <2>5 DEF Workers, Edits
  <2> QED BY <2>3, <2>4, <2>5, <2>6, <2>7 DEF GoesOn, Restarts
<1> QED BY <1>1, <1>2, <1>3

\* The transition is over, and nothing is left to ask about.
Over(s) == [s EXCEPT !.transition = "", !.ready = FALSE, !.dirty = FALSE, !.databaseDirty = FALSE]
Finishes(s, queue) ==
    \/ ~MayGoOn(s) /\ session' = s /\ commands' = queue /\ worker' = worker
    \/ MayGoOn(s) /\ GoesOn(Over(s), queue)

\* What finishTransition does: it goes on, or nothing happens.
LEMMA FinishDoes ==
    ASSUME NEW s \in Sessions, NEW queue \in Seq(Commands), NEW due,
           worker \in Workers, FinishTransition(s, queue, due)
    PROVE  /\ Finishes(s, queue) /\ Over(s) \in Sessions
<1>1. Over(s) \in Sessions
  BY DEF Sessions, Over
<1>2. CASE MayGoOn(s)
  <2>1. s.transition \in {"quit", "close", "restart", "open"}
    BY <1>2 DEF MayGoOn, Sessions
  <2>2. GoOn(Over(s), s.transition, queue, due)
    BY <1>2 DEF FinishTransition, Over
  <2> QED BY <1>1, <1>2, <2>1, <2>2, GoOnDoes DEF Finishes, FinishTransition
<1>3. CASE ~MayGoOn(s)
  BY <1>1, <1>3 DEF Finishes, FinishTransition
<1> QED BY <1>2, <1>3

\* Either way the count and the write that runs are those of s.
Follows(s, queue) ==
    /\ session' \in Sessions /\ worker' \in Workers /\ commands' \in Seq(Commands)
    /\ Writes(commands') = Writes(queue)
    /\ session'.pendingWrites = s.pendingWrites /\ session'.writing = s.writing
    /\ session'.waiting = s.waiting /\ session'.marked = s.marked
    /\ session'.opened # s.opened => s.pendingWrites = 0
    /\ worker'.staged \subseteq worker.staged
    /\ DOMAIN commands' = DOMAIN queue
    /\ \A n \in DOMAIN queue :
          /\ commands'[n].op = queue[n].op /\ commands'[n].then = queue[n].then
          /\ commands'[n].edit = queue[n].edit /\ commands'[n].recovered = queue[n].recovered
          /\ commands'[n] = queue[n] \/ commands'[n].code = "stopped"

\* Going on keeps the types and touches nothing but the queue and the epoch.
LEMMA GoesOnKeeps ==
    ASSUME NEW s \in Sessions, NEW queue \in Seq(Commands), s.pendingWrites = 0,
           GoesOn(s, queue)
    PROVE  Follows(s, queue)
<1>3. commands' = queue \/ commands' = Retired(queue)
  BY DEF GoesOn, Stays, Restarts
<1>4. worker'.staged \subseteq worker.staged
  BY DEF GoesOn, Stays, Restarts
<1>6. /\ DOMAIN commands' = DOMAIN queue
      /\ \A n \in DOMAIN queue :
            /\ commands'[n].op = queue[n].op /\ commands'[n].then = queue[n].then
            /\ commands'[n].edit = queue[n].edit /\ commands'[n].recovered = queue[n].recovered
            /\ commands'[n] = queue[n] \/ commands'[n].code = "stopped"
  BY <1>3, RetiredKeeps
<1> QED BY <1>4, <1>6 DEF GoesOn, Follows

\* The same of finishTransition.
LEMMA FinishKeeps ==
    ASSUME NEW s \in Sessions, NEW queue \in Seq(Commands), worker \in Workers,
           Finishes(s, queue)
    PROVE  Follows(s, queue)
<1>1. CASE ~MayGoOn(s) /\ session' = s /\ commands' = queue /\ worker' = worker
  BY <1>1 DEF Follows
<1>2. CASE MayGoOn(s) /\ GoesOn(Over(s), queue)
  <2>1. s.pendingWrites = 0
    BY <1>2 DEF MayGoOn
  <2>2. /\ Over(s).pendingWrites = s.pendingWrites /\ Over(s).writing = s.writing
        /\ Over(s).waiting = s.waiting /\ Over(s).marked = s.marked /\ Over(s) \in Sessions
    BY DEF Over, Sessions
  <2>3. Follows(Over(s), queue)
    BY <1>2, <2>1, <2>2, GoesOnKeeps
  <2> QED BY <2>1, <2>2, <2>3 DEF Follows
<1> QED BY <1>1, <1>2 DEF Finishes

\* A write is started, or waits for the one that runs: t is the session after it.
Counts(t, s, path, replace) ==
    /\ t \in Sessions
    /\ t.loaded = s.loaded /\ t.opened = s.opened /\ t.opening = s.opening
    /\ t.connected = s.connected /\ t.starting = s.starting /\ t.epoch = s.epoch
    /\ t.quit = s.quit /\ t.transition = s.transition /\ t.ready = s.ready /\ t.dirty = s.dirty
    /\ t.databaseDirty = s.databaseDirty /\ t.writing
    /\ s.writing => /\ t.waiting = [path |-> path, replace |-> replace]
                    /\ t.pendingWrites = s.pendingWrites /\ t.marked = s.marked
    /\ ~s.writing => /\ t.waiting = s.waiting /\ ~t.marked
                     /\ t.pendingWrites = s.pendingWrites + 1

\* writeDatabase counts a write it begins, and not one that waits.
LEMMA WriteDoes ==
    ASSUME NEW s \in Sessions, NEW path \in Paths, NEW replace \in BOOLEAN
    PROVE  Counts(WriteDatabase(s, path, replace), s, path, replace)
<1> DEFINE t == WriteDatabase(s, path, replace)
<1>1. CASE s.writing
  <2>1. t = [s EXCEPT !.waiting = [path |-> path, replace |-> replace]]
    BY <1>1 DEF WriteDatabase
  <2>2. [path |-> path, replace |-> replace] \in [path : Paths \union {""}, replace : BOOLEAN]
    OBVIOUS
  <2> HIDE DEF t
  <2>3. Counts(t, s, path, replace)
    BY <1>1, <2>1, <2>2 DEF Sessions, Counts
  <2> QED BY <2>3 DEF t
<1>2. CASE ~s.writing
  <2> DEFINE k == s.pendingWrites + 1
  <2>1. t = [s EXCEPT !.writing = TRUE, !.marked = FALSE, !.pendingWrites = k]
    BY <1>2 DEF WriteDatabase, Sessions
  <2>2. k \in Nat
    <3>1. s.pendingWrites \in Nat
      BY DEF Sessions
    <3> QED BY <3>1
  <2> HIDE DEF k, t
  <2>3. t \in Sessions
    BY <2>1, <2>2 DEF Sessions
  <2>4. t.pendingWrites = k
    BY <2>1 DEF Sessions
  <2>5. Counts(t, s, path, replace)
    <3>1. /\ t.loaded = s.loaded /\ t.opened = s.opened /\ t.opening = s.opening
          /\ t.connected = s.connected /\ t.starting = s.starting /\ t.epoch = s.epoch
          /\ t.quit = s.quit /\ t.transition = s.transition /\ t.ready = s.ready /\ t.dirty = s.dirty
          /\ t.databaseDirty = s.databaseDirty /\ t.writing
          /\ t.waiting = s.waiting /\ ~t.marked
      BY <2>1 DEF Sessions
    <3> QED BY <1>2, <2>3, <2>4, <3>1 DEF Counts, k
  <2> QED BY <2>5 DEF t
<1> QED BY <1>1, <1>2

\* What a write that starts is given.
Begun(w, s, path, replace) ==
    /\ w \in Writers /\ w # Idle /\ w.phase = "check" /\ w.path = path /\ w.replace = replace
    /\ w.opened = (s.opened /\ path = "database")
    /\ w.expects => s.opened /\ path = "database" /\ ~replace
    /\ w.code = ""

\* The thread that writeDatabase leaves running.
LEMMA WriterDoes ==
    ASSUME NEW s \in Sessions, NEW path \in Paths, NEW replace \in BOOLEAN
    PROVE  Begun(Writer(s, path, replace), s, path, replace)
<1>1. s.opened \in BOOLEAN /\ s.identity \in Edits /\ Unknown \in Edits
  BY UnknownIsOne DEF Sessions
<1>2. (s.opened /\ path = "database") \in BOOLEAN
      /\ (s.opened /\ path = "database" /\ ~replace /\ s.identity # Unknown) \in BOOLEAN
  BY <1>1
<1>3. Writer(s, path, replace) \in Writers
  BY <1>1, <1>2 DEF Writer, Writers
<1> QED BY <1>3, IdleIsNone DEF Begun, Writer

\* What an open that was waited for changes.
Opens(s, otherwise) ==
    /\ session' \in Sessions /\ opener' \in Openers \union {Idle}
    /\ session'.loaded = s.loaded /\ session'.opened = s.opened
    /\ session'.connected = s.connected /\ session'.starting = s.starting
    /\ session'.quit = s.quit /\ session'.epoch = s.epoch
    /\ session'.transition = s.transition
    /\ session'.ready = s.ready /\ session'.dirty = s.dirty
    /\ session'.databaseDirty = s.databaseDirty /\ session'.marked = s.marked
    /\ session'.pendingWrites = s.pendingWrites
    /\ session'.writing = s.writing /\ session'.waiting = s.waiting
    /\ \/ s.connected /\ ~s.opening /\ session'.opening /\ opener' = [phase |-> "unpack"]
       \/ session'.opening = s.opening /\ opener' = otherwise

\* What openPending does.
LEMMA OpenDoes ==
    ASSUME NEW s \in Sessions, NEW otherwise \in Openers \union {Idle}, OpenPending(s, otherwise)
    PROVE  Opens(s, otherwise)
<1>1. CASE s.pendingFile /\ ~s.opening /\ s.connected
  <2>1. /\ session' = [s EXCEPT !.pendingFile = FALSE, !.opening = TRUE]
        /\ opener' = [phase |-> "unpack"]
    BY <1>1 DEF OpenPending
  <2>2. opener' \in Openers
    BY <2>1 DEF Openers
  <2> QED BY <1>1, <2>1, <2>2 DEF Opens, Sessions
<1>2. CASE ~(s.pendingFile /\ ~s.opening /\ s.connected)
  BY <1>2 DEF OpenPending, Opens
<1> QED BY <1>1, <1>2

\* The answer counts: it is of this epoch, and the command was done.
Done(c) == c.epoch = session.epoch /\ c.code = "ok"
Starts(c) == Done(c) /\ (c.then = "pack" \/ (c.then # "" /\ session.opened))
PathOf(c) == IF c.then = "pack" THEN "packed" ELSE "database"

\* The session s after the completion of c, before finishTransition.
Completion(s, c) ==
    /\ s \in Sessions
    /\ s.loaded = session.loaded /\ s.opened = session.opened /\ s.opening = session.opening
    /\ s.connected = session.connected /\ s.starting = session.starting
    /\ s.epoch = session.epoch /\ s.quit = session.quit
    /\ ~Done(c) =>
          /\ s.pendingWrites = session.pendingWrites - 1 /\ s.writing = session.writing
          /\ s.waiting = session.waiting /\ s.marked = session.marked
          /\ s.dirty = session.dirty /\ s.databaseDirty = session.databaseDirty
          /\ \/ s.transition = session.transition /\ s.ready = session.ready
             \/ s.transition = "" /\ ~s.ready
          /\ writer' = writer /\ acked' = acked
    /\ Done(c) =>
          /\ s.transition = session.transition
          /\ s.ready = (session.ready \/ c.then = "transition")
          /\ s.dirty = c.dirty /\ (session.opened => s.databaseDirty)
          /\ acked' = IF c.edit = 0 THEN acked ELSE acked \union {c.edit}
    /\ Done(c) /\ ~Starts(c) =>
          /\ s.pendingWrites = session.pendingWrites - 1 /\ s.writing = session.writing
          /\ s.waiting = session.waiting /\ (session.opened => s.marked)
          /\ writer' = writer
    /\ Starts(c) /\ session.writing =>
          /\ s.pendingWrites = session.pendingWrites - 1 /\ s.writing
          /\ s.waiting = [path |-> PathOf(c), replace |-> FALSE] /\ (session.opened => s.marked)
          /\ writer' = writer
    /\ Starts(c) /\ ~session.writing =>
          /\ s.pendingWrites = session.pendingWrites /\ s.writing
          /\ s.waiting = session.waiting /\ ~s.marked
          /\ Begun(writer', session, PathOf(c), FALSE)

\* The completion of an edit or of a save, step by step.
LEMMA CompletesDoes ==
    ASSUME SessionOK, CommandsOK, PartsOK, session.pendingWrites > 0, Completes
    PROVE  LET c == commands[1]
           IN \E s : /\ Completion(s, c)
                     /\ Finishes(s, Tail(commands))
<1> DEFINE c == commands[1]
           ok == c.epoch = session.epoch /\ c.code = "ok"
           told == [session EXCEPT !.pendingWrites = @ - 1]
           mine == [told EXCEPT !.dirty = c.dirty]
           done == IF session.opened THEN MarkDatabaseDirty(mine) ELSE mine
           path == IF c.then = "pack" THEN "packed" ELSE "database"
           writes == ok /\ (c.then = "pack" \/ (c.then # "" /\ session.opened))
           written == IF writes THEN WriteDatabase(done, path, FALSE) ELSE done
           after == CASE ok -> [written EXCEPT !.ready = @ \/ c.then = "transition"]
                      [] c.epoch = session.epoch /\ c.code # "ok" -> CommandFailed(told, c.op)
                      [] OTHER -> told
           due == Missed(IF ok THEN acked \union {c.edit} ELSE acked)
<1>1. commands \in Seq(Commands) /\ commands # <<>> /\ Head(commands) = c /\ c \in Commands
      /\ Tail(commands) \in Seq(Commands) /\ session \in Sessions /\ worker \in Workers
  BY WritesTail DEF CommandsOK, SessionOK, PartsOK, Completes
<1>2. /\ FinishTransition(after, Tail(commands), due)
      /\ IF writes THEN StartWriter(done, path, FALSE) ELSE UNCHANGED writer
      /\ acked' = IF ok /\ c.edit # 0 THEN acked \union {c.edit} ELSE acked
  BY <1>1 DEF Completes
<1>3. /\ told \in Sessions /\ told.pendingWrites = session.pendingWrites - 1
      /\ told.loaded = session.loaded /\ told.opened = session.opened
      /\ told.opening = session.opening
      /\ told.connected = session.connected /\ told.starting = session.starting
      /\ told.epoch = session.epoch /\ told.quit = session.quit
      /\ told.writing = session.writing /\ told.waiting = session.waiting
      /\ told.marked = session.marked /\ told.dirty = session.dirty
      /\ told.databaseDirty = session.databaseDirty /\ told.transition = session.transition
      /\ told.ready = session.ready
  <2> DEFINE k == session.pendingWrites - 1
  <2>1. told = [session EXCEPT !.pendingWrites = k]
    BY <1>1 DEF Sessions
  <2>2. k \in Nat
    <3>1. session.pendingWrites \in Nat
      BY <1>1 DEF Sessions
    <3> QED BY <3>1
  <2> HIDE DEF k, told
  <2>3. told \in Sessions /\ told.pendingWrites = k
    BY <1>1, <2>1, <2>2 DEF Sessions
  <2> QED BY <1>1, <2>1, <2>3 DEF Sessions, k
<1> HIDE DEF told
<1>4. /\ done \in Sessions /\ done.pendingWrites = session.pendingWrites - 1
      /\ done.loaded = session.loaded /\ done.opened = session.opened
      /\ done.opening = session.opening
      /\ done.connected = session.connected /\ done.starting = session.starting
      /\ done.epoch = session.epoch /\ done.quit = session.quit
      /\ done.writing = session.writing /\ done.waiting = session.waiting
      /\ session.opened => done.marked /\ done.databaseDirty
      /\ done.dirty = c.dirty /\ done.transition = session.transition
      /\ done.ready = session.ready
  <2>1. c.dirty \in BOOLEAN
    BY <1>1 DEF Commands
  <2>4. /\ mine \in Sessions /\ mine.pendingWrites = told.pendingWrites
        /\ mine.loaded = told.loaded /\ mine.opened = told.opened
        /\ mine.opening = told.opening
        /\ mine.connected = told.connected /\ mine.starting = told.starting
        /\ mine.epoch = told.epoch /\ mine.quit = told.quit
        /\ mine.writing = told.writing /\ mine.waiting = told.waiting
        /\ mine.dirty = c.dirty /\ mine.transition = told.transition
        /\ mine.ready = told.ready
    BY <1>3, <2>1 DEF Sessions
  <2> HIDE DEF mine
  <2>2. CASE session.opened
    <3>1. done = [mine EXCEPT !.databaseDirty = TRUE, !.marked = TRUE]
      BY <2>2 DEF MarkDatabaseDirty
    <3> HIDE DEF done
    <3>2. /\ done \in Sessions /\ done.pendingWrites = mine.pendingWrites
          /\ done.loaded = mine.loaded /\ done.opened = mine.opened
          /\ done.opening = mine.opening
          /\ done.connected = mine.connected /\ done.starting = mine.starting
          /\ done.epoch = mine.epoch /\ done.quit = mine.quit
          /\ done.writing = mine.writing /\ done.waiting = mine.waiting
          /\ done.marked /\ done.databaseDirty
          /\ done.dirty = mine.dirty /\ done.transition = mine.transition
          /\ done.ready = mine.ready
      BY <2>4, <3>1 DEF Sessions
    <3> QED BY <1>3, <2>2, <2>4, <3>2
  <2>3. CASE ~session.opened
    BY <1>3, <2>3, <2>4
  <2> QED BY <2>2, <2>3
<1> HIDE DEF done, mine
<1>5. path \in Paths /\ FALSE \in BOOLEAN
  BY DEF Paths
<1>6. /\ written \in Sessions /\ written.loaded = session.loaded
      /\ written.opened = session.opened /\ written.opening = session.opening
      /\ written.connected = session.connected /\ written.starting = session.starting
      /\ written.epoch = session.epoch /\ written.quit = session.quit
      /\ written.transition = session.transition /\ written.ready = session.ready
      /\ written.dirty = c.dirty /\ (session.opened => written.databaseDirty)
      /\ ~writes => /\ written.pendingWrites = session.pendingWrites - 1
                    /\ written.writing = session.writing /\ written.waiting = session.waiting
                    /\ session.opened => written.marked
      /\ writes /\ session.writing =>
            /\ written.pendingWrites = session.pendingWrites - 1 /\ written.writing
            /\ written.waiting = [path |-> path, replace |-> FALSE]
            /\ session.opened => written.marked
      /\ writes /\ ~session.writing =>
            /\ written.pendingWrites = session.pendingWrites /\ written.writing
            /\ written.waiting = session.waiting /\ ~written.marked
  <2>1. CASE ~writes
    BY <1>4, <2>1
  <2>2. CASE writes
    <3>1. written = WriteDatabase(done, path, FALSE)
      BY <2>2
    <3>2. session.pendingWrites \in Nat
      BY <1>1 DEF Sessions
    <3> HIDE DEF written, path
    <3>3. Counts(written, done, path, FALSE)
      BY <1>4, <1>5, <3>1, WriteDoes
    <3>4. CASE session.writing
      BY <1>4, <2>2, <3>3, <3>4 DEF Counts
    <3>5. CASE ~session.writing
      <4>1. written.pendingWrites = done.pendingWrites + 1 /\ ~written.marked
        BY <1>4, <3>3, <3>5 DEF Counts
      <4>2. written.pendingWrites = session.pendingWrites
        BY <1>4, <3>2, <4>1
      <4> QED BY <1>4, <2>2, <3>3, <3>5, <4>1, <4>2 DEF Counts
    <3> QED BY <3>4, <3>5
  <2> QED BY <2>1, <2>2
<1> HIDE DEF written
<1>7. Completion(after, c)
  <2>1. CASE ok
    <3>1. after = [written EXCEPT !.ready = written.ready \/ c.then = "transition"]
      BY <2>1, <1>6 DEF Sessions
    <3>2. (written.ready \/ c.then = "transition") \in BOOLEAN
      BY <1>6 DEF Sessions
    <3>8. written \in Sessions /\ written.ready = session.ready
      BY <1>6
    <3>3. /\ after \in Sessions /\ after.ready = (session.ready \/ c.then = "transition")
          /\ after.loaded = written.loaded
          /\ after.opened = written.opened /\ after.opening = written.opening
          /\ after.connected = written.connected /\ after.starting = written.starting
          /\ after.epoch = written.epoch /\ after.quit = written.quit
          /\ after.transition = written.transition /\ after.dirty = written.dirty
          /\ after.databaseDirty = written.databaseDirty
          /\ after.pendingWrites = written.pendingWrites /\ after.writing = written.writing
          /\ after.waiting = written.waiting /\ after.marked = written.marked
      <4>1. PICK r \in BOOLEAN : r = (written.ready \/ c.then = "transition")
        BY <3>2
      <4>2. after = [written EXCEPT !.ready = r]
        BY <3>1, <4>1
      <4> HIDE DEF after
      <4>3. after \in Sessions /\ after.ready = r
        BY <3>8, <4>2 DEF Sessions
      <4>4. /\ after.loaded = written.loaded
            /\ after.opened = written.opened /\ after.opening = written.opening
            /\ after.connected = written.connected /\ after.starting = written.starting
            /\ after.epoch = written.epoch /\ after.quit = written.quit
            /\ after.transition = written.transition /\ after.dirty = written.dirty
            /\ after.databaseDirty = written.databaseDirty
            /\ after.pendingWrites = written.pendingWrites /\ after.writing = written.writing
            /\ after.waiting = written.waiting /\ after.marked = written.marked
        BY <3>8, <4>2 DEF Sessions
      <4> QED BY <3>8, <4>1, <4>3, <4>4
    <3>4. ~writes => writer' = writer
      BY <1>2
    <3>5. writes /\ session.writing => writer' = writer
      BY <1>2, <1>4 DEF StartWriter
    <3>6. writes /\ ~session.writing => Begun(writer', session, path, FALSE)
      <4>1. SUFFICES ASSUME writes, ~session.writing PROVE Begun(writer', session, path, FALSE)
        OBVIOUS
      <4>2. writer' = Writer(done, path, FALSE)
        BY <1>2, <1>4, <4>1 DEF StartWriter
      <4>3. Begun(writer', done, path, FALSE)
        BY <1>4, <1>5, <4>2, WriterDoes
      <4> QED BY <1>4, <4>3 DEF Begun
    <3>7. acked' = IF c.edit = 0 THEN acked ELSE acked \union {c.edit}
      BY <1>2, <2>1
    <3> HIDE DEF after
    <3> QED BY <1>6, <2>1, <3>3, <3>4, <3>5, <3>6, <3>7 DEF Completion, Done, Starts, PathOf
  <2>2. CASE ~ok
    <3>1. after \in {told, CommandFailed(told, c.op)}
      BY <2>2
    <3>2. after = told \/ after = CancelTransition(told)
      BY <3>1 DEF CommandFailed
    <3>3. /\ CancelTransition(told) \in Sessions
          /\ CancelTransition(told).pendingWrites = told.pendingWrites
          /\ CancelTransition(told).loaded = told.loaded
          /\ CancelTransition(told).opened = told.opened
          /\ CancelTransition(told).opening = told.opening
          /\ CancelTransition(told).connected = told.connected
          /\ CancelTransition(told).starting = told.starting
          /\ CancelTransition(told).epoch = told.epoch
          /\ CancelTransition(told).quit = told.quit
          /\ CancelTransition(told).writing = told.writing
          /\ CancelTransition(told).waiting = told.waiting
          /\ CancelTransition(told).marked = told.marked
          /\ CancelTransition(told).dirty = told.dirty
          /\ CancelTransition(told).databaseDirty = told.databaseDirty
          /\ CancelTransition(told).transition = ""
          /\ ~CancelTransition(told).ready
      BY <1>3 DEF Sessions, CancelTransition
    <3>4. writer' = writer /\ acked' = acked
      BY <1>2, <2>2
    <3> HIDE DEF after
    <3> QED BY <1>3, <2>2, <3>2, <3>3, <3>4 DEF Completion, Done, Starts
  <2> QED BY <2>1, <2>2
<1>8. Finishes(after, Tail(commands))
  <2> HIDE DEF after, due
  <2>1. after \in Sessions
    BY <1>7 DEF Completion
  <2> QED BY <1>1, <1>2, <2>1, FinishDoes
<1> HIDE DEF after
<1> QED BY <1>7, <1>8 DEF Done

\* The project the session shows, and its worker, are the same.
Situated(t, s) ==
    /\ t.loaded = s.loaded /\ t.opened = s.opened /\ t.opening = s.opening
    /\ t.connected = s.connected /\ t.starting = s.starting /\ t.epoch = s.epoch
    /\ t.quit = s.quit

\* A count goes up.
LEMMA NatSucc == \A n \in Nat : n + 1 \in Nat
  OBVIOUS

\* One more command is counted.
Queues(s, op, then, edit) ==
    /\ session' \in Sessions /\ Situated(session', s)
    /\ session'.transition = s.transition /\ session'.ready = s.ready
    /\ session'.dirty = s.dirty /\ session'.databaseDirty = s.databaseDirty
    /\ session'.marked = s.marked /\ session'.writing = s.writing
    /\ session'.waiting = s.waiting
    /\ session'.pendingWrites = s.pendingWrites + 1
    /\ \E c \in Commands :
          /\ commands' = Append(commands, c) /\ c.op = op /\ c.then = then /\ c.edit = edit
          /\ c.epoch = s.epoch /\ ~c.dirty /\ ~c.recovered
          /\ c.code = IF s.connected THEN "" ELSE "unavailable"

\* A command queued is counted.
LEMMA EnqueueDoes ==
    ASSUME NEW s \in Sessions, NEW op \in {"note", "edit", "save"},
           NEW then \in {"", "save", "pack", "transition"}, NEW edit \in Nat,
           Enqueue(s, op, then, edit)
    PROVE  Queues(s, op, then, edit)
<1> DEFINE k == s.pendingWrites + 1
           c == Command(s, op, then, edit)
<1>1. session' = [s EXCEPT !.pendingWrites = k] /\ commands' = Append(commands, c)
  BY DEF Enqueue, Sessions
<1>2. k \in Nat
  <2>1. s.pendingWrites \in Nat
    BY DEF Sessions
  <2> QED BY <2>1, NatSucc, Zenon
<1>3. /\ c.op = op /\ c.then = then /\ c.edit = edit /\ c.epoch = s.epoch
      /\ ~c.dirty /\ ~c.recovered /\ c.code = IF s.connected THEN "" ELSE "unavailable"
  BY DEF Command
<1>4. c \in Commands
  <2>1. s.epoch \in Nat /\ Unknown \in Edits
    BY UnknownIsOne DEF Sessions
  <2>2. (IF s.connected THEN "" ELSE "unavailable") \in {"", "unavailable"}
    OBVIOUS
  <2> QED BY <2>1, <2>2 DEF Command, Commands
<1> HIDE DEF k, c
<1>5. session' \in Sessions /\ session'.pendingWrites = k
  BY <1>1, <1>2 DEF Sessions
<1>6. /\ Situated(session', s)
      /\ session'.transition = s.transition /\ session'.ready = s.ready
      /\ session'.dirty = s.dirty /\ session'.databaseDirty = s.databaseDirty
      /\ session'.marked = s.marked /\ session'.writing = s.writing
      /\ session'.waiting = s.waiting
  BY <1>1 DEF Sessions, Situated
<1>7. session'.pendingWrites = s.pendingWrites + 1
  BY <1>5 DEF k
<1> QED BY <1>1, <1>3, <1>4, <1>5, <1>6, <1>7 DEF Queues

\* The session t after a write ended, before finishTransition; one that waited
\* is started.
Ending(t) ==
    /\ t \in Sessions /\ Situated(t, session) /\ t.dirty = session.dirty
    /\ writer.code = "ok" =>
          /\ t.transition = session.transition /\ t.ready = session.ready
          /\ t.databaseDirty = (session.databaseDirty /\ ~(IF writer.opened THEN ~session.marked
                                                           ELSE writer.path = "database"))
    /\ writer.code = "error" =>
          /\ t.databaseDirty = session.databaseDirty
          /\ t.transition = "" /\ ~t.ready
    /\ t.waiting = Nothing
    /\ IF writer.code = "ok" /\ session.waiting # Nothing
       THEN /\ t.pendingWrites = session.pendingWrites /\ t.writing /\ ~t.marked
            /\ Begun(writer', t, session.waiting.path, session.waiting.replace)
       ELSE /\ t.pendingWrites = session.pendingWrites - 1 /\ ~t.writing
            /\ t.marked = session.marked /\ writer' = Idle

\* The write that waited is started, or none is left.
LEMMA GoesOnWriting ==
    ASSUME NEW s \in Sessions, ~s.writing, s.waiting # Nothing => s.waiting.path \in Paths,
           CommandsOK, PartsOK, WriterGoesOn(s)
    PROVE  \E t : /\ t \in Sessions /\ Situated(t, s) /\ t.dirty = s.dirty
                  /\ t.transition = s.transition
                  /\ t.ready = s.ready /\ t.databaseDirty = s.databaseDirty
                  /\ t.waiting = Nothing
                  /\ IF s.waiting # Nothing
                     THEN /\ t.pendingWrites = s.pendingWrites + 1 /\ t.writing /\ ~t.marked
                          /\ Begun(writer', t, s.waiting.path, s.waiting.replace)
                     ELSE /\ t.pendingWrites = s.pendingWrites /\ ~t.writing
                          /\ t.marked = s.marked /\ writer' = Idle
                  /\ Finishes(t, commands)
<1> DEFINE s1 == [s EXCEPT !.waiting = Nothing]
           t == IF s.waiting # Nothing
                THEN WriteDatabase(s1, s.waiting.path, s.waiting.replace) ELSE s1
<1>1. /\ s1 \in Sessions /\ Situated(s1, s) /\ s1.dirty = s.dirty
      /\ s1.transition = s.transition
      /\ s1.ready = s.ready /\ s1.databaseDirty = s.databaseDirty /\ s1.waiting = Nothing
      /\ s1.pendingWrites = s.pendingWrites /\ s1.writing = s.writing /\ s1.marked = s.marked
  <2>1. Nothing \in [path : Paths \union {""}, replace : BOOLEAN]
    BY DEF Nothing
  <2> QED BY <2>1 DEF Sessions, Situated
<1>2. /\ FinishTransition(t, commands, Due)
      /\ writer' = IF s.waiting # Nothing
                   THEN Writer(s1, s.waiting.path, s.waiting.replace) ELSE Idle
  BY DEF WriterGoesOn
<1>3. s.waiting.replace \in BOOLEAN
  BY DEF Sessions
<1> HIDE DEF s1
<1>4. /\ t \in Sessions /\ Situated(t, s) /\ t.dirty = s.dirty
      /\ t.transition = s.transition
      /\ t.ready = s.ready /\ t.databaseDirty = s.databaseDirty
      /\ t.waiting = Nothing
      /\ IF s.waiting # Nothing
         THEN /\ t.pendingWrites = s.pendingWrites + 1 /\ t.writing /\ ~t.marked
              /\ Begun(writer', t, s.waiting.path, s.waiting.replace)
         ELSE /\ t.pendingWrites = s.pendingWrites /\ ~t.writing
              /\ t.marked = s.marked /\ writer' = Idle
  <2>1. CASE s.waiting # Nothing
    <3>1. t = WriteDatabase(s1, s.waiting.path, s.waiting.replace)
      BY <2>1
    <3> HIDE DEF t
    <3>2. Counts(t, s1, s.waiting.path, s.waiting.replace)
      BY <1>1, <1>3, <2>1, <3>1, WriteDoes
    <3>3. Begun(writer', s1, s.waiting.path, s.waiting.replace)
      BY <1>1, <1>2, <1>3, <2>1, WriterDoes
    <3>4. Begun(writer', t, s.waiting.path, s.waiting.replace)
      BY <1>1, <3>2, <3>3 DEF Begun, Counts
    <3> QED BY <1>1, <2>1, <3>2, <3>4 DEF Counts, Situated
  <2>2. CASE s.waiting = Nothing
    BY <1>1, <1>2, <2>2
  <2> QED BY <2>1, <2>2
<1>5. Finishes(t, commands)
  <2> HIDE DEF t
  <2>2. t \in Sessions /\ commands \in Seq(Commands) /\ worker \in Workers
    BY <1>4 DEF CommandsOK, PartsOK
  <2> QED BY <1>2, <2>2, FinishDoes
<1> HIDE DEF t
<1> QED BY <1>4, <1>5

\* The watcher of a write asks, or takes the write off the count and goes on.
LEMMA WriterEndsDoes ==
    ASSUME SessionOK, CommandsOK, PartsOK, Writing, session.pendingWrites > 0, WriterEnds
    PROVE  \/ /\ writer.code = "changed" /\ questions' = Append(questions, "conflict")
              /\ writer' = [writer EXCEPT !.phase = "asking"]
              /\ UNCHANGED <<session, commands, worker>>
           \/ /\ writer.code \in {"ok", "error"} /\ questions' = questions
              /\ \E t : /\ Ending(t) /\ Finishes(t, commands)
<1> DEFINE k == session.pendingWrites - 1
           s == [session EXCEPT !.pendingWrites = @ - 1, !.writing = FALSE]
<1>1. session \in Sessions /\ writer \in Writers /\ writer.phase = "done" /\ writer.code # ""
  <2>1. Idle.phase = "idle"
    BY DEF Idle
  <2>2. writer # Idle /\ writer.phase = "done"
    BY <2>1 DEF WriterEnds
  <2> QED BY <2>2 DEF SessionOK, PartsOK, Writing, WritingAs
<1>2. s = [session EXCEPT !.pendingWrites = k, !.writing = FALSE]
  BY <1>1 DEF Sessions
<1>3. k \in Nat
  <2>1. session.pendingWrites \in Nat
    BY <1>1 DEF Sessions
  <2> QED BY <2>1
<1> DEFINE e == CASE writer.code = "ok" ->
                       [s EXCEPT !.identity = IF writer.opened THEN writer.identity ELSE @,
                         !.databaseDirty = @ /\ ~(IF writer.opened THEN HoldsEveryEdit(s)
                                                  ELSE writer.path = "database")]
                  [] writer.code = "error" -> [CancelTransition(s) EXCEPT !.waiting = Nothing]
<1>4. CASE writer.code = "changed"
  BY <1>4 DEF WriterEnds
<1>5. CASE writer.code = "ok"
  <2> DEFINE i == IF writer.opened THEN writer.identity ELSE session.identity
             d == session.databaseDirty /\ ~(IF writer.opened THEN ~session.marked
                                             ELSE writer.path = "database")
             u == [session EXCEPT !.pendingWrites = k, !.writing = FALSE, !.identity = i,
                                  !.databaseDirty = d]
  <2>1. i \in Edits /\ d \in BOOLEAN
    BY <1>1 DEF Sessions, Writers
  <2> HIDE DEF k
  <2>2. e = u
    <3>1. e = [s EXCEPT !.identity = IF writer.opened THEN writer.identity ELSE @,
                        !.databaseDirty = @ /\ ~(IF writer.opened THEN HoldsEveryEdit(s)
                                                 ELSE writer.path = "database")]
      BY <1>5
    <3>2. s.identity = session.identity /\ s.databaseDirty = session.databaseDirty
          /\ s.marked = session.marked
      BY <1>1, <1>2 DEF Sessions
    <3>3. e = [s EXCEPT !.identity = i, !.databaseDirty = d]
      BY <3>1, <3>2 DEF HoldsEveryEdit
    <3> QED BY <1>1, <1>2, <3>3 DEF Sessions
  <2>3. WriterGoesOn(e) /\ questions' = questions
    BY <1>5 DEF WriterEnds
  <2> HIDE DEF e, i, d
  <2>4. /\ u \in Sessions /\ Situated(u, session) /\ u.dirty = session.dirty
        /\ u.databaseDirty = d /\ u.transition = session.transition
        /\ u.ready = session.ready /\ u.waiting = session.waiting /\ u.pendingWrites = k
        /\ ~u.writing /\ u.marked = session.marked
    BY <1>1, <1>3, <2>1 DEF Sessions, Situated
  <2> HIDE DEF u
  <2>5. session.waiting # Nothing => session.waiting.path \in Paths
    BY DEF Writing, WritingAs
  <2>6. PICK t : /\ t \in Sessions /\ Situated(t, u) /\ t.dirty = u.dirty
                 /\ t.transition = u.transition
                 /\ t.ready = u.ready /\ t.databaseDirty = u.databaseDirty
                 /\ t.waiting = Nothing
                 /\ IF u.waiting # Nothing
                    THEN /\ t.pendingWrites = u.pendingWrites + 1 /\ t.writing /\ ~t.marked
                         /\ Begun(writer', t, u.waiting.path, u.waiting.replace)
                    ELSE /\ t.pendingWrites = u.pendingWrites /\ ~t.writing
                         /\ t.marked = u.marked /\ writer' = Idle
                 /\ Finishes(t, commands)
    BY <2>2, <2>3, <2>4, <2>5, GoesOnWriting
  <2>7. Ending(t)
    <3>1. Situated(t, session)
      BY <2>4, <2>6 DEF Situated
    <3>2. k + 1 = session.pendingWrites /\ k = session.pendingWrites - 1
      <4>1. session.pendingWrites \in Nat
        BY <1>1 DEF Sessions
      <4> QED BY <4>1 DEF k
    <3>3. t.pendingWrites = IF session.waiting # Nothing THEN session.pendingWrites
                            ELSE session.pendingWrites - 1
      BY <2>4, <2>6, <3>2
    <3>4. t.databaseDirty = (session.databaseDirty /\ ~(IF writer.opened THEN ~session.marked
                                                           ELSE writer.path = "database"))
      BY <2>4, <2>6 DEF i, d
    <3> QED BY <1>5, <2>4, <2>6, <3>1, <3>3, <3>4 DEF Ending
  <2> QED BY <1>5, <2>3, <2>6, <2>7
<1>6. CASE writer.code = "error"
  <2> DEFINE u == [session EXCEPT !.pendingWrites = k, !.writing = FALSE, !.transition = "",
                      !.ready = FALSE, !.pendingFile = FALSE, !.waiting = Nothing]
  <2> HIDE DEF k
  <2>1. e = u
    BY <1>1, <1>2, <1>6 DEF CancelTransition, Sessions
  <2>2. WriterGoesOn(e) /\ questions' = questions
    BY <1>6 DEF WriterEnds
  <2> HIDE DEF e
  <2>3. Nothing \in [path : Paths \union {""}, replace : BOOLEAN]
    BY DEF Nothing
  <2>4. /\ u \in Sessions /\ Situated(u, session) /\ u.dirty = session.dirty
        /\ u.databaseDirty = session.databaseDirty
        /\ u.transition = "" /\ ~u.ready /\ u.waiting = Nothing /\ u.pendingWrites = k
        /\ ~u.writing /\ u.marked = session.marked
    BY <1>1, <1>3, <2>3 DEF Sessions, Situated
  <2> HIDE DEF u
  <2>6. PICK t : /\ t \in Sessions /\ Situated(t, u) /\ t.dirty = u.dirty
                 /\ t.transition = u.transition
                 /\ t.ready = u.ready /\ t.databaseDirty = u.databaseDirty
                 /\ t.waiting = Nothing
                 /\ t.pendingWrites = u.pendingWrites /\ ~t.writing
                 /\ t.marked = u.marked /\ writer' = Idle
                 /\ Finishes(t, commands)
    BY <2>1, <2>2, <2>4, GoesOnWriting
  <2>7. Ending(t)
    <3>1. Situated(t, session)
      BY <2>4, <2>6 DEF Situated
    <3>2. t.pendingWrites = session.pendingWrites - 1
      BY <2>4, <2>6 DEF k
    <3> QED BY <1>6, <2>4, <2>6, <3>1, <3>2 DEF Ending
  <2> QED BY <1>6, <2>2, <2>6, <2>7
<1>7. writer.code \in {"", "ok", "changed", "error"}
  BY <1>1 DEF Writers
<1> QED BY <1>1, <1>4, <1>5, <1>6, <1>7

-----------------------------------------------------------------------------
(* The count of pending writes is kept by every action.                    *)

\* No write of another kind begins or ends.
LEMMA WritingKept ==
    ASSUME Writing, writer' = writer, session'.writing = session.writing,
           session'.waiting = session.waiting, session'.opened = session.opened
    PROVE  Writing'
  BY DEF Writing, WritingAs

\* The questions and the write they are about stay.
LEMMA AskingKept ==
    ASSUME Asking, questions' = questions, writer' = writer
    PROVE  Asking'
  BY DEF Asking

\* Numbering goes on behind the edits made.
LEMMA Numbers ==
    ASSUME NEW k \in Nat
    PROVE  k + 1 \in Nat /\ k + 1 \in 1..(k + 1) /\ 1..k \subseteq 1..(k + 1)
  OBVIOUS

\* The count follows the commands.
LEMMA CountedKept ==
    ASSUME Counted, session'.pendingWrites = session.pendingWrites,
           session'.writing = session.writing, Writes(commands') = Writes(commands)
    PROVE  Counted'
  BY DEF Counted, CountedAs

\* A write begun or a command queued keeps the count exact.
LEMMA CountedUp ==
    ASSUME Counted, CommandsOK, session'.pendingWrites = session.pendingWrites + 1,
           session'.writing = session.writing,
           Cardinality(Writes(commands')) = Cardinality(Writes(commands)) + 1
    PROVE  Counted'
<1>1. Cardinality(Writes(commands)) \in Nat
  BY WritesFinite DEF CommandsOK
<1> QED BY <1>1 DEF Counted, CountedAs

\* One more command is one more pending write.
LEMMA QueuesKeeps ==
    ASSUME WritesInv, NEW op \in {"note", "edit", "save"},
           NEW then \in {"", "save", "pack", "transition"}, NEW edit \in Nat,
           Queues(session, op, then, edit), op = "save" <=> then # "",
           op \in {"note", "edit"} => edit \in 1..made', op = "save" => edit = 0,
           1..made \subseteq 1..made'
    PROVE  SessionOK' /\ CommandsOK' /\ Purposes' /\ Counted'
<1>1. PICK c \in Commands :
          /\ commands' = Append(commands, c) /\ c.op = op /\ c.then = then /\ c.edit = edit
  BY DEF Queues
<1>2. /\ commands \in Seq(Commands)
      /\ commands' \in Seq(Commands)
      /\ DOMAIN commands' = DOMAIN commands \union {Len(commands) + 1}
      /\ \A n \in DOMAIN commands : n # Len(commands) + 1 /\ commands'[n] = commands[n]
      /\ commands'[Len(commands) + 1] = c
      /\ Cardinality(Writes(commands')) = Cardinality(Writes(commands)) + 1
  <2>1. c.op # "open" /\ commands \in Seq(Commands)
    BY <1>1 DEF WritesInv, CommandsOK
  <2>2. /\ Append(commands, c) \in Seq(Commands)
        /\ DOMAIN Append(commands, c) = DOMAIN commands \union {Len(commands) + 1}
        /\ \A n \in DOMAIN commands :
              n # Len(commands) + 1 /\ Append(commands, c)[n] = commands[n]
        /\ Append(commands, c)[Len(commands) + 1] = c
        /\ Cardinality(Writes(Append(commands, c))) = Cardinality(Writes(commands)) + 1
    BY <2>1, WritesAppend
  <2> QED BY <1>1, <2>1, <2>2
<1>3. SessionOK' /\ CommandsOK'
  BY <1>2 DEF Queues, SessionOK, CommandsOK
<1>4. Purposes'
  BY <1>1, <1>2 DEF WritesInv, Purposes
<1>5. session'.pendingWrites = session.pendingWrites + 1 /\ session'.writing = session.writing
  BY DEF Queues
<1>6. Counted'
  BY <1>2, <1>5, CountedUp DEF WritesInv
<1> QED BY <1>3, <1>4, <1>6

\* An edit is queued and counted.
LEMMA MakesEditQueues ==
    ASSUME WritesInv, NEW op \in {"note", "edit"}, MakesEdit(op)
    PROVE  /\ Queues(session, op, "", made + 1) /\ made' = made + 1 /\ made + 1 \in Nat
           /\ 1..made \subseteq 1..made' /\ made + 1 \in 1..made'
<1>1. made \in Nat /\ session \in Sessions
  BY DEF WritesInv, FilesOK, SessionOK
<1>2. Enqueue(session, op, "", made + 1) /\ made' = made + 1
  BY DEF MakesEdit
<1>3. made + 1 \in Nat /\ made + 1 \in 1..made' /\ 1..made \subseteq 1..made'
  BY <1>1, <1>2, Numbers
<1>4. Queues(session, op, "", made + 1)
  BY <1>1, <1>2, <1>3, EnqueueDoes
<1> QED BY <1>2, <1>3, <1>4

\* MakesEdit keeps the count of pending writes.
LEMMA WritesMakesEdit ==
    ASSUME WritesInv, NEW op \in {"note", "edit"}, MakesEdit(op)
    PROVE  WritesInv'
<1>1. /\ Queues(session, op, "", made + 1) /\ made' = made + 1 /\ made + 1 \in Nat
      /\ 1..made \subseteq 1..made' /\ made + 1 \in 1..made'
  BY MakesEditQueues
<1>2. SessionOK' /\ CommandsOK' /\ Purposes' /\ Counted'
  BY <1>1, QueuesKeeps
<1>3. PartsOK' /\ Asking'
  BY DEF WritesInv, PartsOK, Asking, MakesEdit
<1>4. FilesOK' /\ Staged'
  BY <1>1 DEF WritesInv, FilesOK, Staged, MakesEdit
<1>5. Writing'
  BY <1>1, WritingKept DEF WritesInv, Queues, Situated, MakesEdit
<1> QED BY <1>2, <1>3, <1>4, <1>5 DEF WritesInv

\* A save is queued and counted.
LEMMA SavesQueues ==
    ASSUME WritesInv, Saves
    PROVE  Queues(session, "save", "save", 0) /\ 0 \in Nat
<1>1. session \in Sessions /\ 0 \in Nat
  BY DEF WritesInv, SessionOK
<1>2. Enqueue(session, "save", "save", 0)
  BY DEF Saves
<1> QED BY <1>1, <1>2, EnqueueDoes

\* Saves keeps the count of pending writes.
LEMMA WritesSaves ==
    ASSUME WritesInv, Saves
    PROVE  WritesInv'
<1>1. Queues(session, "save", "save", 0) /\ 0 \in Nat /\ made' = made
  BY SavesQueues DEF Saves
<1>2. SessionOK' /\ CommandsOK' /\ Purposes' /\ Counted'
  BY <1>1, QueuesKeeps
<1>3. PartsOK' /\ Asking' /\ FilesOK' /\ Staged'
  BY DEF WritesInv, PartsOK, Asking, FilesOK, Staged, Saves
<1>5. Writing'
  BY <1>1, WritingKept DEF WritesInv, Queues, Situated, Saves
<1> QED BY <1>2, <1>3, <1>5 DEF WritesInv

\* A write is started, or waits; w is the thread after it.
StartsWrite(t, w, s, path, replace) ==
    /\ Counts(t, s, path, replace)
    /\ s.writing => w = writer
    /\ ~s.writing => Begun(w, s, path, replace)

\* A pack saves first, or starts its write.
LEMMA PacksDoes ==
    ASSUME WritesInv, Packs
    PROVE  \/ Queues(session, "save", "pack", 0) /\ writer' = writer
           \/ StartsWrite(session', writer', session, "packed", FALSE) /\ commands' = commands
<1>1. session \in Sessions /\ 0 \in Nat /\ "packed" \in Paths /\ FALSE \in BOOLEAN
  BY DEF WritesInv, SessionOK, Paths
<1>2. CASE Enqueue(session, "save", "pack", 0) /\ writer' = writer
  BY <1>1, <1>2, EnqueueDoes
<1>3. CASE /\ session' = WriteDatabase(session, "packed", FALSE)
           /\ StartWriter(session, "packed", FALSE) /\ commands' = commands
  <2>1. Counts(session', session, "packed", FALSE)
    BY <1>1, <1>3, WriteDoes
  <2>2. Begun(Writer(session, "packed", FALSE), session, "packed", FALSE)
    BY <1>1, WriterDoes
  <2> QED BY <1>3, <2>1, <2>2 DEF StartsWrite, StartWriter
<1> QED BY <1>2, <1>3 DEF Packs

\* Packs keeps the count of pending writes.
LEMMA WritesPacks ==
    ASSUME WritesInv, Packs
    PROVE  WritesInv'
<1>1. FilesOK' /\ Staged' /\ worker' = worker /\ opener' = opener /\ questions' = questions
      /\ made' = made
  BY DEF WritesInv, FilesOK, Staged, Packs
<1>2. CASE Queues(session, "save", "pack", 0) /\ writer' = writer
  <2>1. SessionOK' /\ CommandsOK' /\ Purposes' /\ Counted'
    BY <1>1, <1>2, QueuesKeeps
  <2>2. PartsOK' /\ Asking'
    BY <1>1, <1>2 DEF WritesInv, PartsOK, Asking
  <2>3. Writing'
    BY <1>2, WritingKept DEF WritesInv, Queues, Situated
  <2> QED BY <1>1, <2>1, <2>2, <2>3 DEF WritesInv
<1>3. CASE StartsWrite(session', writer', session, "packed", FALSE) /\ commands' = commands
  <2>1. SessionOK' /\ CommandsOK' /\ Purposes'
    BY <1>1, <1>3 DEF WritesInv, StartsWrite, Counts, SessionOK, CommandsOK, Purposes
  <2>2. Counted'
    <3>1. session.pendingWrites \in Nat /\ Cardinality(Writes(commands)) \in Nat
      BY WritesFinite DEF WritesInv, SessionOK, CommandsOK, Sessions
    <3>2. /\ session'.pendingWrites = IF session.writing THEN session.pendingWrites
                                      ELSE session.pendingWrites + 1
          /\ session'.writing
      BY <1>3, <3>1 DEF StartsWrite, Counts
    <3> QED BY <1>3, <3>1, <3>2 DEF WritesInv, Counted, CountedAs
  <2>3. CASE session.writing
    <3>1. writer' = writer /\ session'.waiting = [path |-> "packed", replace |-> FALSE]
          /\ session'.writing /\ session'.opened = session.opened
      BY <1>3, <2>3 DEF StartsWrite, Counts
    <3>2. PartsOK' /\ Asking'
      BY <1>1, <3>1 DEF WritesInv, PartsOK, Asking
    <3>3. session'.waiting.path = "packed" /\ "packed" \in Paths
      BY <3>1 DEF Paths
    <3>4. Writing'
      BY <2>3, <3>1, <3>3 DEF WritesInv, Writing, WritingAs
    <3> QED BY <1>1, <2>1, <2>2, <3>2, <3>4 DEF WritesInv
  <2>4. CASE ~session.writing
    <3>1. /\ Begun(writer', session, "packed", FALSE) /\ session'.writing
          /\ session'.waiting = session.waiting /\ session'.opened = session.opened
      BY <1>3, <2>4 DEF StartsWrite, Counts
    <3>2. PartsOK' /\ Asking'
      BY <1>1, <2>4, <3>1 DEF WritesInv, PartsOK, Asking, Begun, Writing, WritingAs
    <3>3. Writing'
      BY <2>4, <3>1 DEF WritesInv, Writing, WritingAs, Begun
    <3> QED BY <1>1, <2>1, <2>2, <3>2, <3>3 DEF WritesInv
  <2> QED BY <2>3, <2>4
<1> QED BY <1>2, <1>3, PacksDoes

\* The project's files have changed since the database was written.
Marks(t, s) ==
    /\ t \in Sessions /\ Situated(t, s)
    /\ t.transition = s.transition /\ t.ready = s.ready /\ t.dirty = s.dirty
    /\ t.databaseDirty = (s.databaseDirty \/ s.opened) /\ t.marked = (s.marked \/ s.opened)
    /\ t.writing = s.writing /\ t.waiting = s.waiting /\ t.pendingWrites = s.pendingWrites

\* Bookmarks go to the files at once.
LEMMA BookmarksDoes ==
    ASSUME WritesInv, Bookmarks
    PROVE  /\ Marks(session', session) /\ made' = made + 1 /\ made + 1 \in Nat
           /\ 1..made \subseteq 1..made' /\ made + 1 \in 1..made'
<1>1. made \in Nat /\ session \in Sessions
  BY DEF WritesInv, FilesOK, SessionOK
<1>2. made' = made + 1 /\ session' = IF session.opened THEN MarkDatabaseDirty(session) ELSE session
  BY DEF Bookmarks
<1>3. CASE session.opened
  <2>1. session' = [session EXCEPT !.databaseDirty = TRUE, !.marked = TRUE]
    BY <1>2, <1>3 DEF MarkDatabaseDirty
  <2>2. Marks(session', session)
    BY <1>1, <1>3, <2>1 DEF Marks, Situated, Sessions
  <2> QED BY <1>1, <1>2, <2>2, Numbers
<1>4. CASE ~session.opened
  <2>1. session.databaseDirty \in BOOLEAN /\ session.marked \in BOOLEAN
    BY <1>1 DEF Sessions
  <2>2. Marks(session', session)
    BY <1>1, <1>2, <1>4, <2>1 DEF Marks, Situated
  <2> QED BY <1>1, <1>2, <2>2, Numbers
<1> QED BY <1>3, <1>4

\* Bookmarks keeps the count of pending writes.
LEMMA WritesBookmarks ==
    ASSUME WritesInv, Bookmarks
    PROVE  WritesInv'
<1>1. /\ Marks(session', session) /\ made' = made + 1 /\ made + 1 \in Nat
      /\ 1..made \subseteq 1..made' /\ made + 1 \in 1..made'
  BY BookmarksDoes
<1>2. SessionOK' /\ CommandsOK' /\ Counted'
  BY <1>1 DEF WritesInv, SessionOK, CommandsOK, Counted, CountedAs, Bookmarks, Marks
<1>3. Purposes'
  BY <1>1 DEF WritesInv, Purposes, Bookmarks
<1>4. PartsOK' /\ Asking'
  BY DEF WritesInv, PartsOK, Asking, Bookmarks
<1>5. FilesOK' /\ Staged'
  BY <1>1 DEF WritesInv, FilesOK, Staged, Bookmarks
<1>6. Writing'
  BY <1>1, WritingKept DEF WritesInv, Marks, Situated, Bookmarks
<1> QED BY <1>2, <1>3, <1>4, <1>5, <1>6 DEF WritesInv

\* What the commands of a queue are for.
PurposesOf(queue) ==
    \A n \in DOMAIN queue :
        /\ queue[n].op = "save" <=> queue[n].then # ""
        /\ queue[n].op \in {"note", "edit"} => queue[n].edit \in 1..made
        /\ queue[n].op \in {"save", "open"} => queue[n].edit = 0

\* A session that goes on as s, or leaves the project without a write.
LEMMA WritingFollows ==
    ASSUME NEW s, WritingAs(s, writer'), session'.writing = s.writing,
           session'.waiting = s.waiting,
           session'.opened = s.opened \/ (~s.writing /\ s.waiting = Nothing /\ writer' = Idle)
    PROVE  Writing'
<1>1. CASE session'.opened = s.opened
  BY <1>1 DEF Writing, WritingAs
<1>2. CASE ~s.writing /\ s.waiting = Nothing /\ writer' = Idle
  <2>1. Nothing.path # "database"
    BY DEF Nothing
  <2> QED BY <1>2, <2>1 DEF Writing, WritingAs
<1> QED BY <1>1, <1>2

\* Where the session goes on as s with these commands, their count is right if
\* it was in s.
LEMMA FollowsWrites ==
    ASSUME WritesInv, NEW s \in Sessions, NEW queue \in Seq(Commands), Follows(s, queue),
           PurposesOf(queue), made' = made, WritingAs(s, writer'), writer' \in Writers \union {Idle},
           CountedAs(s, queue), opener' = opener
    PROVE  SessionOK' /\ CommandsOK' /\ PartsOK' /\ Purposes' /\ Staged' /\ Counted' /\ Writing'
<1>1. SessionOK' /\ CommandsOK' /\ PartsOK'
  BY DEF WritesInv, PartsOK, Follows, SessionOK, CommandsOK
<1>2. Purposes'
  <2> SUFFICES ASSUME NEW n \in DOMAIN commands'
               PROVE  /\ commands'[n].op = "save" <=> commands'[n].then # ""
                      /\ commands'[n].op \in {"note", "edit"} => commands'[n].edit \in 1..made
                      /\ commands'[n].op \in {"save", "open"} => commands'[n].edit = 0
    BY DEF Purposes
  <2>1. n \in DOMAIN queue /\ commands'[n].op = queue[n].op /\ commands'[n].then = queue[n].then
        /\ commands'[n].edit = queue[n].edit
    BY DEF Follows
  <2> QED BY <2>1 DEF PurposesOf
<1>3. Staged'
  BY DEF WritesInv, Staged, Follows
<1>4. Counted'
  BY DEF Counted, CountedAs, Follows
<1>5. s.writing => s.pendingWrites # 0
  BY WritesFinite DEF CountedAs
<1>6. session'.opened = s.opened \/ (~s.writing /\ s.waiting = Nothing /\ writer' = Idle)
  BY <1>5 DEF Follows, WritingAs
<1>7. session'.writing = s.writing /\ session'.waiting = s.waiting
  BY DEF Follows
<1>8. Writing'
  BY <1>6, <1>7, WritingFollows
<1> QED BY <1>1, <1>2, <1>3, <1>4, <1>8

\* A clean session has no pending write.
LEMMA CleanCount ==
    ASSUME NEW s \in Sessions, ~Dirty(s)
    PROVE  s.pendingWrites = 0
<1>1. s.pendingWrites \in Nat
  BY DEF Sessions
<1> QED BY <1>1 DEF Dirty

\* Two sessions differ in nothing that is decided here.
Alike(t, s) ==
    /\ t \in Sessions /\ Situated(t, s)
    /\ t.transition = s.transition /\ t.ready = s.ready /\ t.dirty = s.dirty
    /\ t.databaseDirty = s.databaseDirty /\ t.marked = s.marked
    /\ t.pendingWrites = s.pendingWrites /\ t.writing = s.writing /\ t.waiting = s.waiting

\* A request to leave asks first.
AsksFirst(action) ==
    /\ session' \in Sessions /\ Situated(session', session)
    /\ session'.transition = action /\ ~session'.ready /\ session'.dirty = session.dirty
    /\ session'.databaseDirty = session.databaseDirty /\ session'.marked = session.marked
    /\ session'.pendingWrites = session.pendingWrites /\ session'.writing = session.writing
    /\ session'.waiting = session.waiting
    /\ questions' = <<"transition">>
    /\ UNCHANGED <<commands, worker, opener>>

\* A worker is started for the database to open.
StartsWorker ==
    /\ ~session.connected /\ session'.starting
    /\ session' \in Sessions /\ session'.loaded = session.loaded
    /\ session'.opened = session.opened /\ session'.opening = session.opening
    /\ session'.connected = session.connected /\ session'.epoch = session.epoch
    /\ session'.quit = session.quit
    /\ session'.transition = session.transition /\ session'.ready = session.ready
    /\ session'.dirty = session.dirty
    /\ session'.databaseDirty = session.databaseDirty /\ session'.marked = session.marked
    /\ session'.pendingWrites = session.pendingWrites /\ session'.writing = session.writing
    /\ session'.waiting = session.waiting
    /\ worker' = IF session.starting THEN worker ELSE [process |-> "starting", staged |-> {}]
    /\ UNCHANGED <<commands, opener, questions>>

\* A request to leave asks, goes on, opens or starts a worker.
LEMMA LeavesDoes ==
    ASSUME WritesInv, NEW action \in Actions, Leaves(action)
    PROVE  /\ Dirty(session) => AsksFirst(action)
           /\ ~Dirty(session) =>
                 \/ GoesOn(session, commands) /\ UNCHANGED <<opener, questions>>
                 \/ /\ session.connected
                    /\ \E s : Alike(s, session) /\ Opens(s, opener)
                    /\ UNCHANGED <<commands, worker, questions>>
                 \/ StartsWorker
<1>1. /\ session \in Sessions /\ commands \in Seq(Commands) /\ worker \in Workers
      /\ opener \in Openers \union {Idle}
      /\ action \in {"quit", "close", "restart", "open"}
  BY TransitionAssumption DEF WritesInv, SessionOK, CommandsOK, PartsOK
<1>2. CASE Dirty(session)
  <2> DEFINE p == session.pendingFile \/ action = "open"
  <2>1. /\ session' = [session EXCEPT !.transition = action, !.ready = FALSE, !.pendingFile = p]
        /\ questions' = <<"transition">>
        /\ UNCHANGED <<commands, worker, opener>>
    BY <1>1, <1>2 DEF Leaves, Sessions
  <2>2. p \in BOOLEAN
    BY <1>1 DEF Sessions
  <2> HIDE DEF p
  <2>3. session' \in Sessions /\ session'.transition = action /\ ~session'.ready
    BY <1>1, <2>1, <2>2 DEF Sessions
  <2>4. /\ Situated(session', session)
        /\ session'.dirty = session.dirty
        /\ session'.databaseDirty = session.databaseDirty /\ session'.marked = session.marked
        /\ session'.pendingWrites = session.pendingWrites /\ session'.writing = session.writing
        /\ session'.waiting = session.waiting
    BY <1>1, <2>1 DEF Sessions, Situated
  <2> QED BY <1>2, <2>1, <2>3, <2>4 DEF AsksFirst
<1>3. CASE ~Dirty(session)
  <2>1. CASE action # "open"
    <3>1. GoOn(session, action, commands, Due) /\ UNCHANGED <<opener, questions>>
      BY <1>3, <2>1 DEF Leaves
    <3> QED BY <1>1, <1>3, <3>1, GoOnDoes
  <2>2. CASE action = "open" /\ session.connected
    <3> DEFINE s == [session EXCEPT !.pendingFile = TRUE]
    <3>1. OpenPending(s, opener) /\ UNCHANGED <<commands, worker, questions>>
      BY <1>3, <2>2 DEF Leaves
    <3>2. Alike(s, session)
      BY <1>1 DEF Alike, Situated, Sessions
    <3>3. s \in Sessions
      BY <3>2 DEF Alike
    <3> HIDE DEF s
    <3>4. Opens(s, opener)
      BY <1>1, <3>1, <3>3, OpenDoes
    <3> QED BY <1>3, <2>2, <3>1, <3>2, <3>4
  <2>3. CASE action = "open" /\ ~session.connected
    <3>1. /\ session' = [session EXCEPT !.pendingFile = TRUE, !.starting = TRUE]
          /\ worker' = IF session.starting THEN worker ELSE [process |-> "starting", staged |-> {}]
          /\ UNCHANGED <<commands, opener, questions>>
      BY <1>3, <2>3 DEF Leaves
    <3>2. StartsWorker
      BY <1>1, <2>3, <3>1 DEF StartsWorker, Sessions
    <3> QED BY <1>3, <3>2
  <2> QED BY <2>1, <2>2, <2>3
<1> QED BY <1>2, <1>3

\* Leaves keeps the count of pending writes.
LEMMA WritesLeaves ==
    ASSUME WritesInv, NEW action \in Actions, Leaves(action)
    PROVE  WritesInv'
<1>1. /\ writer' = writer /\ made' = made /\ files' = files /\ database' = database
      /\ acked' = acked /\ saved' = saved /\ given' = given /\ recovery' = recovery
      /\ writer \in Writers \union {Idle} /\ session \in Sessions /\ commands \in Seq(Commands)
      /\ questions \in {<<>>, <<"transition">>, <<"conflict">>, <<"transition", "conflict">>}
  BY DEF Leaves, WritesInv, FilesOK, PartsOK, SessionOK, CommandsOK, Asking
<1>2. questions = <<>>
  BY DEF Leaves, Attended
<1>3. writer # Idle => writer.phase # "asking"
  BY <1>2 DEF WritesInv, Asking
<1>4. CASE Dirty(session)
  <2>1. AsksFirst(action)
    BY <1>4, LeavesDoes
  <2>2. SessionOK' /\ CommandsOK' /\ PartsOK' /\ Purposes' /\ Staged' /\ Counted'
    BY <1>1, <2>1 DEF WritesInv, AsksFirst, SessionOK, CommandsOK, PartsOK, Purposes, Staged,
                      Counted, CountedAs
  <2>3. FilesOK'
    BY <1>1 DEF WritesInv, FilesOK
  <2>4. Asking'
    BY <1>1, <1>3, <2>1 DEF AsksFirst, Asking
  <2>5. Writing'
    BY <1>1, <2>1, WritingKept DEF WritesInv, AsksFirst, Situated
  <2> QED BY <2>2, <2>3, <2>4, <2>5 DEF WritesInv
<1>5. CASE ~Dirty(session)
  <2>1. CASE GoesOn(session, commands) /\ UNCHANGED <<opener, questions>>
    <3>1. session.pendingWrites = 0
      BY <1>1, <1>5, CleanCount
    <3>2. Follows(session, commands)
      BY <1>1, <2>1, <3>1, GoesOnKeeps
    <3>3. PurposesOf(commands) /\ WritingAs(session, writer') /\ CountedAs(session, commands)
      BY <1>1 DEF WritesInv, Purposes, PurposesOf, Writing, Counted, CountedAs
    <3>4. SessionOK' /\ CommandsOK' /\ PartsOK' /\ Purposes' /\ Staged' /\ Counted' /\ Writing'
      BY <1>1, <2>1, <3>2, <3>3, FollowsWrites
    <3>5. FilesOK' /\ Asking'
      BY <1>1, <2>1, <3>4 DEF WritesInv, FilesOK, Asking
    <3> QED BY <3>4, <3>5 DEF WritesInv
  <2>2. CASE /\ \E s : Alike(s, session) /\ Opens(s, opener)
             /\ UNCHANGED <<commands, worker, questions>>
    <3>1. PICK s : Alike(s, session) /\ Opens(s, opener)
      BY <2>2
    <3>2. SessionOK' /\ CommandsOK' /\ PartsOK' /\ Purposes' /\ Staged'
      BY <1>1, <2>2, <3>1 DEF WritesInv, Opens, SessionOK, CommandsOK, PartsOK, Purposes, Staged
    <3>5. Counted'
      BY <2>2, <3>1, CountedKept DEF WritesInv, Opens, Alike
    <3>3. FilesOK' /\ Asking'
      BY <1>1, <2>2 DEF WritesInv, FilesOK, Asking
    <3>4. Writing'
      BY <1>1, <3>1, WritingKept DEF WritesInv, Opens, Alike, Situated
    <3> QED BY <3>2, <3>3, <3>4, <3>5 DEF WritesInv
  <2>3. CASE StartsWorker
    <3>1. worker' \in Workers /\ worker'.staged \subseteq worker.staged
      BY <2>3 DEF StartsWorker, Workers, Edits, WritesInv, PartsOK
    <3>2. SessionOK' /\ CommandsOK' /\ PartsOK' /\ Purposes' /\ Staged'
      BY <1>1, <2>3, <3>1 DEF WritesInv, StartsWorker, SessionOK, CommandsOK, PartsOK, Purposes,
                              Staged
    <3>5. Counted'
      BY <2>3, CountedKept DEF WritesInv, StartsWorker
    <3>3. FilesOK' /\ Asking'
      BY <1>1, <2>3 DEF WritesInv, FilesOK, Asking, StartsWorker
    <3>4. Writing'
      BY <1>1, <2>3, WritingKept DEF WritesInv, StartsWorker
    <3> QED BY <3>2, <3>3, <3>4, <3>5 DEF WritesInv
  <2> QED BY <1>5, <2>1, <2>2, <2>3, LeavesDoes
<1> QED BY <1>4, <1>5

\* The answer takes the question off the screen.
LEMMA AnswersDoes ==
    ASSUME Asking, NEW question, Answers(question)
    PROVE  /\ question = "transition" => questions = <<"transition">> /\ questions' = <<>>
           /\ question = "conflict" => /\ questions \in {<<"conflict">>, <<"transition", "conflict">>}
                                       /\ questions' \in {<<>>, <<"transition">>}
<1>1. questions \in {<<>>, <<"transition">>, <<"conflict">>, <<"transition", "conflict">>}
  BY DEF Asking
<1>2. /\ questions # <<>> /\ questions[Len(questions)] = question
      /\ questions' = SubSeq(questions, 1, Len(questions) - 1)
  BY DEF Answers, Asked
<1>3. CASE questions = <<"transition">>
  BY <1>2, <1>3
<1>4. CASE questions = <<"conflict">>
  BY <1>2, <1>4
<1>5. CASE questions = <<"transition", "conflict">>
  <2> DEFINE q == SubSeq(questions, 1, Len(questions) - 1)
             t == <<"transition">>
  <2>1. /\ questions \in Seq({"transition", "conflict"}) /\ Len(questions) = 2
        /\ questions[1] = "transition" /\ questions[2] = "conflict"
    BY <1>5
  <2>2. q = SubSeq(questions, 1, 1)
    BY <2>1
  <2>3. q \in Seq({"transition", "conflict"}) /\ Len(q) = 1 /\ q[1] = "transition"
    BY <2>1, <2>2
  <2>4. t \in Seq({"transition", "conflict"}) /\ Len(t) = 1 /\ t[1] = "transition"
    OBVIOUS
  <2> HIDE DEF q, t
  <2>5. q = t
    BY <2>3, <2>4, SeqEqual
  <2> QED BY <1>2, <1>5, <2>1, <2>5 DEF q, t
<1> QED BY <1>1, <1>2, <1>3, <1>4, <1>5

\* The request to leave is called off.
Cancels(t, s) ==
    /\ t \in Sessions /\ Situated(t, s)
    /\ t.transition = "" /\ ~t.ready /\ t.dirty = s.dirty
    /\ t.databaseDirty = s.databaseDirty /\ t.marked = s.marked
    /\ t.pendingWrites = s.pendingWrites /\ t.writing = s.writing /\ t.waiting = s.waiting

\* A transition called off leaves the writes alone.
LEMMA CancelDoes ==
    ASSUME NEW s \in Sessions
    PROVE  Cancels(CancelTransition(s), s)
  BY DEF Cancels, CancelTransition, Situated, Sessions

\* The edits are discarded.
Discards(t, s) ==
    /\ t \in Sessions /\ Situated(t, s)
    /\ t.transition = s.transition /\ t.ready /\ ~t.dirty
    /\ ~t.databaseDirty /\ t.marked = s.marked
    /\ t.pendingWrites = s.pendingWrites /\ t.writing = s.writing /\ t.waiting = s.waiting

\* The question of the transition is answered.
LEMMA AnswersTransitionDoes ==
    ASSUME WritesInv, NEW choice \in {"save", "discard", "cancel"}, AnswersTransition(choice)
    PROVE  /\ questions = <<"transition">> /\ questions' = <<>>
           /\ recovery' \in Recoveries /\ recovery'.journal = recovery.journal
           /\ \/ UNCHANGED <<session, commands, worker, given>>
              \/ Cancels(session', session) /\ UNCHANGED <<commands, worker, given>>
              \/ /\ Queues(session, "save", "transition", 0) /\ session.transition # ""
                 /\ UNCHANGED <<worker, given>>
              \/ /\ given' = given \union 1..made /\ session.transition # ""
                 /\ \E s : Discards(s, session) /\ Finishes(s, commands)
<1>1. /\ session \in Sessions /\ commands \in Seq(Commands) /\ worker \in Workers /\ 0 \in Nat
      /\ recovery \in Recoveries
  BY DEF WritesInv, SessionOK, CommandsOK, PartsOK, FilesOK
<1>2. /\ questions = <<"transition">> /\ questions' = <<>>
      /\ recovery' \in Recoveries /\ recovery'.journal = recovery.journal
  <2>1. recovery' = recovery \/ recovery' = [recovery EXCEPT !.marker = Unknown]
    BY DEF AnswersTransition
  <2>2. recovery' \in Recoveries /\ recovery'.journal = recovery.journal
    BY <1>1, <2>1, UnknownIsOne DEF Recoveries
  <2> QED BY <2>2, AnswersDoes DEF AnswersTransition, WritesInv
<1>3. CASE UNCHANGED <<session, commands, worker, given>>
  BY <1>2, <1>3
<1>4. CASE /\ session.transition # "" /\ session' = CancelTransition(session)
           /\ UNCHANGED <<commands, worker, given>>
  BY <1>1, <1>2, <1>4, CancelDoes
<1>5. CASE /\ session.transition # "" /\ Enqueue(session, "save", "transition", 0)
           /\ UNCHANGED <<worker, given>>
  BY <1>1, <1>2, <1>5, EnqueueDoes
<1>6. CASE /\ session.transition # "" /\ given' = given \union 1..made
           /\ FinishTransition([session EXCEPT !.dirty = FALSE, !.ready = TRUE,
                                               !.databaseDirty = FALSE], commands, {})
  <2> DEFINE s == [session EXCEPT !.dirty = FALSE, !.ready = TRUE, !.databaseDirty = FALSE]
  <2>1. Discards(s, session)
    BY <1>1 DEF Discards, Situated, Sessions
  <2>2. FinishTransition(s, commands, {}) /\ s \in Sessions
    BY <1>6, <2>1 DEF Discards
  <2> HIDE DEF s
  <2>3. Finishes(s, commands)
    BY <1>1, <2>2, FinishDoes
  <2> QED BY <1>1, <1>2, <1>6, <2>1, <2>3
<1>7. CASE choice = "save"
  BY <1>3, <1>5, <1>7 DEF AnswersTransition
<1>8. CASE choice = "discard"
  BY <1>3, <1>6, <1>8 DEF AnswersTransition
<1>9. CASE choice = "cancel"
  BY <1>3, <1>4, <1>9 DEF AnswersTransition
<1> QED BY <1>7, <1>8, <1>9

\* AnswersTransition keeps the count of pending writes.
LEMMA WritesAnswersTransition ==
    ASSUME WritesInv, NEW choice \in {"save", "discard", "cancel"}, AnswersTransition(choice)
    PROVE  WritesInv'
<1>1. /\ opener' = opener /\ writer' = writer /\ made' = made /\ files' = files
      /\ database' = database /\ acked' = acked /\ saved' = saved
      /\ questions = <<"transition">> /\ questions' = <<>>
      /\ recovery' \in Recoveries /\ recovery'.journal = recovery.journal
      /\ writer \in Writers \union {Idle} /\ session \in Sessions /\ commands \in Seq(Commands)
      /\ worker \in Workers
  BY AnswersTransitionDoes DEF AnswersTransition, WritesInv, PartsOK, SessionOK, CommandsOK
<1>2. Asking'
  BY <1>1 DEF WritesInv, Asking
<1>3. given' \subseteq 1..made => FilesOK'
  BY <1>1 DEF WritesInv, FilesOK
<1>4. given \subseteq 1..made
  BY DEF WritesInv, FilesOK
<1>5. CASE UNCHANGED <<session, commands, worker, given>>
  <2>1. SessionOK' /\ CommandsOK' /\ PartsOK' /\ Purposes' /\ Staged'
    BY <1>1, <1>5 DEF WritesInv, SessionOK, CommandsOK, PartsOK, Purposes, Staged
  <2>2. Counted'
    BY <1>5, CountedKept DEF WritesInv
  <2>3. Writing'
    BY <1>1, <1>5, WritingKept DEF WritesInv
  <2> QED BY <1>2, <1>3, <1>4, <1>5, <2>1, <2>2, <2>3 DEF WritesInv
<1>6. CASE Cancels(session', session) /\ UNCHANGED <<commands, worker, given>>
  <2>1. SessionOK' /\ CommandsOK' /\ PartsOK' /\ Purposes' /\ Staged'
    BY <1>1, <1>6 DEF WritesInv, SessionOK, CommandsOK, PartsOK, Purposes, Staged, Cancels
  <2>2. Counted'
    BY <1>6, CountedKept DEF WritesInv, Cancels
  <2>3. Writing'
    BY <1>1, <1>6, WritingKept DEF WritesInv, Cancels, Situated
  <2> QED BY <1>2, <1>3, <1>4, <1>6, <2>1, <2>2, <2>3 DEF WritesInv
<1>7. CASE /\ Queues(session, "save", "transition", 0)
           /\ UNCHANGED <<worker, given>>
  <2>1. SessionOK' /\ CommandsOK' /\ Purposes' /\ Counted'
    BY <1>1, <1>7, QueuesKeeps
  <2>2. PartsOK' /\ Staged'
    BY <1>1, <1>7 DEF WritesInv, PartsOK, Staged
  <2>3. Writing'
    BY <1>1, <1>7, WritingKept DEF WritesInv, Queues, Situated
  <2> QED BY <1>2, <1>3, <1>4, <1>7, <2>1, <2>2, <2>3 DEF WritesInv
<1>8. CASE /\ given' = given \union 1..made
           /\ \E s : Discards(s, session) /\ Finishes(s, commands)
  <2>1. PICK s : Discards(s, session) /\ Finishes(s, commands)
    BY <1>8
  <2>2. s \in Sessions /\ s.pendingWrites = session.pendingWrites /\ s.writing = session.writing
        /\ s.waiting = session.waiting /\ s.opened = session.opened
    BY <2>1 DEF Discards, Situated
  <2>3. Follows(s, commands)
    BY <1>1, <2>1, <2>2, FinishKeeps
  <2>4. PurposesOf(commands) /\ WritingAs(s, writer') /\ CountedAs(s, commands)
    BY <1>1, <2>2 DEF WritesInv, Purposes, PurposesOf, Writing, WritingAs, Counted, CountedAs
  <2>5. SessionOK' /\ CommandsOK' /\ PartsOK' /\ Purposes' /\ Staged' /\ Counted' /\ Writing'
    BY <1>1, <2>2, <2>3, <2>4, FollowsWrites
  <2>6. given' \subseteq 1..made
    BY <1>4, <1>8
  <2> QED BY <1>2, <1>3, <1>4, <1>8, <2>5, <2>6 DEF WritesInv
<1> QED BY <1>5, <1>6, <1>7, <1>8, AnswersTransitionDoes

\* The question about the database is answered.
Resolves(replace) ==
    /\ writer \in Writers /\ writer.phase = "asking" /\ session.writing /\ writer.path = "database"
    /\ session.pendingWrites > 0 /\ session.opened
    /\ session' \in Sessions /\ Situated(session', session)
    /\ session'.dirty = session.dirty
    /\ session'.databaseDirty = session.databaseDirty /\ session'.waiting = Nothing
    /\ replace => /\ session'.transition = session.transition /\ session'.ready = session.ready
                  /\ session'.pendingWrites = session.pendingWrites
                  /\ session'.writing /\ ~session'.marked
                  /\ Begun(writer', session, "database", TRUE)
    /\ ~replace => /\ session'.transition = "" /\ ~session'.ready
                   /\ session'.pendingWrites = session.pendingWrites - 1
                   /\ ~session'.writing /\ session'.marked = session.marked
                   /\ writer' = Idle

\* While a database is written the count is not zero.
LEMMA PendingIsCounted ==
    ASSUME WritesInv, session.writing \/ \E n \in DOMAIN commands : commands[n].op # "open"
    PROVE  session.pendingWrites > 0 /\ session.pendingWrites \in Nat
<1>1. session.pendingWrites \in Nat /\ Cardinality(Writes(commands)) \in Nat
  BY WritesFinite DEF WritesInv, SessionOK, Sessions, CommandsOK
<1>2. Cardinality(Writes(commands)) = 0 => \A n \in DOMAIN commands : commands[n].op = "open"
  BY WritesFinite DEF WritesInv, CommandsOK
<1> QED BY <1>1, <1>2 DEF WritesInv, Counted, CountedAs

\* What resolveDatabaseConflict does.
LEMMA AnswersConflictDoes ==
    ASSUME WritesInv, NEW replace \in BOOLEAN, AnswersConflict(replace)
    PROVE  Resolves(replace)
<1> DEFINE k == session.pendingWrites - 1
           s == [session EXCEPT !.pendingWrites = @ - 1, !.writing = FALSE, !.waiting = Nothing]
<1>1. session \in Sessions /\ writer \in Writers \union {Idle}
  BY DEF WritesInv, SessionOK, PartsOK
<1>2. questions \in {<<"conflict">>, <<"transition", "conflict">>}
  BY AnswersDoes DEF AnswersConflict, WritesInv
<1>3. writer \in Writers /\ writer.phase = "asking" /\ session.writing /\ writer.path = "database"
      /\ session.opened
  BY <1>1, <1>2 DEF WritesInv, Asking, Writing, WritingAs
<1>4. session.pendingWrites > 0 /\ session.pendingWrites \in Nat
  BY <1>3, PendingIsCounted
<1>5. k \in Nat /\ k + 1 = session.pendingWrites
  BY <1>4
<1>6. IF replace THEN session' = WriteDatabase(s, writer.path, TRUE) /\ StartWriter(s, writer.path, TRUE)
      ELSE session' = CancelTransition(s) /\ writer' = Idle
  BY DEF AnswersConflict
<1>7. s = [session EXCEPT !.pendingWrites = k, !.writing = FALSE, !.waiting = Nothing]
  BY <1>1 DEF Sessions
<1> HIDE DEF k
<1>8. Nothing \in [path : Paths \union {""}, replace : BOOLEAN] /\ "database" \in Paths
  BY DEF Nothing, Paths
<1>9. /\ s \in Sessions /\ Situated(s, session)
      /\ s.dirty = session.dirty /\ s.databaseDirty = session.databaseDirty
      /\ s.waiting = Nothing /\ s.transition = session.transition /\ s.ready = session.ready
      /\ s.marked = session.marked /\ ~s.writing /\ s.pendingWrites = k
  BY <1>1, <1>5, <1>7, <1>8 DEF Sessions, Situated
<1> HIDE DEF s
<1>10. CASE replace
  <2>1. Counts(session', s, "database", TRUE)
    BY <1>3, <1>6, <1>8, <1>9, <1>10, WriteDoes
  <2>2. Begun(Writer(s, "database", TRUE), s, "database", TRUE)
    BY <1>8, <1>9, WriterDoes
  <2>3. writer' = Writer(s, "database", TRUE)
    BY <1>3, <1>6, <1>9, <1>10 DEF StartWriter
  <2>4. Begun(writer', session, "database", TRUE)
    BY <1>9, <2>2, <2>3 DEF Begun, Situated
  <2>5. session'.pendingWrites = session.pendingWrites
    <3>1. session'.pendingWrites = k + 1
      BY <1>9, <2>1 DEF Counts
    <3> QED BY <1>5, <3>1
  <2>6. Situated(session', session)
    BY <1>9, <2>1 DEF Situated, Counts
  <2>7. /\ session' \in Sessions
        /\ session'.dirty = session.dirty
        /\ session'.databaseDirty = session.databaseDirty /\ session'.waiting = Nothing
        /\ session'.transition = session.transition /\ session'.ready = session.ready
        /\ session'.writing /\ ~session'.marked
    BY <1>9, <2>1 DEF Counts
  <2> QED BY <1>3, <1>4, <1>10, <2>4, <2>5, <2>6, <2>7 DEF Resolves
<1>11. CASE ~replace
  <2>1. Cancels(session', s) /\ writer' = Idle
    BY <1>6, <1>9, <1>11, CancelDoes
  <2>2. session'.pendingWrites = session.pendingWrites - 1
    BY <1>9, <2>1 DEF Cancels, k
  <2>3. Situated(session', session)
    BY <1>9, <2>1 DEF Situated, Cancels
  <2>4. /\ session' \in Sessions
        /\ session'.dirty = session.dirty
        /\ session'.databaseDirty = session.databaseDirty /\ session'.waiting = Nothing
        /\ session'.transition = "" /\ ~session'.ready
        /\ ~session'.writing /\ session'.marked = session.marked
    BY <1>9, <2>1 DEF Cancels
  <2> QED BY <1>3, <1>4, <1>11, <2>1, <2>2, <2>3, <2>4 DEF Resolves
<1> QED BY <1>10, <1>11

\* AnswersConflict keeps the count of pending writes.
LEMMA WritesAnswersConflict ==
    ASSUME WritesInv, NEW replace \in BOOLEAN, AnswersConflict(replace)
    PROVE  WritesInv'
<1>1. Resolves(replace) /\ UNCHANGED <<commands, worker, opener, files, recovery, database, ghosts>>
  BY AnswersConflictDoes DEF AnswersConflict
<1>2. questions' \in {<<>>, <<"transition">>}
  BY AnswersDoes DEF AnswersConflict, WritesInv
<1>3. commands' = commands /\ worker' = worker /\ opener' = opener /\ made' = made /\ FilesOK'
  BY <1>1 DEF ghosts, WritesInv, FilesOK
<1>4. SessionOK' /\ CommandsOK' /\ Purposes' /\ Staged'
  BY <1>1, <1>3 DEF WritesInv, Resolves, SessionOK, CommandsOK, Purposes, Staged
<1>5. Nothing.path # "database"
  BY DEF Nothing
<1>6. CASE replace
  <2>1. Begun(writer', session, "database", TRUE) /\ session'.opened = session.opened
        /\ session'.writing /\ session'.waiting = Nothing /\ session.opened
    BY <1>1, <1>6 DEF Resolves, Situated
  <2>2. PartsOK' /\ Asking'
    <3>1. writer' \in Writers /\ writer' # Idle /\ writer'.phase = "check"
      BY <2>1 DEF Begun
    <3>2. PartsOK'
      BY <1>3, <3>1 DEF WritesInv, PartsOK
    <3>3. Asking'
      BY <1>2, <3>1 DEF Asking
    <3> QED BY <3>2, <3>3
  <2>3. Writing'
    BY <1>5, <2>1 DEF Writing, WritingAs, Begun
  <2>4. Counted'
    BY <1>1, <1>3, <1>6, CountedKept DEF WritesInv, Resolves
  <2> QED BY <1>3, <1>4, <2>2, <2>3, <2>4 DEF WritesInv
<1>7. CASE ~replace
  <2>1. writer' = Idle /\ ~session'.writing /\ session'.waiting = Nothing
        /\ session'.pendingWrites = session.pendingWrites - 1 /\ session.writing
    BY <1>1, <1>7 DEF Resolves
  <2>2. PartsOK' /\ Asking'
    BY <1>2, <1>3, <2>1 DEF WritesInv, PartsOK, Asking
  <2>3. Writing'
    BY <1>5, <2>1 DEF Writing, WritingAs
  <2>4. Cardinality(Writes(commands)) \in Nat
    BY WritesFinite DEF WritesInv, CommandsOK
  <2>5. Counted'
    BY <1>3, <2>1, <2>4 DEF WritesInv, Counted, CountedAs
  <2> QED BY <1>3, <1>4, <2>2, <2>3, <2>5 DEF WritesInv
<1> QED BY <1>6, <1>7

\* The worker answers the first command, done or failed.
Ran(code, dirty) ==
    LET c == commands[1]
    IN /\ worker.process = "up" /\ worker' \in Workers /\ worker'.process = "up"
       /\ c.code = "" /\ code \in {"ok", "failed"} /\ dirty \in BOOLEAN
       /\ commands # <<>> /\ commands \in Seq(Commands) /\ c \in Commands
       /\ commands' = Answered(commands, code, dirty) /\ recovery' \in Recoveries
       /\ code = "failed" =>
             /\ UNCHANGED <<worker, files>>
             /\ recovery'.journal \in {recovery.journal, recovery.journal \union Commits(c)}
       /\ code = "ok" =>
             /\ dirty = (worker'.staged # {})
             /\ c.op = "note" =>
                   /\ worker'.staged = worker.staged \union {c.edit}
                   /\ UNCHANGED <<files, recovery>>
             /\ c.op = "edit" => worker'.staged = worker.staged
             /\ c.op \in {"save", "open"} => worker'.staged = {}
             /\ c.op # "note" =>
                   /\ files' = files \union recovery.journal \union Commits(c)
                   /\ recovery'.journal = {}

\* The journal published, and nothing else of the recovery.
LEMMA JournalIs ==
    ASSUME NEW r \in Recoveries, NEW j \in Edits
    PROVE  [r EXCEPT !.journal = j] \in Recoveries /\ [r EXCEPT !.journal = j].journal = j
  BY DEF Recoveries

\* What a command can commit.
LEMMA CommitsType ==
    ASSUME WritesInv, NEW n \in DOMAIN commands
    PROVE  /\ Commits(commands[n]) \subseteq 1..made /\ Commits(commands[n]) \in Edits
           /\ recovery.journal \union Commits(commands[n]) \in Edits
           /\ commands[n].op = "save" => Commits(commands[n]) = worker.staged
           /\ commands[n].op = "edit" => Commits(commands[n]) = {commands[n].edit}
           /\ commands[n].op \in {"note", "open"} => Commits(commands[n]) = {}
<1>1. commands[n].op \in {"note", "edit", "save", "open"}
  <2>1. commands[n] \in Commands
    BY ElementOfSeq DEF WritesInv, CommandsOK
  <2> QED BY <2>1 DEF Commands
<1>2. /\ commands[n].op = "save" => Commits(commands[n]) = worker.staged
      /\ commands[n].op = "edit" => Commits(commands[n]) = {commands[n].edit}
      /\ commands[n].op \in {"note", "open"} => Commits(commands[n]) = {}
  BY DEF Commits
<1>3. /\ commands[n].op = "edit" => commands[n].edit \in 1..made
      /\ worker.staged \subseteq 1..made
  BY DEF WritesInv, Purposes, Staged
<1>4. Commits(commands[n]) \subseteq 1..made
  BY <1>1, <1>2, <1>3
<1>5. 1..made \subseteq Nat /\ recovery.journal \subseteq 1..made
  BY DEF WritesInv, FilesOK
<1> QED BY <1>2, <1>4, <1>5 DEF Edits

\* What a command run by the worker changes.
LEMMA WorkerRunsDoes ==
    ASSUME WritesInv, WorkerRuns
    PROVE  \E code, dirty : Ran(code, dirty)
<1> DEFINE c == commands[1]
           staged == CASE c.op = "note" -> worker.staged \union {c.edit}
                       [] c.op \in {"save", "open"} -> {}
                       [] OTHER -> worker.staged
<1>1. /\ commands \in Seq(Commands) /\ commands # <<>> /\ Head(commands) = c /\ c \in Commands
      /\ worker \in Workers /\ worker.process = "up" /\ c.code = "" /\ 1 \in DOMAIN commands
      /\ recovery \in Recoveries
  BY WritesTail DEF WritesInv, CommandsOK, PartsOK, FilesOK, WorkerRuns
<1>2. c.op \in {"note", "edit", "save", "open"} /\ c.edit \in Nat
  BY <1>1 DEF Commands
<1>3. CASE /\ commands' = <<[c EXCEPT !.code = "ok", !.dirty = (staged # {})]>> \o Tail(commands)
           /\ worker' = [worker EXCEPT !.staged = staged]
           /\ IF c.op = "note" THEN UNCHANGED <<files, recovery>>
              ELSE /\ files' = files \union recovery.journal \union Commits(c)
                   /\ recovery' = [recovery EXCEPT !.journal = {}]
  <2>1. /\ c.op = "note" => staged = worker.staged \union {c.edit}
        /\ c.op = "edit" => staged = worker.staged
        /\ c.op \in {"save", "open"} => staged = {}
    BY <1>2
  <2>2. staged \in Edits
    BY <1>1, <1>2, <2>1 DEF Workers, Edits
  <2> HIDE DEF staged
  <2>3. worker' \in Workers /\ worker'.process = "up" /\ worker'.staged = staged
    BY <1>1, <1>3, <2>2 DEF Workers
  <2>4. recovery' \in Recoveries /\ (c.op # "note" => recovery'.journal = {})
    <3>1. {} \in Edits
      BY DEF Edits
    <3> QED BY <1>1, <1>3, <3>1, JournalIs
  <2>5. Ran("ok", staged # {})
    BY <1>1, <1>3, <2>1, <2>3, <2>4 DEF Ran, Answered
  <2> QED BY <2>5
<1>4. CASE /\ commands' = <<[c EXCEPT !.code = "failed", !.dirty = FALSE]>> \o Tail(commands)
           /\ \E published \in {{}, Commits(c)} :
                 recovery' = [recovery EXCEPT !.journal = @ \union published]
           /\ UNCHANGED <<worker, files>>
  <2>1. PICK published \in {{}, Commits(c)} :
           recovery' = [recovery EXCEPT !.journal = recovery.journal \union published]
    BY <1>1, <1>4 DEF Recoveries
  <2>2. recovery.journal \union published \in Edits
    BY <1>1, CommitsType DEF Recoveries, Edits
  <2>3. recovery' \in Recoveries /\ recovery'.journal = recovery.journal \union published
    BY <1>1, <2>1, <2>2, JournalIs
  <2>4. Ran("failed", FALSE)
    BY <1>1, <1>4, <2>3 DEF Ran, Answered
  <2> QED BY <2>4
<1> QED BY <1>1, <1>3, <1>4 DEF WorkerRuns

\* WorkerRuns keeps the count of pending writes.
LEMMA WritesWorkerRuns ==
    ASSUME WritesInv, WorkerRuns
    PROVE  WritesInv'
<1>1. PICK code, dirty : Ran(code, dirty)
  BY WorkerRunsDoes
<1>2. /\ session' = session /\ questions' = questions /\ opener' = opener /\ writer' = writer
      /\ database' = database /\ made' = made /\ acked' = acked /\ saved' = saved
      /\ given' = given
  BY DEF WorkerRuns
<1>3. /\ commands' \in Seq(Commands) /\ DOMAIN commands' = DOMAIN commands
      /\ Writes(commands') = Writes(commands) /\ 1 \in DOMAIN commands
      /\ commands'[1].op = commands[1].op /\ commands'[1].then = commands[1].then
      /\ commands'[1].edit = commands[1].edit
      /\ \A n \in DOMAIN commands : n # 1 => commands'[n] = commands[n]
  <2>1. /\ commands \in Seq(Commands) /\ commands # <<>> /\ code \in {"ok", "failed"}
        /\ dirty \in BOOLEAN
        /\ commands' = Answered(commands, code, dirty)
    BY <1>1 DEF Ran
  <2> QED BY <2>1, AnswerKeeps
<1>4. SessionOK' /\ CommandsOK' /\ PartsOK' /\ Asking'
  BY <1>1, <1>2, <1>3 DEF WritesInv, SessionOK, CommandsOK, PartsOK, Asking, Ran
<1>5. Purposes'
  <2> SUFFICES ASSUME NEW n \in DOMAIN commands'
               PROVE  /\ commands'[n].op = "save" <=> commands'[n].then # ""
                      /\ commands'[n].op \in {"note", "edit"} => commands'[n].edit \in 1..made
                      /\ commands'[n].op \in {"save", "open"} => commands'[n].edit = 0
    BY <1>2 DEF Purposes
  <2>1. n \in DOMAIN commands /\ commands'[n].op = commands[n].op
        /\ commands'[n].then = commands[n].then /\ commands'[n].edit = commands[n].edit
    BY <1>3
  <2> QED BY <2>1 DEF WritesInv, Purposes
<1>6. Counted' /\ Writing'
  BY <1>2, <1>3, CountedKept, WritingKept DEF WritesInv
<1>7. commands[1].op \in {"note", "edit", "save", "open"}
      /\ (commands[1].op \in {"note", "edit"} => commands[1].edit \in 1..made)
  BY <1>1, <1>3 DEF Ran, Commands, WritesInv, Purposes
<1>8. /\ worker'.staged \subseteq 1..made /\ files' \subseteq 1..made
      /\ recovery' \in Recoveries /\ recovery'.journal \subseteq 1..made
  <2>1. worker.staged \subseteq 1..made /\ files \subseteq 1..made
        /\ recovery.journal \subseteq 1..made
    BY DEF WritesInv, FilesOK, Staged
  <2>2. Commits(commands[1]) \subseteq 1..made
    BY <1>3, CommitsType
  <2>3. CASE code = "failed"
    BY <1>1, <2>1, <2>2, <2>3 DEF Ran
  <2>4. CASE code = "ok"
    BY <1>1, <1>7, <2>1, <2>2, <2>4 DEF Ran
  <2> QED BY <1>1, <2>3, <2>4 DEF Ran
<1>9. FilesOK' /\ Staged'
  BY <1>2, <1>8 DEF WritesInv, FilesOK, Staged
<1> QED BY <1>4, <1>5, <1>6, <1>9 DEF WritesInv

\* What a commit under way had published.
Published(published) ==
    \/ published = {}
    \/ 1 \in DOMAIN commands /\ commands[1].code = "" /\ published = Commits(commands[1])

\* The worker dies with what it had staged.
LEMMA ExitsDoes ==
    ASSUME WritesInv, Exits
    PROVE  /\ worker' \in Workers /\ worker'.process = "gone" /\ worker'.staged = {}
           /\ recovery' \in Recoveries /\ recovery'.journal \subseteq 1..made
           /\ given' = given \union (worker.staged \ recovery'.journal) /\ worker.process = "up"
           /\ \E published :
                 Published(published) /\ recovery'.journal = recovery.journal \union published
<1>1. recovery \in Recoveries /\ recovery.journal \subseteq 1..made /\ 1..made \subseteq Nat
  BY DEF WritesInv, FilesOK
<1>2. PICK published \in {{}} \union
                     {Commits(c) : c \in {commands[n] : n \in {n \in DOMAIN commands :
                                                 n = 1 /\ commands[n].code = ""}}} :
         recovery' = [recovery EXCEPT !.journal = recovery.journal \union published]
  BY <1>1 DEF Exits, Recoveries
<1>3. Published(published)
  BY <1>2 DEF Published
<1>4. published \subseteq 1..made
  BY <1>3, CommitsType DEF Published
<1>5. recovery.journal \union published \in Edits
  BY <1>1, <1>4 DEF Edits
<1>6. recovery' \in Recoveries /\ recovery'.journal = recovery.journal \union published
  BY <1>1, <1>2, <1>5, JournalIs
<1>7. /\ worker' \in Workers /\ worker'.process = "gone" /\ worker'.staged = {}
      /\ given' = given \union (worker.staged \ recovery'.journal) /\ worker.process = "up"
  BY DEF Exits, Workers, Edits
<1> QED BY <1>1, <1>3, <1>4, <1>6, <1>7

\* Exits keeps the count of pending writes.
LEMMA WritesExits ==
    ASSUME WritesInv, Exits
    PROVE  WritesInv'
<1>1. /\ worker' \in Workers /\ worker'.staged = {}
      /\ recovery' \in Recoveries /\ recovery'.journal \subseteq 1..made
      /\ given' = given \union (worker.staged \ recovery'.journal)
  BY ExitsDoes
<1>2. SessionOK' /\ CommandsOK' /\ PartsOK' /\ Purposes' /\ Asking'
  BY <1>1 DEF WritesInv, SessionOK, CommandsOK, PartsOK, Purposes, Asking, Exits
<1>3. FilesOK' /\ Staged'
  <2>1. /\ made' = made /\ files' = files /\ database' = database /\ acked' = acked
        /\ saved' = saved
    BY DEF Exits
  <2> QED BY <1>1, <2>1 DEF WritesInv, FilesOK, Staged
<1>4. Counted' /\ Writing'
  BY CountedKept, WritingKept DEF WritesInv, Exits
<1> QED BY <1>2, <1>3, <1>4 DEF WritesInv

\* The session hears of it, and the commands are retired.
Stops(t, s) ==
    /\ t \in Sessions /\ ~t.connected /\ ~t.starting /\ ~t.opening /\ ~t.loaded
    /\ t.epoch = s.epoch + 1 /\ t.opened = s.opened /\ t.quit = s.quit
    /\ t.transition = s.transition /\ t.ready = s.ready /\ t.dirty = s.dirty
    /\ t.databaseDirty = s.databaseDirty /\ t.marked = s.marked
    /\ t.pendingWrites = s.pendingWrites /\ t.writing = s.writing /\ t.waiting = s.waiting

\* What the end of the worker changes.
LEMMA HearsStoppedDoes ==
    ASSUME WritesInv, HearsStopped
    PROVE  /\ Stops(session', session) /\ commands' = Retired(commands)
           /\ worker.process = "gone" /\ worker' \in Workers
           /\ worker'.process = "down" /\ worker'.staged = worker.staged
<1>1. session \in Sessions /\ worker \in Workers
  BY DEF WritesInv, SessionOK, PartsOK
<1> DEFINE e == session.epoch + 1
<1>2. e \in Nat
  <2>1. session.epoch \in Nat
    BY <1>1 DEF Sessions
  <2> QED BY <2>1
<1>3. session' = [session EXCEPT !.connected = FALSE, !.starting = FALSE, !.opening = FALSE,
                                 !.loaded = FALSE, !.epoch = e]
  BY <1>1 DEF HearsStopped, Stopped, Sessions
<1> HIDE DEF e
<1>4. session' \in Sessions /\ session'.epoch = e
  BY <1>1, <1>2, <1>3 DEF Sessions
<1>5. /\ ~session'.connected /\ ~session'.starting /\ ~session'.opening /\ ~session'.loaded
      /\ session'.opened = session.opened /\ session'.quit = session.quit
      /\ session'.transition = session.transition /\ session'.ready = session.ready
      /\ session'.dirty = session.dirty
      /\ session'.databaseDirty = session.databaseDirty /\ session'.marked = session.marked
      /\ session'.pendingWrites = session.pendingWrites /\ session'.writing = session.writing
      /\ session'.waiting = session.waiting
  BY <1>1, <1>3 DEF Sessions
<1>6. Stops(session', session)
  BY <1>4, <1>5 DEF Stops, e
<1>7. /\ commands' = Retired(commands) /\ worker.process = "gone" /\ worker' \in Workers
      /\ worker'.process = "down" /\ worker'.staged = worker.staged
  BY <1>1 DEF HearsStopped, Workers
<1> QED BY <1>6, <1>7

\* HearsStopped keeps the count of pending writes.
LEMMA WritesHearsStopped ==
    ASSUME WritesInv, HearsStopped
    PROVE  WritesInv'
<1>1. /\ Stops(session', session) /\ commands' = Retired(commands)
      /\ worker' \in Workers /\ worker'.staged = worker.staged
  BY HearsStoppedDoes
<1>2. /\ questions' = questions /\ opener' = opener /\ writer' = writer /\ made' = made /\ FilesOK'
  BY DEF HearsStopped, ghosts, WritesInv, FilesOK
<1>3. /\ commands' \in Seq(Commands) /\ DOMAIN commands' = DOMAIN commands
      /\ Writes(commands') = Writes(commands)
      /\ \A n \in DOMAIN commands :
            /\ commands'[n].op = commands[n].op /\ commands'[n].then = commands[n].then
            /\ commands'[n].edit = commands[n].edit
  BY <1>1, RetiredKeeps DEF WritesInv, CommandsOK
<1>4. SessionOK' /\ CommandsOK' /\ PartsOK' /\ Asking'
  BY <1>1, <1>2, <1>3 DEF WritesInv, SessionOK, CommandsOK, PartsOK, Asking, Stops
<1>5. Purposes'
  BY <1>2, <1>3 DEF WritesInv, Purposes
<1>6. Counted' /\ Writing'
  BY <1>1, <1>2, <1>3, CountedKept, WritingKept DEF WritesInv, Stops
<1>7. Staged'
  BY <1>1, <1>2 DEF WritesInv, Staged
<1> QED BY <1>2, <1>4, <1>5, <1>6, <1>7 DEF WritesInv

\* A worker answers: the database that waited is opened.
Greeted(s) ==
    /\ s \in Sessions /\ s.connected /\ ~s.starting
    /\ s.loaded = session.loaded /\ s.opened = session.opened /\ s.opening = session.opening
    /\ s.epoch = session.epoch /\ s.quit = session.quit
    /\ s.transition = session.transition /\ s.ready = session.ready /\ s.dirty = session.dirty
    /\ s.databaseDirty = session.databaseDirty /\ s.marked = session.marked
    /\ s.pendingWrites = session.pendingWrites /\ s.writing = session.writing
    /\ s.waiting = session.waiting

\* What the hello of the new worker changes.
LEMMA HearsHelloDoes ==
    ASSUME WritesInv, HearsHello
    PROVE  /\ \E s : Greeted(s) /\ Opens(s, Idle)
           /\ worker.process = "starting" /\ opener = Idle /\ commands = <<>>
           /\ worker' \in Workers /\ worker'.process = "up" /\ worker'.staged = worker.staged
<1>1. session \in Sessions /\ worker \in Workers
  BY DEF WritesInv, SessionOK, PartsOK
<1> DEFINE s == [session EXCEPT !.connected = TRUE, !.starting = FALSE]
<1>2. Greeted(s)
  BY <1>1 DEF Greeted, Sessions
<1>3. s \in Sessions /\ OpenPending(s, Idle)
  BY <1>2 DEF Greeted, HearsHello
<1> HIDE DEF s
<1>4. Opens(s, Idle)
  BY <1>3, OpenDoes
<1>5. /\ worker.process = "starting" /\ opener = Idle /\ commands = <<>>
      /\ worker' \in Workers /\ worker'.process = "up" /\ worker'.staged = worker.staged
  BY <1>1 DEF HearsHello, Workers
<1> QED BY <1>2, <1>4, <1>5

\* HearsHello keeps the count of pending writes.
LEMMA WritesHearsHello ==
    ASSUME WritesInv, HearsHello
    PROVE  WritesInv'
<1>1. PICK s : Greeted(s) /\ Opens(s, Idle)
  BY HearsHelloDoes
<1>2. worker' \in Workers /\ worker'.staged = worker.staged
  BY HearsHelloDoes
<1>3. /\ questions' = questions /\ commands' = commands /\ writer' = writer /\ made' = made
      /\ FilesOK'
  BY DEF HearsHello, ghosts, WritesInv, FilesOK
<1>4. SessionOK' /\ CommandsOK' /\ PartsOK' /\ Asking' /\ Purposes' /\ Staged'
  BY <1>1, <1>2, <1>3 DEF WritesInv, SessionOK, CommandsOK, PartsOK, Asking, Purposes, Staged, Opens
<1>5. Counted' /\ Writing'
  BY <1>1, <1>3, CountedKept, WritingKept DEF WritesInv, Opens, Greeted
<1> QED BY <1>3, <1>4, <1>5 DEF WritesInv

\* Behind the first command, the purposes are those they were.
LEMMA PurposesTail ==
    ASSUME WritesInv, commands # <<>>
    PROVE  PurposesOf(Tail(commands))
<1> SUFFICES ASSUME NEW n \in DOMAIN Tail(commands)
             PROVE  LET c == Tail(commands)[n]
                    IN /\ c.op = "save" <=> c.then # ""
                       /\ c.op \in {"note", "edit"} => c.edit \in 1..made
                       /\ c.op \in {"save", "open"} => c.edit = 0
  BY DEF PurposesOf
<1>1. n + 1 \in DOMAIN commands /\ Tail(commands)[n] = commands[n + 1]
  BY WritesTail DEF WritesInv, CommandsOK
<1> QED BY <1>1 DEF WritesInv, Purposes

\* The first command is taken off the count, and a write it starts is added.
LEMMA CompletionCounts ==
    ASSUME WritesInv, commands # <<>>, commands[1].op # "open", NEW s, Completion(s, commands[1])
    PROVE  CountedAs(s, Tail(commands)) /\ WritingAs(s, writer') /\ writer' \in Writers \union {Idle}
<1> DEFINE c == commands[1]
           k == Cardinality(Writes(Tail(commands)))
<1>1. commands \in Seq(Commands) /\ Tail(commands) \in Seq(Commands)
      /\ Cardinality(Writes(commands)) = k + 1 /\ c \in Commands
  BY WritesTail DEF WritesInv, CommandsOK
<1>2. k \in Nat
  BY <1>1, WritesFinite
<1>3. session.pendingWrites = (k + 1) + (IF session.writing THEN 1 ELSE 0)
  BY <1>1 DEF WritesInv, Counted, CountedAs
<1>4. WritingAs(session, writer) /\ writer \in Writers \union {Idle}
  BY DEF WritesInv, Writing, PartsOK
<1>5. s.opened = session.opened
  BY DEF Completion
<1>6. CASE ~Starts(c)
  <2>1. /\ s.pendingWrites = session.pendingWrites - 1 /\ s.writing = session.writing
        /\ s.waiting = session.waiting /\ writer' = writer
    BY <1>6 DEF Completion
  <2>2. CountedAs(s, Tail(commands))
    BY <1>2, <1>3, <2>1 DEF CountedAs
  <2>3. WritingAs(s, writer')
    BY <1>4, <1>5, <2>1 DEF WritingAs
  <2> QED BY <1>4, <2>1, <2>2, <2>3
<1>7. CASE Starts(c) /\ session.writing
  <2>1. /\ s.pendingWrites = session.pendingWrites - 1 /\ s.writing /\ writer' = writer
        /\ s.waiting = [path |-> PathOf(c), replace |-> FALSE]
    BY <1>7 DEF Completion
  <2>2. CountedAs(s, Tail(commands))
    BY <1>2, <1>3, <1>7, <2>1 DEF CountedAs
  <2>3. PathOf(c) \in Paths /\ (PathOf(c) = "database" => session.opened)
    BY <1>7 DEF PathOf, Paths, Starts
  <2>4. s.waiting.path = PathOf(c)
    BY <2>1
  <2>5. WritingAs(s, writer')
    BY <1>4, <1>5, <1>7, <2>1, <2>3, <2>4 DEF WritingAs
  <2> QED BY <1>4, <2>1, <2>2, <2>5
<1>8. CASE Starts(c) /\ ~session.writing
  <2>1. /\ s.pendingWrites = session.pendingWrites /\ s.writing
        /\ s.waiting = session.waiting
        /\ Begun(writer', session, PathOf(c), FALSE)
    BY <1>8 DEF Completion
  <2>2. CountedAs(s, Tail(commands))
    BY <1>2, <1>3, <1>8, <2>1 DEF CountedAs
  <2>3. PathOf(c) \in Paths /\ (PathOf(c) = "database" => session.opened)
    BY <1>8 DEF PathOf, Paths, Starts
  <2>4. WritingAs(s, writer')
    BY <1>4, <1>5, <1>8, <2>1, <2>3 DEF WritingAs, Begun
  <2> QED BY <2>1, <2>2, <2>4 DEF Begun
<1> QED BY <1>6, <1>7, <1>8

\* The completion of an edit or a save.
LEMMA WritesCompletes ==
    ASSUME WritesInv, Completes
    PROVE  WritesInv'
<1> DEFINE c == commands[1]
<1>1. /\ commands # <<>> /\ commands \in Seq(Commands) /\ Tail(commands) \in Seq(Commands)
      /\ c \in Commands /\ 1 \in DOMAIN commands /\ c.op # "open" /\ worker \in Workers
  BY WritesTail DEF WritesInv, CommandsOK, PartsOK, Completes
<1>2. session.pendingWrites > 0
  BY <1>1, PendingIsCounted
<1>3. PICK s : /\ Completion(s, c) /\ Finishes(s, Tail(commands))
  BY <1>2, CompletesDoes DEF WritesInv
<1>4. s \in Sessions
  BY <1>3 DEF Completion
<1>5. Follows(s, Tail(commands))
  BY <1>1, <1>3, <1>4, FinishKeeps
<1>6. CountedAs(s, Tail(commands)) /\ WritingAs(s, writer') /\ writer' \in Writers \union {Idle}
  BY <1>1, <1>3, CompletionCounts
<1>7. PurposesOf(Tail(commands))
  BY <1>1, PurposesTail
<1>8. /\ questions' = questions /\ opener' = opener /\ files' = files /\ database' = database
      /\ made' = made /\ saved' = saved /\ given' = given /\ recovery' = recovery
  BY DEF Completes
<1>9. SessionOK' /\ CommandsOK' /\ PartsOK' /\ Purposes' /\ Staged' /\ Counted' /\ Writing'
  BY <1>1, <1>4, <1>5, <1>6, <1>7, <1>8, FollowsWrites
<1>10. FilesOK'
  <2>1. c.edit \in 1..made \/ c.edit = 0
    BY <1>1 DEF WritesInv, Purposes, Commands
  <2>2. acked' \subseteq 1..made
    BY <1>3, <2>1 DEF Completion, WritesInv, FilesOK
  <2> QED BY <1>8, <2>2 DEF WritesInv, FilesOK
<1>11. Asking'
  <2>1. writer' = writer \/ (~session.writing /\ writer' # Idle /\ writer'.phase = "check")
    <3>1. session.writing \in BOOLEAN
      BY DEF WritesInv, SessionOK, Sessions
    <3> QED BY <1>3, <3>1 DEF Completion, Begun
  <2>2. ~session.writing => writer = Idle
    BY DEF WritesInv, Writing, WritingAs
  <2> QED BY <1>8, <2>1, <2>2 DEF WritesInv, Asking
<1> QED BY <1>9, <1>10, <1>11 DEF WritesInv

\* An open ended.
Ended(t, s) ==
    /\ t \in Sessions /\ t.loaded = s.loaded /\ t.opened = s.opened /\ ~t.opening
    /\ t.connected = s.connected /\ t.starting = s.starting /\ t.epoch = s.epoch
    /\ t.quit = s.quit
    /\ t.transition = s.transition /\ t.ready = s.ready /\ t.dirty = s.dirty
    /\ t.databaseDirty = s.databaseDirty /\ t.marked = s.marked
    /\ t.pendingWrites = s.pendingWrites /\ t.writing = s.writing /\ t.waiting = s.waiting

\* The session of the database opened.
Reopened(t, s, recovered) ==
    /\ t \in Sessions /\ t.loaded /\ t.opened /\ ~t.opening
    /\ t.connected = s.connected /\ t.starting = s.starting /\ t.epoch = s.epoch + 1
    /\ t.quit = s.quit
    /\ t.transition = s.transition /\ t.ready = s.ready /\ ~t.dirty
    /\ t.databaseDirty = recovered /\ t.marked = s.marked
    /\ t.pendingWrites = s.pendingWrites /\ t.writing = s.writing /\ t.waiting = s.waiting

\* The completion of an open.
LEMMA CompletesOpenDoes ==
    ASSUME WritesInv, CompletesOpen
    PROVE  /\ commands # <<>> /\ commands[1].code # "" /\ commands[1].op = "open"
           /\ \/ /\ commands[1].code = "ok" /\ commands' = Retired(Tail(commands))
                 /\ acked' = IF commands[1].recovered THEN acked \union files ELSE acked
                 /\ given' = IF commands[1].recovered /\ ~session.ready THEN given \ files
                             ELSE given
                 /\ \E s : Reopened(s, session, commands[1].recovered) /\ Opens(s, opener)
              \/ /\ commands[1].code # "ok" /\ commands' = Tail(commands)
                 /\ acked' = acked /\ given' = given
                 /\ \E s : Ended(s, session) /\ Opens(s, opener)
<1> DEFINE c == commands[1]
<1>1. /\ session \in Sessions /\ commands \in Seq(Commands) /\ commands # <<>>
      /\ Head(commands) = c /\ c \in Commands /\ opener \in Openers \union {Idle}
      /\ c.code # "" /\ c.op = "open"
  BY WritesTail DEF WritesInv, SessionOK, CommandsOK, PartsOK, CompletesOpen
<1>2. CASE c.code = "ok"
  <2> DEFINE e == session.epoch + 1
             i == c.identity
             d == c.recovered
             s == [ResetState(session) EXCEPT
                      !.loaded = TRUE, !.opened = TRUE, !.opening = FALSE, !.epoch = @ + 1,
                      !.identity = c.identity, !.databaseDirty = c.recovered]
  <2>1. /\ OpenPending(s, opener) /\ commands' = Retired(Tail(commands))
        /\ acked' = IF c.recovered THEN acked \union files ELSE acked
        /\ given' = IF c.recovered /\ ~session.ready THEN given \ files ELSE given
    BY <1>1, <1>2 DEF CompletesOpen
  <2>2. e \in Nat /\ i \in Edits /\ d \in BOOLEAN
    <3>1. session.epoch \in Nat
      BY <1>1 DEF Sessions
    <3>2. i \in Edits /\ d \in BOOLEAN
      BY <1>1 DEF Commands
    <3> QED BY <3>1, <3>2
  <2>3. s = [session EXCEPT !.loaded = TRUE, !.dirty = FALSE, !.opened = TRUE,
                            !.databaseDirty = d, !.identity = i, !.opening = FALSE,
                            !.epoch = e]
    BY <1>1 DEF ResetState, Sessions
  <2> HIDE DEF e, i, d, s
  <2>4. s \in Sessions /\ s.epoch = e
    BY <1>1, <2>2, <2>3 DEF Sessions
  <2>5. /\ s.loaded /\ s.opened /\ ~s.opening
        /\ s.connected = session.connected /\ s.starting = session.starting
        /\ s.transition = session.transition /\ s.ready = session.ready /\ ~s.dirty
        /\ s.databaseDirty = d /\ s.marked = session.marked /\ s.quit = session.quit
        /\ s.pendingWrites = session.pendingWrites /\ s.writing = session.writing
        /\ s.waiting = session.waiting
    BY <1>1, <2>3 DEF Sessions
  <2>6. Reopened(s, session, c.recovered)
    BY <2>4, <2>5 DEF Reopened, e, d
  <2>7. Opens(s, opener)
    BY <1>1, <2>1, <2>4, OpenDoes
  <2> QED BY <1>1, <1>2, <2>1, <2>6, <2>7
<1>3. CASE c.code # "ok"
  <2> DEFINE s == [session EXCEPT !.opening = FALSE]
  <2>1. OpenPending(s, opener) /\ commands' = Tail(commands) /\ UNCHANGED <<acked, given>>
    BY <1>1, <1>3 DEF CompletesOpen
  <2>2. Ended(s, session)
    BY <1>1 DEF Ended, Sessions
  <2>3. s \in Sessions
    BY <2>2 DEF Ended
  <2> HIDE DEF s
  <2>4. Opens(s, opener)
    BY <1>1, <2>1, <2>3, OpenDoes
  <2> QED BY <1>1, <1>3, <2>1, <2>2, <2>4
<1> QED BY <1>2, <1>3

\* CompletesOpen keeps the count of pending writes.
LEMMA WritesCompletesOpen ==
    ASSUME WritesInv, CompletesOpen
    PROVE  WritesInv'
<1> DEFINE q == Tail(commands)
<1>1. /\ commands # <<>> /\ commands \in Seq(Commands) /\ q \in Seq(Commands)
      /\ Cardinality(Writes(commands)) = Cardinality(Writes(q)) + 0
      /\ Cardinality(Writes(q)) \in Nat
  <2>1. commands # <<>> /\ commands \in Seq(Commands) /\ commands[1].op = "open"
    BY CompletesOpenDoes DEF WritesInv, CommandsOK
  <2>2. /\ q \in Seq(Commands)
        /\ Cardinality(Writes(commands)) = Cardinality(Writes(q)) + 0
    BY <2>1, WritesTail
  <2> QED BY <2>1, <2>2, WritesFinite
<1>2. Cardinality(Writes(commands)) = Cardinality(Writes(q)) /\ PurposesOf(q)
  BY <1>1, PurposesTail
<1>3. /\ questions' = questions /\ worker' = worker /\ writer' = writer /\ made' = made /\ FilesOK'
  <2>1. acked' \subseteq 1..made /\ given' \subseteq 1..made
    BY CompletesOpenDoes DEF WritesInv, FilesOK
  <2> QED BY <2>1 DEF CompletesOpen, WritesInv, FilesOK
<1>4. PICK s : /\ Reopened(s, session, commands[1].recovered) \/ Ended(s, session)
               /\ Opens(s, opener)
  BY CompletesOpenDoes
<1>5. commands' = q \/ commands' = Retired(q)
  BY CompletesOpenDoes
<1> HIDE DEF q
<1>6. /\ commands' \in Seq(Commands) /\ DOMAIN commands' = DOMAIN q /\ Writes(commands') = Writes(q)
      /\ \A n \in DOMAIN q : /\ commands'[n].op = q[n].op /\ commands'[n].then = q[n].then
                             /\ commands'[n].edit = q[n].edit
  BY <1>1, <1>5, RetiredKeeps
<1>7. /\ session' \in Sessions /\ session'.pendingWrites = session.pendingWrites
      /\ session'.writing = session.writing /\ session'.waiting = session.waiting
      /\ session.opened => session'.opened
      /\ opener' \in Openers \union {Idle}
  BY <1>4 DEF Opens, Reopened, Ended
<1>8. SessionOK' /\ CommandsOK' /\ PartsOK' /\ Asking' /\ Staged'
  BY <1>3, <1>6, <1>7 DEF WritesInv, SessionOK, CommandsOK, PartsOK, Asking, Staged
<1>9. Purposes'
  <2> SUFFICES ASSUME NEW n \in DOMAIN commands'
               PROVE  /\ commands'[n].op = "save" <=> commands'[n].then # ""
                      /\ commands'[n].op \in {"note", "edit"} => commands'[n].edit \in 1..made
                      /\ commands'[n].op \in {"save", "open"} => commands'[n].edit = 0
    BY <1>3 DEF Purposes
  <2>1. n \in DOMAIN q /\ commands'[n].op = q[n].op
        /\ commands'[n].then = q[n].then /\ commands'[n].edit = q[n].edit
    BY <1>6
  <2> QED BY <1>2, <2>1 DEF PurposesOf
<1>10. Counted'
  BY <1>2, <1>6, <1>7 DEF WritesInv, Counted, CountedAs
<1>11. Writing'
  BY <1>3, <1>7 DEF WritesInv, Writing, WritingAs
<1> QED BY <1>3, <1>8, <1>9, <1>10, <1>11 DEF WritesInv

\* What the unpacking leaves: the files of the database, or of the working
\* copy kept, or some of both.
LEMMA UnpacksDoes ==
    ASSUME WritesInv, Unpacks
    PROVE  /\ opener \in Openers /\ opener # Idle /\ opener' \in Openers /\ opener' # Idle
           /\ opener.phase = "unpack" /\ opener'.phase \in {"read", "failed"}
           /\ recovery' \in Recoveries /\ recovery'.journal = recovery.journal
           /\ files' \subseteq files \union database
           /\ opener'.phase = "read" /\ ~opener'.recovered =>
                 files' = database /\ recovery.journal = {}
<1>1. opener \in Openers /\ opener # Idle /\ opener.phase = "unpack"
  <2>1. Idle.phase # "unpack"
    BY DEF Idle
  <2> QED BY <2>1 DEF WritesInv, PartsOK, Unpacks
<1>2. database \in Edits /\ recovery \in Recoveries /\ Unknown \in Edits
  BY UnknownIsOne DEF WritesInv, FilesOK, Edits
<1>3. \A i \in Edits : /\ [recovery EXCEPT !.marker = i] \in Recoveries
                       /\ [recovery EXCEPT !.marker = i].journal = recovery.journal
  BY <1>2 DEF Recoveries
<1>4. recovery' \in Recoveries /\ recovery'.journal = recovery.journal
  <2>1. \/ recovery' = recovery \/ recovery' = [recovery EXCEPT !.marker = database]
        \/ recovery' = [recovery EXCEPT !.marker = Unknown]
    BY DEF Unpacks
  <2>2. CASE recovery' = recovery
    BY <1>2, <2>2
  <2>3. CASE recovery' = [recovery EXCEPT !.marker = database]
    BY <1>2, <1>3, <2>3
  <2>4. CASE recovery' = [recovery EXCEPT !.marker = Unknown]
    BY <1>2, <1>3, <2>4
  <2> QED BY <2>1, <2>2, <2>3, <2>4
<1>5. files' \subseteq files \union database
  BY DEF Unpacks
<1>6. Preserves \in BOOLEAN /\ (~Preserves => recovery.journal = {})
  BY DEF Preserves
<1>7. /\ opener' \in Openers /\ opener'.phase \in {"read", "failed"}
      /\ opener'.phase = "read" /\ ~opener'.recovered =>
            files' = database /\ recovery.journal = {}
  <2>1. CASE /\ opener' = [phase |-> "read", recovered |-> Preserves]
             /\ files' = IF Preserves THEN files ELSE database
    <3> DEFINE p == Preserves
    <3>1. p \in BOOLEAN /\ opener' = [phase |-> "read", recovered |-> p]
          /\ (~p => files' = database /\ recovery.journal = {})
      BY <1>6, <2>1
    <3> HIDE DEF p
    <3>2. opener' \in Openers /\ opener'.phase = "read" /\ opener'.recovered = p
      BY <3>1 DEF Openers
    <3> QED BY <3>1, <3>2
  <2>2. CASE opener' = [phase |-> "failed"]
    <3>1. opener' \in Openers /\ opener'.phase = "failed"
      BY <2>2 DEF Openers
    <3> QED BY <3>1
  <2> QED BY <2>1, <2>2 DEF Unpacks
<1>8. opener' # Idle
  BY <1>7, IdleIsNone
<1> QED BY <1>1, <1>4, <1>5, <1>7, <1>8

\* Unpacks keeps the count of pending writes.
LEMMA WritesUnpacks ==
    ASSUME WritesInv, Unpacks
    PROVE  WritesInv'
<1>1. SessionOK' /\ CommandsOK' /\ Purposes' /\ Staged' /\ Asking'
  BY DEF WritesInv, SessionOK, CommandsOK, Purposes, Staged, Asking, Unpacks
<1>2. Counted' /\ Writing'
  BY CountedKept, WritingKept DEF WritesInv, Unpacks
<1>3. opener' \in Openers
  BY UnpacksDoes
<1>4. PartsOK'
  BY <1>3 DEF WritesInv, PartsOK, Unpacks
<1>5. files' \subseteq 1..made /\ recovery' \in Recoveries /\ recovery'.journal \subseteq 1..made
  BY UnpacksDoes DEF WritesInv, FilesOK
<1>6. FilesOK'
  BY <1>5 DEF WritesInv, FilesOK, Unpacks
<1> QED BY <1>1, <1>2, <1>4, <1>6 DEF WritesInv

\* What was unpacked is read.
LEMMA OpenerReadsDoes ==
    ASSUME WritesInv, OpenerReads
    PROVE  /\ opener \in Openers /\ opener # Idle /\ opener' \in Openers /\ opener' # Idle
           /\ opener.phase = "read"
           /\ \/ opener'.phase = "unpacked" /\ opener'.recovered = opener.recovered
              \/ opener'.phase = "failed"
<1>1. opener \in Openers /\ opener # Idle /\ opener.phase = "read"
  <2>1. Idle.phase # "read"
    BY DEF Idle
  <2> QED BY <2>1 DEF WritesInv, PartsOK, OpenerReads
<1>2. database \in Edits /\ opener.recovered \in BOOLEAN
  <2>1. opener.recovered \in BOOLEAN
    BY <1>1 DEF Openers
  <2> QED BY <2>1 DEF WritesInv, FilesOK, Edits
<1>3. CASE opener' = [phase |-> "unpacked", identity |-> database, recovered |-> opener.recovered]
  <2>1. opener' \in Openers /\ opener'.phase = "unpacked" /\ opener'.recovered = opener.recovered
    BY <1>2, <1>3 DEF Openers
  <2> QED BY <1>1, <2>1, IdleIsNone
<1>4. CASE opener' = [phase |-> "failed"]
  <2>1. opener' \in Openers /\ opener'.phase = "failed"
    BY <1>4 DEF Openers
  <2> QED BY <1>1, <2>1, IdleIsNone
<1> QED BY <1>3, <1>4 DEF OpenerReads

\* OpenerReads keeps the count of pending writes.
LEMMA WritesOpenerReads ==
    ASSUME WritesInv, OpenerReads
    PROVE  WritesInv'
<1>1. SessionOK' /\ CommandsOK' /\ Purposes' /\ Staged' /\ Asking' /\ FilesOK'
  BY DEF WritesInv, SessionOK, CommandsOK, Purposes, Staged, Asking, FilesOK, OpenerReads, ghosts
<1>2. Counted' /\ Writing'
  BY CountedKept, WritingKept DEF WritesInv, OpenerReads
<1>3. PartsOK'
  BY OpenerReadsDoes DEF WritesInv, PartsOK, OpenerReads
<1> QED BY <1>1, <1>2, <1>3 DEF WritesInv

\* The command of an open.
OpenOf(s, i, r) == [Command(s, "open", "", 0) EXCEPT !.identity = i, !.recovered = r]
IsOpen(c, s, r) ==
    /\ c \in Commands /\ c.op = "open" /\ c.then = "" /\ c.edit = 0 /\ c.epoch = s.epoch
    /\ c.recovered = r /\ ~c.dirty /\ c.code = IF s.connected THEN "" ELSE "unavailable"

\* The command that sendOpen queues.
LEMMA OpenCommand ==
    ASSUME NEW s \in Sessions, NEW i \in Edits, NEW r \in BOOLEAN, NEW c, c = OpenOf(s, i, r)
    PROVE  IsOpen(c, s, r)
<1> DEFINE b == Command(s, "open", "", 0)
<1>1. /\ b.op = "open" /\ b.then = "" /\ b.edit = 0 /\ b.epoch = s.epoch
      /\ ~b.dirty /\ b.code = IF s.connected THEN "" ELSE "unavailable"
  BY DEF Command
<1>2. b \in Commands
  <2>1. s.epoch \in Nat /\ Unknown \in Edits
    BY UnknownIsOne DEF Sessions
  <2>2. (IF s.connected THEN "" ELSE "unavailable") \in {"", "unavailable"}
    OBVIOUS
  <2> QED BY <2>1, <2>2 DEF Command, Commands
<1> HIDE DEF b
<1>3. c = [b EXCEPT !.identity = i, !.recovered = r]
  BY DEF b, OpenOf
<1>4. /\ c \in Commands /\ c.op = b.op /\ c.then = b.then /\ c.edit = b.edit /\ c.epoch = b.epoch
      /\ c.recovered = r /\ c.dirty = b.dirty /\ c.code = b.code
  BY <1>2, <1>3 DEF Commands
<1> QED BY <1>1, <1>4 DEF IsOpen

\* The unpacked database is opened: an open is queued.
QueuesOpen ==
    /\ opener \in Openers /\ opener.phase = "unpacked" /\ opener' = Idle /\ session' = session
    /\ \E c : commands' = Append(commands, c) /\ IsOpen(c, session, opener.recovered)

\* What the end of the unpacking changes.
LEMMA UnpackedDoes ==
    ASSUME WritesInv, Unpacked
    PROVE  \/ QueuesOpen
           \/ /\ opener \in Openers /\ commands' = commands
              /\ \E s : Ended(s, session) /\ Opens(s, Idle)
<1>1. session \in Sessions /\ commands \in Seq(Commands) /\ opener \in Openers \union {Idle}
  BY DEF WritesInv, SessionOK, CommandsOK, PartsOK
<1>2. CASE /\ opener.phase = "unpacked" /\ opener' = Idle /\ session' = session
           /\ commands' = Append(commands, [Command(session, "open", "", 0)
                                              EXCEPT !.identity = opener.identity,
                                                     !.recovered = opener.recovered])
  <2>1. opener \in Openers
    <3>1. Idle.phase # "unpacked"
      BY DEF Idle
    <3> QED BY <1>1, <1>2, <3>1
  <2>2. opener.identity \in Edits /\ opener.recovered \in BOOLEAN
    BY <1>2, <2>1 DEF Openers
  <2> DEFINE c == [Command(session, "open", "", 0) EXCEPT !.identity = opener.identity,
                                                          !.recovered = opener.recovered]
  <2>3. c = OpenOf(session, opener.identity, opener.recovered) /\ commands' = Append(commands, c)
    BY <1>2, Zenon DEF OpenOf
  <2> HIDE DEF c
  <2>4. IsOpen(c, session, opener.recovered)
    <3>1. session \in Sessions /\ opener.identity \in Edits /\ opener.recovered \in BOOLEAN
      BY <1>1, <2>2
    <3>2. c = OpenOf(session, opener.identity, opener.recovered)
      BY <2>3
    <3> QED BY <3>1, <3>2, OpenCommand
  <2> QED BY <1>2, <2>1, <2>3, <2>4 DEF QueuesOpen
<1>3. CASE /\ opener.phase = "failed" /\ commands' = commands
           /\ OpenPending([session EXCEPT !.opening = FALSE], Idle)
  <2> DEFINE s == [session EXCEPT !.opening = FALSE]
  <2>1. Ended(s, session)
    BY <1>1 DEF Ended, Sessions
  <2>2. s \in Sessions /\ OpenPending(s, Idle)
    BY <1>3, <2>1 DEF Ended
  <2> HIDE DEF s
  <2>3. Opens(s, Idle)
    BY <2>2, OpenDoes
  <2>4. opener \in Openers
    <3>1. Idle.phase # "failed"
      BY DEF Idle
    <3> QED BY <1>1, <1>3, <3>1
  <2> QED BY <1>3, <2>1, <2>3, <2>4
<1> QED BY <1>2, <1>3 DEF Unpacked

\* Unpacked keeps the count of pending writes.
LEMMA WritesUnpacked ==
    ASSUME WritesInv, Unpacked
    PROVE  WritesInv'
<1>1. /\ questions' = questions /\ worker' = worker /\ writer' = writer /\ made' = made /\ FilesOK'
      /\ commands \in Seq(Commands)
  BY DEF Unpacked, ghosts, WritesInv, FilesOK, CommandsOK
<1>2. CASE QueuesOpen
  <2>1. PICK c \in Commands : /\ commands' = Append(commands, c) /\ c.op = "open" /\ c.then = ""
                              /\ c.edit = 0
    <3>1. PICK c : commands' = Append(commands, c) /\ IsOpen(c, session, opener.recovered)
      BY <1>2 DEF QueuesOpen
    <3> QED BY <3>1, Zenon DEF IsOpen
  <2>2. /\ commands' \in Seq(Commands)
        /\ DOMAIN commands' = DOMAIN commands \union {Len(commands) + 1}
        /\ \A n \in DOMAIN commands : commands'[n] = commands[n]
        /\ commands'[Len(commands) + 1] = c
        /\ Cardinality(Writes(commands')) = Cardinality(Writes(commands))
    <3>0. commands \in Seq(Commands) /\ c.op = "open" /\ commands' = Append(commands, c)
      BY <1>1, <2>1
    <3>4. Cardinality(Writes(commands)) \in Nat
      BY <3>0, WritesFinite
    <3>1. /\ Append(commands, c) \in Seq(Commands)
          /\ DOMAIN Append(commands, c) = DOMAIN commands \union {Len(commands) + 1}
          /\ \A n \in DOMAIN commands : Append(commands, c)[n] = commands[n]
          /\ Append(commands, c)[Len(commands) + 1] = c
      BY <3>0, WritesAppend
    <3>2. Cardinality(Writes(Append(commands, c))) =
              Cardinality(Writes(commands)) + IF c.op = "open" THEN 0 ELSE 1
      BY <3>0, WritesAppend
    <3>3. Cardinality(Writes(Append(commands, c))) = Cardinality(Writes(commands))
      BY <3>0, <3>2, <3>4
    <3> QED BY <3>0, <3>1, <3>3
  <2>3. SessionOK' /\ CommandsOK' /\ PartsOK' /\ Asking' /\ Staged'
    BY <1>1, <1>2, <2>2 DEF WritesInv, SessionOK, CommandsOK, PartsOK, Asking, Staged, QueuesOpen
  <2>4. Purposes'
    BY <1>1, <2>1, <2>2 DEF WritesInv, Purposes
  <2>6. Counted'
    <3>1. session' = session /\ CountedAs(session, commands)
      BY <1>2 DEF WritesInv, Counted, QueuesOpen
    <3> QED BY <2>2, <3>1 DEF Counted, CountedAs
  <2>7. Writing'
    BY <1>1, <1>2, WritingKept DEF WritesInv, QueuesOpen
  <2> QED BY <1>1, <2>3, <2>4, <2>6, <2>7 DEF WritesInv
<1>3. CASE commands' = commands /\ \E s : Ended(s, session) /\ Opens(s, Idle)
  <2>1. PICK s : Ended(s, session) /\ Opens(s, Idle)
    BY <1>3
  <2>2. SessionOK' /\ CommandsOK' /\ PartsOK' /\ Asking' /\ Staged' /\ Purposes'
    BY <1>1, <1>3, <2>1 DEF WritesInv, SessionOK, CommandsOK, PartsOK, Asking, Staged, Purposes, Opens
  <2>3. Counted' /\ Writing'
    BY <1>1, <1>3, <2>1, CountedKept, WritingKept DEF WritesInv, Opens, Ended
  <2> QED BY <1>1, <2>2, <2>3 DEF WritesInv
<1> QED BY <1>2, <1>3, UnpackedDoes

\* A write goes on: what it was given stays.
Advances ==
    /\ writer \in Writers /\ writer' \in Writers /\ writer # Idle /\ writer' # Idle
    /\ writer'.path = writer.path /\ writer'.replace = writer.replace
    /\ writer'.opened = writer.opened /\ writer'.expects = writer.expects

\* A write looks at the database first.
LEMMA WriterChecksDoes ==
    ASSUME WritesInv, WriterChecks
    PROVE  /\ Advances /\ writer.phase = "check" /\ writer.code = ""
           /\ \/ writer.expects /\ writer'.phase = "done" /\ writer'.code = "changed"
              \/ writer'.phase = "save" /\ writer'.code = ""
<1>1. writer \in Writers /\ writer.phase = "check"
  <2>1. Idle.phase # "check"
    BY DEF Idle
  <2> QED BY <2>1 DEF WritesInv, PartsOK, WriterChecks
<1>2. writer # Idle
  BY <1>1, IdleIsNone
<1>3. writer.code = ""
  BY <1>1, <1>2 DEF WritesInv, Writing, WritingAs
<1>4. CASE writer.expects /\ writer' = [writer EXCEPT !.phase = "done", !.code = "changed"]
  <2>1. writer' \in Writers
    BY <1>1, <1>4 DEF Writers
  <2>2. /\ writer'.path = writer.path /\ writer'.replace = writer.replace
        /\ writer'.opened = writer.opened /\ writer'.expects = writer.expects
        /\ writer'.phase = "done" /\ writer'.code = "changed"
    BY <1>1, <1>4 DEF Writers
  <2> QED BY <1>1, <1>2, <1>3, <1>4, <2>1, <2>2, IdleIsNone DEF Advances
<1>5. CASE writer' = [writer EXCEPT !.phase = "save"]
  <2>1. writer' \in Writers
    BY <1>1, <1>5 DEF Writers
  <2>2. /\ writer'.path = writer.path /\ writer'.replace = writer.replace
        /\ writer'.opened = writer.opened /\ writer'.expects = writer.expects
        /\ writer'.phase = "save" /\ writer'.code = writer.code
    BY <1>1, <1>5 DEF Writers
  <2> QED BY <1>1, <1>2, <1>3, <2>1, <2>2, IdleIsNone DEF Advances
<1> QED BY <1>4, <1>5 DEF WriterChecks

\* WriterChecks keeps the count of pending writes.
LEMMA WritesWriterChecks ==
    ASSUME WritesInv, WriterChecks
    PROVE  WritesInv'
<1>1. /\ session' = session /\ questions' = questions /\ commands' = commands
      /\ worker' = worker /\ opener' = opener /\ made' = made /\ FilesOK'
  BY DEF WriterChecks, ghosts, WritesInv, FilesOK
<1>2. SessionOK' /\ CommandsOK' /\ Purposes' /\ Staged'
  BY <1>1 DEF WritesInv, SessionOK, CommandsOK, Purposes, Staged
<1>3. Counted'
  BY <1>1, CountedKept DEF WritesInv
<1>4. PartsOK' /\ Asking'
  <2>1. /\ writer' \in Writers /\ writer # Idle /\ writer' # Idle /\ writer.phase = "check"
        /\ writer'.phase \in {"save", "done"}
    BY WriterChecksDoes DEF Advances
  <2> QED BY <1>1, <2>1 DEF WritesInv, PartsOK, Asking
<1>5. Writing'
  <2>1. /\ writer # Idle /\ writer' # Idle /\ writer'.path = writer.path
        /\ writer'.replace = writer.replace
        /\ writer'.opened = writer.opened /\ writer'.expects = writer.expects
        /\ writer.code = ""
        /\ \/ writer'.phase = "save" /\ writer'.code = ""
           \/ writer.expects /\ writer'.phase = "done" /\ writer'.code = "changed"
    BY WriterChecksDoes DEF Advances
  <2> QED BY <1>1, <2>1 DEF WritesInv, Writing, WritingAs
<1> QED BY <1>1, <1>2, <1>3, <1>4, <1>5 DEF WritesInv

\* A write replaces the database, or fails, or both.
LEMMA WriterSavesDoes ==
    ASSUME WritesInv, WriterSaves
    PROVE  /\ Advances /\ writer.phase = "save" /\ writer.code = ""
           /\ \/ writer'.phase = "read" /\ writer'.code = ""
              \/ writer'.phase = "done" /\ writer'.code = "error"
           /\ recovery' \in Recoveries /\ recovery'.journal = recovery.journal
           /\ \/ database' = files /\ saved' = saved \union files
              \/ UNCHANGED <<database, saved>> /\ ~(writer'.phase = "read" /\ writer'.path = "database")
<1>1. writer \in Writers /\ writer.phase = "save"
  <2>1. Idle.phase # "save"
    BY DEF Idle
  <2> QED BY <2>1 DEF WritesInv, PartsOK, WriterSaves
<1>2. writer # Idle
  BY <1>1, IdleIsNone
<1>3. writer.code = ""
  BY <1>1, <1>2 DEF WritesInv, Writing, WritingAs
<1>4. recovery' \in Recoveries /\ recovery'.journal = recovery.journal
  <2>1. recovery' = recovery \/ recovery' = [recovery EXCEPT !.marker = Unknown]
    BY DEF WriterSaves
  <2>2. recovery \in Recoveries /\ Unknown \in Edits
    BY UnknownIsOne DEF WritesInv, FilesOK
  <2> QED BY <2>1, <2>2 DEF Recoveries
<1>5. CASE writer' = [writer EXCEPT !.phase = "read"]
  <2>1. writer' \in Writers
    BY <1>1, <1>5 DEF Writers
  <2>2. /\ writer'.path = writer.path /\ writer'.replace = writer.replace
        /\ writer'.opened = writer.opened /\ writer'.expects = writer.expects
        /\ writer'.phase = "read" /\ writer'.code = writer.code
    BY <1>1, <1>5 DEF Writers
  <2>3. writer' # [writer EXCEPT !.phase = "done", !.code = "error"]
    BY <1>1, <2>2 DEF Writers
  <2>4. \/ database' = files /\ saved' = saved \union files
        \/ UNCHANGED <<database, saved>> /\ writer.path # "database"
    BY <2>3 DEF WriterSaves
  <2> QED BY <1>1, <1>2, <1>3, <1>4, <2>1, <2>2, <2>4, IdleIsNone DEF Advances
<1>6. CASE writer' = [writer EXCEPT !.phase = "done", !.code = "error"]
  <2>1. writer' \in Writers
    BY <1>1, <1>6 DEF Writers
  <2>2. /\ writer'.path = writer.path /\ writer'.replace = writer.replace
        /\ writer'.opened = writer.opened /\ writer'.expects = writer.expects
        /\ writer'.phase = "done" /\ writer'.code = "error"
    BY <1>1, <1>6 DEF Writers
  <2>3. \/ database' = files /\ saved' = saved \union files
        \/ UNCHANGED <<database, saved>>
    BY DEF WriterSaves
  <2> QED BY <1>1, <1>2, <1>3, <1>4, <2>1, <2>2, <2>3, IdleIsNone DEF Advances
<1> QED BY <1>5, <1>6 DEF WriterSaves

\* WriterSaves keeps the count of pending writes.
LEMMA WritesWriterSaves ==
    ASSUME WritesInv, WriterSaves
    PROVE  WritesInv'
<1>1. /\ session' = session /\ questions' = questions /\ commands' = commands
      /\ worker' = worker /\ opener' = opener /\ made' = made /\ files' = files
      /\ acked' = acked /\ given' = given
  BY DEF WriterSaves
<1>2. SessionOK' /\ CommandsOK' /\ Purposes' /\ Staged'
  BY <1>1 DEF WritesInv, SessionOK, CommandsOK, Purposes, Staged
<1>3. Counted'
  BY <1>1, CountedKept DEF WritesInv
<1>4. PartsOK' /\ Asking'
  <2>1. /\ writer' \in Writers /\ writer # Idle /\ writer' # Idle /\ writer.phase = "save"
        /\ writer'.phase \in {"read", "done"}
    BY WriterSavesDoes DEF Advances
  <2> QED BY <1>1, <2>1 DEF WritesInv, PartsOK, Asking
<1>5. Writing'
  <2>1. /\ writer # Idle /\ writer' # Idle /\ writer'.path = writer.path
        /\ writer'.replace = writer.replace
        /\ writer'.opened = writer.opened /\ writer'.expects = writer.expects
        /\ \/ writer'.phase = "read" /\ writer'.code = ""
           \/ writer'.phase = "done" /\ writer'.code = "error"
    BY WriterSavesDoes DEF Advances
  <2> QED BY <1>1, <2>1 DEF WritesInv, Writing, WritingAs
<1>6. FilesOK'
  <2>1. /\ database' \subseteq 1..made /\ saved' \subseteq 1..made
        /\ recovery' \in Recoveries /\ recovery'.journal \subseteq 1..made
    BY WriterSavesDoes DEF WritesInv, FilesOK
  <2> QED BY <1>1, <2>1 DEF WritesInv, FilesOK
<1> QED BY <1>1, <1>2, <1>3, <1>4, <1>5, <1>6 DEF WritesInv

\* What was written is read.
LEMMA WriterReadsDoes ==
    ASSUME WritesInv, WriterReads
    PROVE  /\ Advances /\ writer.phase = "read" /\ writer.code = ""
           /\ writer'.phase = "done" /\ writer'.code = "ok"
<1>1. writer \in Writers /\ writer.phase = "read"
  <2>1. Idle.phase # "read"
    BY DEF Idle
  <2> QED BY <2>1 DEF WritesInv, PartsOK, WriterReads
<1>2. writer # Idle
  BY <1>1, IdleIsNone
<1>3. writer.code = ""
  BY <1>1, <1>2 DEF WritesInv, Writing, WritingAs
<1>4. PICK i \in Edits : writer' = [writer EXCEPT !.phase = "done", !.code = "ok", !.identity = i]
  <2>1. database \in Edits /\ Unknown \in Edits
    BY UnknownIsOne DEF WritesInv, FilesOK, Edits
  <2> QED BY <2>1 DEF WriterReads
<1>5. writer' \in Writers
  BY <1>1, <1>4 DEF Writers
<1>6. /\ writer'.path = writer.path /\ writer'.replace = writer.replace
      /\ writer'.opened = writer.opened /\ writer'.expects = writer.expects
      /\ writer'.phase = "done" /\ writer'.code = "ok"
  BY <1>1, <1>4 DEF Writers
<1> QED BY <1>1, <1>2, <1>3, <1>5, <1>6, IdleIsNone DEF Advances

\* WriterReads keeps the count of pending writes.
LEMMA WritesWriterReads ==
    ASSUME WritesInv, WriterReads
    PROVE  WritesInv'
<1>1. /\ session' = session /\ questions' = questions /\ commands' = commands
      /\ worker' = worker /\ opener' = opener /\ made' = made /\ FilesOK'
  BY DEF WriterReads, ghosts, WritesInv, FilesOK
<1>2. SessionOK' /\ CommandsOK' /\ Purposes' /\ Staged'
  BY <1>1 DEF WritesInv, SessionOK, CommandsOK, Purposes, Staged
<1>3. Counted'
  BY <1>1, CountedKept DEF WritesInv
<1>4. PartsOK' /\ Asking'
  <2>1. /\ writer' \in Writers /\ writer # Idle /\ writer' # Idle /\ writer.phase = "read"
        /\ writer'.phase = "done"
    BY WriterReadsDoes DEF Advances
  <2> QED BY <1>1, <2>1 DEF WritesInv, PartsOK, Asking
<1>5. Writing'
  <2>1. /\ writer # Idle /\ writer' # Idle /\ writer'.path = writer.path
        /\ writer'.replace = writer.replace
        /\ writer'.opened = writer.opened /\ writer'.expects = writer.expects
        /\ writer'.phase = "done" /\ writer'.code = "ok"
    BY WriterReadsDoes DEF Advances
  <2> QED BY <1>1, <2>1 DEF WritesInv, Writing, WritingAs
<1> QED BY <1>1, <1>2, <1>3, <1>4, <1>5 DEF WritesInv

\* The end of a write takes it off the count, unless the one that waited starts.
LEMMA EndingCounts ==
    ASSUME WritesInv, writer # Idle, writer.code \in {"ok", "error"}, NEW s, Ending(s)
    PROVE  CountedAs(s, commands) /\ WritingAs(s, writer') /\ writer' \in Writers \union {Idle}
<1> DEFINE k == Cardinality(Writes(commands))
<1>1. k \in Nat
  BY WritesFinite DEF WritesInv, CommandsOK
<1>2. session.writing
  BY DEF WritesInv, Writing, WritingAs
<1>3. session.pendingWrites = k + 1
  BY <1>1, <1>2 DEF WritesInv, Counted, CountedAs
<1>4. s.waiting = Nothing /\ Nothing.path # "database" /\ s.opened = session.opened
  BY DEF Ending, Situated, Nothing
<1>5. CASE writer.code = "ok" /\ session.waiting # Nothing
  <2>1. /\ s.pendingWrites = session.pendingWrites /\ s.writing
        /\ Begun(writer', s, session.waiting.path, session.waiting.replace)
    BY <1>5 DEF Ending
  <2>2. session.waiting.path = "database" => s.opened
    BY <1>4 DEF WritesInv, Writing, WritingAs
  <2>3. WritingAs(s, writer')
    BY <1>4, <2>1, <2>2 DEF WritingAs, Begun
  <2>4. CountedAs(s, commands)
    BY <1>1, <1>3, <2>1 DEF CountedAs
  <2> QED BY <2>1, <2>3, <2>4 DEF Begun
<1>6. CASE ~(writer.code = "ok" /\ session.waiting # Nothing)
  <2>1. s.pendingWrites = session.pendingWrites - 1 /\ ~s.writing /\ writer' = Idle
    BY <1>6 DEF Ending
  <2>2. WritingAs(s, writer')
    BY <1>4, <2>1 DEF WritingAs
  <2>3. CountedAs(s, commands)
    BY <1>1, <1>3, <2>1 DEF CountedAs
  <2> QED BY <2>1, <2>2, <2>3
<1> QED BY <1>5, <1>6

\* A question is put on top of the other.
LEMMA AsksAlso ==
    ASSUME questions \in {<<>>, <<"transition">>}
    PROVE  Append(questions, "conflict") \in {<<"conflict">>, <<"transition", "conflict">>}
<1>1. CASE questions = <<>>
  BY <1>1
<1>2. CASE questions = <<"transition">>
  <2> DEFINE q == Append(questions, "conflict")
             t == <<"transition", "conflict">>
  <2>1. questions \in Seq({"transition", "conflict"}) /\ Len(questions) = 1
        /\ questions[1] = "transition"
    BY <1>2
  <2>2. q \in Seq({"transition", "conflict"}) /\ Len(q) = 2 /\ q[1] = "transition"
        /\ q[2] = "conflict"
    <3> DEFINE S == {"transition", "conflict"}
    <3>1. questions \in Seq(S) /\ "conflict" \in S
      BY <2>1
    <3> HIDE DEF S
    <3>2. q \in Seq(S) /\ Len(q) = Len(questions) + 1 /\ q[Len(questions) + 1] = "conflict"
          /\ \A i \in 1..Len(questions) : q[i] = questions[i]
      BY <3>1
    <3> QED BY <2>1, <3>2 DEF S
  <2>3. t \in Seq({"transition", "conflict"}) /\ Len(t) = 2 /\ t[1] = "transition"
        /\ t[2] = "conflict"
    OBVIOUS
  <2> HIDE DEF q, t
  <2>4. \A i \in 1..Len(q) : q[i] = t[i]
    BY <2>2, <2>3
  <2>5. q = t
    BY <2>2, <2>3, <2>4, SeqEqual
  <2> QED BY <2>5 DEF q, t
<1> QED BY <1>1, <1>2

\* The watcher of a write asks about it.
LEMMA AsksDoes ==
    ASSUME WritesInv, writer.phase = "done", writer' = [writer EXCEPT !.phase = "asking"]
    PROVE  Advances /\ writer'.phase = "asking" /\ writer'.code = writer.code
<1>1. writer \in Writers
  <2>1. Idle.phase # "done"
    BY DEF Idle
  <2> QED BY <2>1 DEF WritesInv, PartsOK
<1>2. writer' \in Writers
  BY <1>1 DEF Writers
<1>3. /\ writer'.path = writer.path /\ writer'.replace = writer.replace
      /\ writer'.opened = writer.opened /\ writer'.expects = writer.expects
      /\ writer'.phase = "asking" /\ writer'.code = writer.code
  BY <1>1 DEF Writers
<1> QED BY <1>1, <1>2, <1>3, IdleIsNone DEF Advances

\* The end of a write.
LEMMA WriterAtEnd ==
    ASSUME WritesInv, WriterEnds
    PROVE  /\ writer \in Writers /\ writer # Idle /\ writer.phase = "done" /\ session.writing
           /\ session.pendingWrites > 0
<1>1. writer \in Writers /\ writer # Idle /\ writer.phase = "done"
  <2>1. Idle.phase # "done"
    BY DEF Idle
  <2> QED BY <2>1 DEF WritesInv, PartsOK, WriterEnds
<1>2. session.writing
  BY <1>1 DEF WritesInv, Writing, WritingAs
<1> QED BY <1>1, <1>2, PendingIsCounted

\* WriterEnds keeps the count of pending writes.
LEMMA WritesWriterEnds ==
    ASSUME WritesInv, WriterEnds
    PROVE  WritesInv'
<1>1. /\ opener' = opener /\ files' = files /\ database' = database /\ made' = made
      /\ acked' = acked /\ saved' = saved /\ given' = given /\ recovery' = recovery
      /\ session \in Sessions /\ commands \in Seq(Commands) /\ worker \in Workers
  BY DEF WriterEnds, WritesInv, SessionOK, CommandsOK, PartsOK
<1>2. /\ writer \in Writers /\ writer # Idle /\ writer.phase = "done" /\ session.pendingWrites > 0
  BY WriterAtEnd
<1>3. questions \in {<<>>, <<"transition">>}
  BY <1>2 DEF WritesInv, Asking
<1>4. CASE /\ writer.code = "changed" /\ questions' = Append(questions, "conflict")
           /\ writer' = [writer EXCEPT !.phase = "asking"]
           /\ UNCHANGED <<session, commands, worker>>
  <2>1. Advances /\ writer'.phase = "asking" /\ writer'.code = "changed"
    BY <1>2, <1>4, AsksDoes
  <2>2. SessionOK' /\ CommandsOK' /\ PartsOK' /\ Purposes' /\ Staged' /\ FilesOK'
    BY <1>1, <1>4, <2>1 DEF WritesInv, SessionOK, CommandsOK, PartsOK, Purposes, Staged, FilesOK,
                            Advances
  <2>3. Counted'
    BY <1>4, CountedKept DEF WritesInv
  <2>4. Asking'
    <3>1. questions' \in {<<"conflict">>, <<"transition", "conflict">>}
      BY <1>3, <1>4, AsksAlso
    <3> QED BY <2>1, <3>1 DEF Asking, Advances
  <2>5. Writing'
    <3>1. session' = session /\ writer.code = "changed"
      BY <1>4
    <3> QED BY <1>2, <2>1, <3>1 DEF WritesInv, Writing, WritingAs, Advances
  <2> QED BY <2>2, <2>3, <2>4, <2>5 DEF WritesInv
<1>5. CASE /\ writer.code \in {"ok", "error"} /\ questions' = questions
           /\ \E t : /\ Ending(t) /\ Finishes(t, commands)
  <2>1. PICK s : /\ Ending(s) /\ Finishes(s, commands)
    BY <1>5
  <2>2. s \in Sessions
    BY <2>1 DEF Ending
  <2>3. CountedAs(s, commands) /\ WritingAs(s, writer') /\ writer' \in Writers \union {Idle}
    BY <1>2, <1>5, <2>1, EndingCounts
  <2>4. Follows(s, commands)
    BY <1>1, <2>1, <2>2, FinishKeeps
  <2>5. PurposesOf(commands)
    BY DEF WritesInv, Purposes, PurposesOf
  <2>6. /\ SessionOK' /\ CommandsOK' /\ PartsOK' /\ Purposes' /\ Staged' /\ Counted' /\ Writing'
    BY <1>1, <2>2, <2>3, <2>4, <2>5, FollowsWrites
  <2>7. FilesOK'
    BY <1>1 DEF WritesInv, FilesOK
  <2>8. Asking'
    <3>1. writer' = Idle \/ writer'.phase = "check"
      BY <2>1 DEF Ending, Begun
    <3> QED BY <1>3, <1>5, <3>1 DEF Asking
  <2> QED BY <2>6, <2>7, <2>8 DEF WritesInv
<1> QED BY <1>2, <1>4, <1>5, WriterEndsDoes DEF WritesInv

\* Another workbench writes the database.
LEMMA WritesAnotherWrites ==
    ASSUME WritesInv, AnotherWrites
    PROVE  WritesInv'
<1>1. made \in Nat /\ made' = made + 1
  BY DEF WritesInv, FilesOK, AnotherWrites
<1>2. made' \in Nat /\ made' \in 1..made' /\ 1..made \subseteq 1..made'
  BY <1>1, Numbers
<1>3. SessionOK' /\ CommandsOK' /\ PartsOK' /\ Asking'
  BY DEF WritesInv, SessionOK, CommandsOK, PartsOK, Asking, AnotherWrites
<1>4. Purposes' /\ Staged'
  BY <1>2 DEF WritesInv, Purposes, Staged, AnotherWrites
<1>5. Counted' /\ Writing'
  BY CountedKept, WritingKept DEF WritesInv, AnotherWrites
<1>6. FilesOK'
  BY <1>1, <1>2 DEF WritesInv, FilesOK, AnotherWrites
<1> QED BY <1>3, <1>4, <1>5, <1>6 DEF WritesInv

\* It holds at first.
LEMMA WritesInit ==
    ASSUME Init
    PROVE  WritesInv
<1>0. commands = <<>> /\ questions = <<>> /\ writer = Idle /\ made = 0 /\ worker.staged = {}
  BY DEF Init
<1>1. Writes(commands) = {}
  BY <1>0 DEF Writes
<1>2. Cardinality(Writes(commands)) = 0
  BY <1>1, FS_EmptySet
<1>9. session.pendingWrites = 0 /\ ~session.writing
  BY DEF Init
<1>3. Counted
  BY <1>2, <1>9 DEF Counted, CountedAs
<1>4. SessionOK
  BY DEF SessionOK, Sessions, Init, Edits, Nothing
<1>5. CommandsOK /\ Purposes /\ Staged /\ Asking
  BY <1>0 DEF CommandsOK, Purposes, Staged, Asking
<1>6. PartsOK
  BY DEF PartsOK, Workers, Edits, Init
<1>7. FilesOK
  BY UnknownIsOne DEF FilesOK, Init, Recoveries, Edits
<1>8. Writing
  BY DEF Writing, WritingAs, Init, Nothing
<1> QED BY <1>3, <1>4, <1>5, <1>6, <1>7, <1>8 DEF WritesInv

\* Every step keeps it.
LEMMA WritesStep ==
    ASSUME WritesInv, [Next]_vars
    PROVE  WritesInv'
<1>1. CASE User
  <2>1. CASE \E op \in {"note", "edit"} : MakesEdit(op)
    BY <2>1, WritesMakesEdit
  <2>2. CASE \E action \in Actions : Leaves(action)
    BY <2>2, WritesLeaves
  <2> QED BY <1>1, <2>1, <2>2, WritesSaves, WritesPacks, WritesBookmarks DEF User
<1>2. CASE UserAnswers
  <2>1. CASE \E choice \in {"save", "discard", "cancel"} : AnswersTransition(choice)
    BY <2>1, WritesAnswersTransition
  <2>2. CASE \E replace \in BOOLEAN : AnswersConflict(replace)
    BY <2>2, WritesAnswersConflict
  <2> QED BY <1>2, <2>1, <2>2 DEF UserAnswers
<1>3. CASE EventLoop
  BY <1>3, WritesHearsStopped, WritesHearsHello, WritesCompletes, WritesCompletesOpen,
     WritesUnpacked, WritesWriterEnds DEF EventLoop
<1>4. CASE Threads
  BY <1>4, WritesUnpacks, WritesOpenerReads, WritesWriterChecks, WritesWriterSaves,
     WritesWriterReads DEF Threads
<1>5. CASE WorkerRuns \/ Exits \/ AnotherWrites
  BY <1>5, WritesWorkerRuns, WritesExits, WritesAnotherWrites
<1>6. CASE UNCHANGED vars
  BY <1>6 DEF vars, ghosts, WritesInv, SessionOK, CommandsOK, PartsOK, FilesOK, Purposes, Staged,
              Counted, Writing, Asking
<1> QED BY <1>1, <1>2, <1>3, <1>4, <1>5, <1>6 DEF Next

\* The inductive invariant of the count.
THEOREM WritesInvariant == Spec => []WritesInv
<1>1. Init => WritesInv
  BY WritesInit
<1>2. WritesInv /\ [Next]_vars => WritesInv'
  BY WritesStep
<1> QED BY <1>1, <1>2, PTL DEF Spec

\* Session::pendingWrites_ counts the edits and saves without an answer and
\* the write that runs, whatever fails, stops or is retired.
THEOREM PendingWritesExactHolds == Spec => []PendingWritesExact
<1>1. WritesInv => PendingWritesExact
  BY DEF WritesInv, Counted, CountedAs, Writes, PendingWritesExact
<1> QED BY <1>1, WritesInvariant, PTL

-----------------------------------------------------------------------------
(* A clean session has nothing to ask about.                               *)

\* A command of this epoch that is not over.
Live(c) == c.code \in {"", "ok", "failed"}
Edit(c) == c.op \in {"note", "edit"}

\* The session, the worker and the thread that unpacks know of each other.
Linked(s, w, o) ==
    /\ s.connected <=> w.process \in {"up", "gone"}
    /\ s.starting <=> w.process = "starting"
    /\ s.opening => s.connected
    /\ s.loaded => s.opened /\ s.connected
    /\ o # Idle => s.opening \/ ~s.connected
    /\ w.process # "up" => w.staged = {}
    /\ w.staged # {} => s.loaded

\* Only the first command is answered, only an open waits while one is under
\* way, and edits are of the project shown.
Queued(s, q, o) ==
    \A n \in DOMAIN q :
        /\ Live(q[n]) => q[n].epoch = s.epoch /\ s.connected
        /\ Live(q[n]) /\ Edit(q[n]) => s.loaded /\ ~s.opening
        /\ n # 1 => q[n].code \notin {"ok", "failed"}
        /\ q[n].op = "open" /\ s.connected =>
              /\ Live(q[n]) /\ s.opening /\ o = Idle
              /\ \A m \in DOMAIN q : q[m].op = "open" => m = n

\* What an answer says of the worker is still so when it is heard.
Told(q, w, j) ==
    \A n \in DOMAIN q : q[n].code = "ok" =>
        /\ q[n].op \in {"save", "open"} \/ ~q[n].dirty => w.staged = {}
        /\ q[n].op # "note" => j = {}
        /\ q[n].op = "note" => q[n].dirty

\* An edit under way is none that the user was told of.
Numbered(q, a) ==
    \A n \in DOMAIN q : Edit(q[n]) /\ q[n].code = "" =>
        q[n].edit \notin a /\ \A m \in DOMAIN q : Edit(q[m]) /\ q[m].edit = q[n].edit => m = n

\* An answer that will mark the project is on its way.
Pending(q) == \E n \in DOMAIN q : q[n].code = "ok" /\ q[n].op # "open"
\* The files are those of the database, for an open.
Replaced(o, q) ==
    \/ o.phase \in {"read", "unpacked"} /\ ~o.recovered
    \/ \E n \in DOMAIN q : q[n].op = "open" /\ Live(q[n]) /\ ~q[n].recovered
\* The database was written, and the session is to hear of it.
Written(wr) == wr.phase \in {"read", "done"} /\ wr.code \in {"", "ok"} /\ wr.path = "database"
ToDatabase(s, wr) == (wr # Idle /\ wr.path = "database") \/ s.waiting.path = "database"

\* A write during an open follows a save, which left nothing to commit.
Opening(s, w, wr, f, j, sv) ==
    /\ w.process = "starting" => ~s.writing
    /\ s.opening /\ ToDatabase(s, wr) => w.staged = {} /\ j = {}
    /\ s.opening /\ Written(wr) /\ ~s.marked => f \subseteq sv

\* What the user would miss is flagged, or is about to be.
Flagged(s, q, w, o, wr, f, j, due) ==
    /\ w.staged \intersect due # {} => s.dirty \/ Pending(q)
    /\ s.loaded /\ j \intersect due # {} => s.dirty \/ Pending(q)
    /\ s.loaded /\ f \intersect due # {} => s.dirty \/ s.databaseDirty \/ Pending(q)
    /\ s.loaded /\ Written(wr) /\ ~s.marked => f \intersect due = {} \/ s.dirty \/ Pending(q)
    /\ s.opening => w.staged \intersect due = {}
    /\ s.connected /\ Replaced(o, q) => (f \union j) \intersect due = {}

Orderly ==
    /\ Linked(session, worker, opener) /\ Queued(session, commands, opener)
    /\ Told(commands, worker, recovery.journal) /\ Numbered(commands, acked)
    /\ database \subseteq saved
    /\ Opening(session, worker, writer, files, recovery.journal, saved)
    /\ Flagged(session, commands, worker, opener, writer, files, recovery.journal, Due)

\* Why a clean session has nothing to ask about, until it quits.
CleanInv == session.quit \/ Orderly

\* The queue p is q, or what follows its first command; or it holds those
\* commands answered.
Shifted(p, q, k) ==
    \A n \in DOMAIN p :
        /\ n \in Nat \ {0} /\ n + k \in DOMAIN q
        /\ p[n].op = q[n + k].op /\ p[n].edit = q[n + k].edit
        /\ p[n] = q[n + k] \/ p[n].code = "stopped"
Derived(p, q) == \E k \in {0, 1} : Shifted(p, q, k)
Within(p, q) ==
    \E k \in {0, 1} :
        \A n \in DOMAIN p : n \in Nat \ {0} /\ n + k \in DOMAIN q /\ p[n] = q[n + k]
Dead(q) == \A n \in DOMAIN q : ~Live(q[n])

\* A queue is within itself.
LEMMA WithinItself ==
    ASSUME NEW q \in Seq(Commands)
    PROVE  Within(q, q) /\ Derived(q, q)
<1>1. \A n \in DOMAIN q : n \in Nat \ {0} /\ n + 0 = n
  BY LenProperties
<1>2. Within(q, q)
  <2>1. \A n \in DOMAIN q : n \in Nat \ {0} /\ n + 0 \in DOMAIN q /\ q[n] = q[n + 0]
    BY <1>1
  <2> QED BY <2>1 DEF Within
<1>3. Shifted(q, q, 0)
  BY <1>1 DEF Shifted
<1> QED BY <1>2, <1>3 DEF Derived

\* What follows the first command is within the queue.
LEMMA WithinTail ==
    ASSUME NEW q \in Seq(Commands), q # <<>>
    PROVE  Within(Tail(q), q) /\ Derived(Tail(q), q)
<1>1. \A n \in DOMAIN Tail(q) : n \in Nat \ {0} /\ n + 1 \in DOMAIN q /\ Tail(q)[n] = q[n + 1]
  BY WritesTail, LenProperties
<1>2. Shifted(Tail(q), q, 1)
  BY <1>1 DEF Shifted
<1> QED BY <1>1, <1>2 DEF Within, Derived

\* Commands retired are over.
LEMMA RetiredDerived ==
    ASSUME NEW q \in Seq(Commands), NEW p \in Seq(Commands), Derived(q, p)
    PROVE  Derived(Retired(q), p) /\ Dead(Retired(q))
<1>1. PICK k \in {0, 1} : Shifted(q, p, k)
  BY DEF Derived
<1>2. /\ DOMAIN Retired(q) = DOMAIN q
      /\ \A n \in DOMAIN q : /\ Retired(q)[n].code = "stopped" /\ Retired(q)[n].op = q[n].op
                             /\ Retired(q)[n].edit = q[n].edit
  BY RetiredKeeps
<1>3. Shifted(Retired(q), p, k)
  BY <1>1, <1>2 DEF Shifted
<1>4. Dead(Retired(q))
  BY <1>2 DEF Dead, Live
<1> QED BY <1>3, <1>4 DEF Derived

\* The session is linked as it was.
LEMMA LinkedSame ==
    ASSUME NEW s, NEW t, NEW w, NEW o, Linked(s, w, o), Situated(t, s)
    PROVE  Linked(t, w, o)
  BY DEF Linked, Situated

\* The commands left are queued as they were.
LEMMA QueuedWithin ==
    ASSUME NEW s, NEW t, NEW q, NEW p, NEW o, Queued(s, q, o), Within(p, q), Situated(t, s)
    PROVE  Queued(t, p, o)
<1>1. PICK k \in {0, 1} :
          \A n \in DOMAIN p : n \in Nat \ {0} /\ n + k \in DOMAIN q /\ p[n] = q[n + k]
  BY DEF Within
<1>2. \A n \in DOMAIN p : n # 1 => n + k # 1
  BY <1>1
<1>3. \A n, m \in DOMAIN p : n + k = m + k => m = n
  BY <1>1
<1> SUFFICES ASSUME NEW n \in DOMAIN p
             PROVE  /\ Live(p[n]) => p[n].epoch = t.epoch /\ t.connected
                    /\ Live(p[n]) /\ Edit(p[n]) => t.loaded /\ ~t.opening
                    /\ n # 1 => p[n].code \notin {"ok", "failed"}
                    /\ p[n].op = "open" /\ t.connected =>
                          /\ Live(p[n]) /\ t.opening /\ o = Idle
                          /\ \A m \in DOMAIN p : p[m].op = "open" => m = n
  BY DEF Queued
<1>4. n + k \in DOMAIN q /\ p[n] = q[n + k]
  BY <1>1
<1>5. /\ Live(p[n]) => p[n].epoch = t.epoch /\ t.connected
      /\ Live(p[n]) /\ Edit(p[n]) => t.loaded /\ ~t.opening
  BY <1>4 DEF Queued, Situated
<1>6. n # 1 => p[n].code \notin {"ok", "failed"}
  BY <1>2, <1>4 DEF Queued
<1>7. ASSUME p[n].op = "open", t.connected
      PROVE  Live(p[n]) /\ t.opening /\ o = Idle
  BY <1>4, <1>7 DEF Queued, Situated
<1>8. ASSUME p[n].op = "open", t.connected, NEW m \in DOMAIN p, p[m].op = "open"
      PROVE  m = n
  <2>1. m + k \in DOMAIN q /\ q[m + k].op = "open"
    BY <1>1, <1>8
  <2>2. m + k = n + k
    BY <1>4, <1>8, <2>1 DEF Queued, Situated
  <2> QED BY <1>3, <2>2
<1> QED BY <1>5, <1>6, <1>7, <1>8

\* So are commands that are over, once no worker is connected.
LEMMA QueuedDead ==
    ASSUME NEW t, NEW p, NEW o, Dead(p), ~t.connected
    PROVE  Queued(t, p, o)
  BY DEF Queued, Dead, Live

\* Without a worker every command is over.
LEMMA QueuedOver ==
    ASSUME NEW s, NEW q, NEW o, Queued(s, q, o), ~s.connected
    PROVE  Dead(q)
  BY DEF Queued, Dead

\* What the answers tell of the worker stays true.
LEMMA ToldDerived ==
    ASSUME NEW q, NEW p, NEW w, NEW j, Told(q, w, j), Derived(p, q)
    PROVE  Told(p, w, j)
<1>1. PICK k \in {0, 1} : Shifted(p, q, k)
  BY DEF Derived
<1> QED BY <1>1 DEF Told, Shifted

\* Commands that are over tell nothing.
LEMMA ToldDead ==
    ASSUME NEW p, NEW w, NEW j, Dead(p)
    PROVE  Told(p, w, j) /\ ~Pending(p)
  BY DEF Told, Dead, Live, Pending

\* Commands that move up together stay apart.
LEMMA ShiftSame == \A k \in {0, 1} : \A i, j \in Nat : i + k = j + k => i = j
  OBVIOUS

\* The edits under way are still each its own.
LEMMA NumberedDerived ==
    ASSUME NEW q, NEW p, NEW a, Numbered(q, a), Derived(p, q)
    PROVE  Numbered(p, a)
<1>1. PICK k \in {0, 1} : Shifted(p, q, k)
  BY DEF Derived
<1>2. ASSUME NEW n \in DOMAIN p, Edit(p[n])
      PROVE  /\ n + k \in DOMAIN q /\ Edit(q[n + k]) /\ q[n + k].edit = p[n].edit /\ n \in Nat
             /\ p[n].code = "" => q[n + k].code = ""
  BY <1>1, <1>2 DEF Shifted, Edit
<1>3. ASSUME NEW n \in DOMAIN p, Edit(p[n]), p[n].code = "", NEW m \in DOMAIN p, Edit(p[m]),
             p[m].edit = p[n].edit
      PROVE  m = n
  <2>1. /\ n + k \in DOMAIN q /\ Edit(q[n + k]) /\ q[n + k].edit = p[n].edit /\ n \in Nat
        /\ q[n + k].code = ""
    BY <1>2, <1>3
  <2>2. m + k \in DOMAIN q /\ Edit(q[m + k]) /\ q[m + k].edit = p[m].edit /\ m \in Nat
    BY <1>2, <1>3
  <2>3. m + k = n + k
    BY <1>3, <2>1, <2>2 DEF Numbered
  <2>4. n \in Nat /\ m \in Nat
    BY <2>1, <2>2
  <2> QED BY <2>3, <2>4, ShiftSame, Zenon
<1>4. ASSUME NEW n \in DOMAIN p, Edit(p[n]), p[n].code = ""
      PROVE  p[n].edit \notin a
  BY <1>2, <1>4 DEF Numbered
<1> QED BY <1>3, <1>4 DEF Numbered

\* The open that waits is still the one that did.
LEMMA ReplacedDerived ==
    ASSUME NEW q, NEW p, NEW o, Derived(p, q), Replaced(o, p)
    PROVE  Replaced(o, q)
<1>1. PICK k \in {0, 1} : Shifted(p, q, k)
  BY DEF Derived
<1>2. \A n \in DOMAIN p : Live(p[n]) => n + k \in DOMAIN q /\ p[n] = q[n + k]
  BY <1>1 DEF Shifted, Live
<1> QED BY <1>2 DEF Replaced

\* The flags stay right while less is due.
LEMMA FlaggedLess ==
    ASSUME NEW s, NEW t, NEW q, NEW p, NEW w, NEW v, NEW o, NEW r, NEW wr, NEW ur,
           NEW f, NEW g, NEW j, NEW k, NEW due, NEW less,
           Flagged(s, q, w, o, wr, f, j, due),
           v.staged \intersect less \subseteq w.staged \intersect due,
           g \intersect less \subseteq f \intersect due,
           k \intersect less \subseteq j \intersect due,
           t.loaded => s.loaded, t.opening => s.opening, t.connected => s.connected,
           s.dirty => t.dirty, s.databaseDirty => t.databaseDirty,
           Written(ur) /\ ~t.marked => Written(wr) /\ ~s.marked,
           Pending(q) => Pending(p), t.connected /\ Replaced(r, p) => Replaced(o, q)
    PROVE  Flagged(t, p, v, r, ur, g, k, less)
<1>1. /\ v.staged \intersect less # {} => w.staged \intersect due # {}
      /\ g \intersect less # {} => f \intersect due # {}
      /\ k \intersect less # {} => j \intersect due # {}
      /\ (f \union j) \intersect due = {} => (g \union k) \intersect less = {}
  BY Zenon
<1>2. v.staged \intersect less # {} => t.dirty \/ Pending(p)
  BY <1>1 DEF Flagged
<1>3. t.loaded /\ k \intersect less # {} => t.dirty \/ Pending(p)
  BY <1>1 DEF Flagged
<1>4. t.loaded /\ g \intersect less # {} => t.dirty \/ t.databaseDirty \/ Pending(p)
  BY <1>1 DEF Flagged
<1>5. t.loaded /\ Written(ur) /\ ~t.marked => g \intersect less = {} \/ t.dirty \/ Pending(p)
  BY <1>1 DEF Flagged
<1>6. t.opening => v.staged \intersect less = {}
  BY <1>1 DEF Flagged
<1>7. t.connected /\ Replaced(r, p) => (g \union k) \intersect less = {}
  BY <1>1 DEF Flagged
<1> QED BY <1>2, <1>3, <1>4, <1>5, <1>6, <1>7 DEF Flagged

\* No flag is needed without a worker.
LEMMA FlaggedNone ==
    ASSUME NEW t, NEW p, NEW v, NEW r, NEW ur, NEW g, NEW k, NEW due,
           ~t.loaded, ~t.opening, ~t.connected, v.staged = {}
    PROVE  Flagged(t, p, v, r, ur, g, k, due)
  BY DEF Flagged

\* A write during an open still follows its save.
LEMMA OpeningLess ==
    ASSUME NEW s, NEW t, NEW w, NEW v, NEW wr, NEW ur, NEW f, NEW g, NEW j, NEW k, NEW sv, NEW su,
           Opening(s, w, wr, f, j, sv), t.opening => s.opening,
           v.process = "starting" => ~t.writing,
           ToDatabase(t, ur) => ToDatabase(s, wr),
           Written(ur) /\ ~t.marked => Written(wr) /\ ~s.marked,
           v.staged \subseteq w.staged, k \subseteq j, g \subseteq f \union sv, sv \subseteq su
    PROVE  Opening(t, v, ur, g, k, su)
<1>1. t.opening /\ ToDatabase(t, ur) => v.staged = {} /\ k = {}
  BY DEF Opening
<1>2. t.opening /\ Written(ur) /\ ~t.marked => g \subseteq su
  BY DEF Opening
<1> QED BY <1>1, <1>2 DEF Opening

\* Where nothing is opened there is no such write.
LEMMA OpeningNone ==
    ASSUME NEW t, NEW v, NEW ur, NEW g, NEW k, NEW su, ~t.opening,
           v.process = "starting" => ~t.writing
    PROVE  Opening(t, v, ur, g, k, su)
  BY DEF Opening

\* With no write counted, none runs.
LEMMA NoneWrites ==
    ASSUME NEW s \in Sessions, NEW queue \in Seq(Commands), NEW wr,
           CountedAs(s, queue), WritingAs(s, wr), s.pendingWrites = 0
    PROVE  ~s.writing /\ wr = Idle /\ s.waiting.path # "database" /\ ~ToDatabase(s, wr)
<1>1. Cardinality(Writes(queue)) \in Nat /\ s.writing \in BOOLEAN
  BY WritesFinite DEF Sessions
<1>2. ~s.writing
  BY <1>1 DEF CountedAs
<1>3. wr = Idle /\ s.waiting = Nothing
  BY <1>2 DEF WritingAs
<1>4. s.waiting.path # "database"
  <2>1. Nothing.path = ""
    BY DEF Nothing
  <2> QED BY <1>3, <2>1
<1> QED BY <1>2, <1>3, <1>4 DEF ToDatabase

\* A request to leave goes on: it quits, has nothing loaded, or starts afresh.
LEMMA GoesOnKept ==
    ASSUME NEW s \in Sessions, NEW queue \in Seq(Commands), GoesOn(s, queue),
           Linked(s, worker, opener), Queued(s, queue, opener),
           Told(queue, worker, recovery.journal), Numbered(queue, acked'), database' \subseteq saved',
           CountedAs(s, queue), WritingAs(s, writer'), s.pendingWrites = 0,
           Opening(s, worker, writer', files, recovery.journal, saved'),
           s.connected /\ Replaced(opener, queue) =>
               (files \union recovery.journal) \intersect Due' = {},
           opener' = opener, files' = files, recovery'.journal = recovery.journal
    PROVE  CleanInv'
<1>1. ~s.writing /\ session'.writing = s.writing
  BY NoneWrites DEF GoesOn
<1>2. CASE session'.quit
  BY <1>2 DEF CleanInv
<1>3. CASE session' = s /\ ~s.loaded /\ commands' = queue /\ worker' = worker
  <2>1. worker.staged = {}
    BY <1>3 DEF Linked
  <2>2. Flagged(s, queue, worker, opener, writer', files, recovery.journal, Due')
    BY <1>3, <2>1 DEF Flagged
  <2> QED BY <1>3, <2>2 DEF CleanInv, Orderly
<1>4. CASE Restarts(s, queue)
  <2>1. /\ worker'.process = "starting" /\ worker'.staged = {} /\ ~session'.loaded
        /\ ~session'.opened /\ ~session'.opening /\ ~session'.connected /\ session'.starting
        /\ commands' = IF s.connected THEN Retired(queue) ELSE queue
    BY <1>4 DEF Restarts
  <2>2. Derived(commands', queue) /\ Dead(commands')
    <3>1. CASE s.connected
      BY <2>1, <3>1, RetiredDerived, WithinItself
    <3>2. CASE ~s.connected
      BY <2>1, <3>2, QueuedOver, WithinItself
    <3> QED BY <3>1, <3>2
  <2>3. Linked(session', worker', opener')
    BY <2>1 DEF Linked
  <2>4. Queued(session', commands', opener')
    BY <2>1, <2>2, QueuedDead
  <2>5. Told(commands', worker', recovery'.journal) /\ Numbered(commands', acked')
    BY <2>2, ToldDead, NumberedDerived
  <2>6. Opening(session', worker', writer', files', recovery'.journal, saved')
    BY <1>1, <2>1, OpeningNone
  <2>7. Flagged(session', commands', worker', opener', writer', files', recovery'.journal, Due')
    BY <2>1, FlaggedNone
  <2> QED BY <2>3, <2>4, <2>5, <2>6, <2>7 DEF CleanInv, Orderly
<1> QED BY <1>2, <1>3, <1>4 DEF GoesOn, Stays

\* finishTransition.
LEMMA FinishKept ==
    ASSUME NEW s \in Sessions, NEW queue \in Seq(Commands), Finishes(s, queue),
           Linked(s, worker, opener), Queued(s, queue, opener),
           Told(queue, worker, recovery.journal), Numbered(queue, acked'), database' \subseteq saved',
           CountedAs(s, queue), WritingAs(s, writer'),
           Opening(s, worker, writer', files, recovery.journal, saved'),
           Flagged(s, queue, worker, opener, writer', files, recovery.journal, Due'),
           opener' = opener, files' = files, recovery'.journal = recovery.journal
    PROVE  CleanInv'
<1>1. CASE ~MayGoOn(s) /\ session' = s /\ commands' = queue /\ worker' = worker
  BY <1>1 DEF CleanInv, Orderly
<1>2. CASE MayGoOn(s) /\ GoesOn(Over(s), queue)
  <2>1. PICK t : t = Over(s)
    OBVIOUS
  <2>2. /\ t \in Sessions /\ Situated(t, s) /\ t.pendingWrites = s.pendingWrites
        /\ t.writing = s.writing /\ t.waiting = s.waiting /\ t.marked = s.marked
    BY <2>1 DEF Over, Situated, Sessions
  <2>3. s.pendingWrites = 0 /\ GoesOn(t, queue)
    BY <1>2, <2>1 DEF MayGoOn
  <2>4. Linked(t, worker, opener)
    BY <2>2, LinkedSame
  <2>5. Queued(t, queue, opener)
    BY <2>2, QueuedWithin, WithinItself
  <2>6. CountedAs(t, queue) /\ WritingAs(t, writer')
    BY <2>2 DEF CountedAs, WritingAs, Situated
  <2>7. Opening(t, worker, writer', files, recovery.journal, saved')
    BY <2>2 DEF Opening, ToDatabase, Situated
  <2>8. t.connected /\ Replaced(opener, queue) =>
            (files \union recovery.journal) \intersect Due' = {}
    BY <2>2 DEF Flagged, Situated
  <2> QED BY <2>2, <2>3, <2>4, <2>5, <2>6, <2>7, <2>8, GoesOnKept
<1> QED BY <1>1, <1>2 DEF Finishes

\* One more command at the end.
Appended(p, q, c) ==
    /\ DOMAIN p = DOMAIN q \union {Len(q) + 1} /\ p[Len(q) + 1] = c
    /\ \A n \in DOMAIN q : p[n] = q[n]

\* What a command queued leaves of the others.
LEMMA AppendIs == \A q \in Seq(Commands) : \A c \in Commands : Appended(Append(q, c), q, c)
<1> TAKE q \in Seq(Commands)
<1> TAKE c \in Commands
<1>1. /\ DOMAIN Append(q, c) = DOMAIN q \union {Len(q) + 1} /\ Append(q, c)[Len(q) + 1] = c
      /\ \A n \in DOMAIN q : Append(q, c)[n] = q[n]
  BY WritesAppend
<1> QED BY <1>1 DEF Appended

\* One more command, not answered and no open.
Added(c, s) ==
    /\ c \in Commands /\ c.op # "open" /\ c.epoch = s.epoch
    /\ s.connected => c.code = ""
    /\ ~s.connected => c.code = "unavailable"

\* It is queued behind the others.
LEMMA QueuedAppend ==
    ASSUME NEW s, NEW t, NEW q \in Seq(Commands), NEW c, NEW o, Queued(s, q, o), Added(c, s),
           Edit(c) => s.loaded /\ ~s.opening, Situated(t, s)
    PROVE  Queued(t, Append(q, c), o)
<1> DEFINE p == Append(q, c)
<1>0. c \in Commands
  BY DEF Added
<1>1. Appended(p, q, c)
  BY <1>0, AppendIs, Zenon
<1>2. c.code \notin {"ok", "failed"} /\ c.op # "open"
      /\ (Live(c) => c.epoch = t.epoch /\ t.connected)
      /\ (Live(c) /\ Edit(c) => t.loaded /\ ~t.opening)
  BY DEF Added, Live, Situated
<1> HIDE DEF p
<1>3. \A n \in DOMAIN p : p[n].op = "open" => n \in DOMAIN q /\ p[n] = q[n]
  BY <1>1, <1>2 DEF Appended
<1>4. ASSUME NEW n \in DOMAIN q
      PROVE  /\ Live(q[n]) => q[n].epoch = t.epoch /\ t.connected
             /\ Live(q[n]) /\ Edit(q[n]) => t.loaded /\ ~t.opening
             /\ n # 1 => q[n].code \notin {"ok", "failed"}
             /\ q[n].op = "open" /\ t.connected =>
                   /\ Live(q[n]) /\ t.opening /\ o = Idle
                   /\ \A m \in DOMAIN p : p[m].op = "open" => m = n
  BY <1>3, <1>4 DEF Queued, Situated
<1>5. Queued(t, p, o)
  BY <1>1, <1>2, <1>4 DEF Queued, Appended
<1> QED BY <1>5 DEF p

\* It has not been answered, and replaces no files.
LEMMA ToldAppend ==
    ASSUME NEW q \in Seq(Commands), NEW c \in Commands, NEW w, NEW j, NEW o, Told(q, w, j),
           c.code # "ok"
    PROVE  /\ Told(Append(q, c), w, j) /\ (Pending(q) => Pending(Append(q, c)))
           /\ c.op # "open" => (Replaced(o, Append(q, c)) => Replaced(o, q))
<1> DEFINE p == Append(q, c)
<1>1. Appended(p, q, c)
  BY AppendIs, Zenon
<1> HIDE DEF p
<1>2. Told(p, w, j)
  BY <1>1 DEF Told, Appended
<1>3. Pending(q) => Pending(p)
  BY <1>1 DEF Pending, Appended
<1>4. c.op # "open" => (Replaced(o, p) => Replaced(o, q))
  BY <1>1 DEF Replaced, Appended
<1> QED BY <1>2, <1>3, <1>4 DEF p

\* Its edit, if it is one, is new.
LEMMA NumberedAppend ==
    ASSUME NEW q \in Seq(Commands), NEW c \in Commands, NEW a, Numbered(q, a),
           Edit(c) => c.edit \notin a /\ \A n \in DOMAIN q : Edit(q[n]) => q[n].edit # c.edit
    PROVE  Numbered(Append(q, c), a)
<1> DEFINE p == Append(q, c)
<1>1. Appended(p, q, c)
  BY AppendIs, Zenon
<1> HIDE DEF p
<1>2. Numbered(p, a)
  BY <1>1 DEF Numbered, Appended
<1> QED BY <1>2 DEF p

\* A command is queued.
LEMMA QueuesKept ==
    ASSUME WritesInv, Orderly, NEW op, NEW then, NEW edit, Queues(session, op, then, edit),
           op # "open",
           op \in {"note", "edit"} =>
               /\ session.loaded /\ ~session.opening /\ edit \notin acked
               /\ \A n \in DOMAIN commands : Edit(commands[n]) => commands[n].edit # edit,
           recovery'.journal = recovery.journal,
           UNCHANGED <<worker, opener, writer, files, database, acked, saved, given>>
    PROVE  Orderly'
<1>1. PICK c \in Commands : /\ commands' = Append(commands, c) /\ c.op = op /\ c.edit = edit
                            /\ Added(c, session)
  <2>1. PICK c \in Commands :
            /\ commands' = Append(commands, c) /\ c.op = op /\ c.edit = edit
            /\ c.epoch = session.epoch
            /\ c.code = IF session.connected THEN "" ELSE "unavailable"
    BY DEF Queues
  <2> QED BY <2>1 DEF Added
<1>2. commands \in Seq(Commands) /\ c.code # "ok" /\ c.op # "open"
  BY <1>1 DEF WritesInv, CommandsOK, Added
<1>3. /\ Situated(session', session) /\ session'.waiting = session.waiting
      /\ session'.dirty = session.dirty /\ session'.databaseDirty = session.databaseDirty
      /\ session'.marked = session.marked /\ session'.writing = session.writing
  BY DEF Queues
<1>4. Due' = Due
  BY DEF Due, Missed
<1>5. Edit(c) <=> op \in {"note", "edit"}
  BY <1>1 DEF Edit
<1>6. Linked(session', worker', opener')
  BY <1>3, LinkedSame DEF Orderly
<1>7. Queued(session', commands', opener')
  BY <1>1, <1>2, <1>3, <1>5, QueuedAppend DEF Orderly
<1>8. /\ Told(commands', worker', recovery'.journal) /\ (Pending(commands) => Pending(commands'))
      /\ Replaced(opener, commands') => Replaced(opener, commands)
  BY <1>1, <1>2, ToldAppend DEF Orderly
<1>9. Numbered(commands', acked')
  BY <1>1, <1>2, <1>5, NumberedAppend DEF Orderly
<1>10. Opening(session', worker', writer', files', recovery'.journal, saved')
  BY <1>3 DEF Opening, ToDatabase, Situated, Orderly
<1>11. Flagged(session', commands', worker', opener', writer', files', recovery'.journal, Due')
  BY <1>3, <1>4, <1>8, FlaggedLess DEF Situated, Orderly
<1> QED BY <1>6, <1>7, <1>8, <1>9, <1>10, <1>11 DEF Orderly

\* The session is as it was, but for its transition.
LEMMA OrderlySame ==
    ASSUME WritesInv, Orderly, Situated(session', session), session'.dirty = session.dirty,
           session'.databaseDirty = session.databaseDirty, session'.marked = session.marked,
           session'.waiting = session.waiting, session'.writing = session.writing,
           recovery'.journal = recovery.journal,
           UNCHANGED <<commands, worker, opener, writer, files, database, acked, saved, given>>
    PROVE  Orderly'
<1>1. Due' = Due /\ commands \in Seq(Commands)
  BY DEF Due, Missed, WritesInv, CommandsOK
<1>2. Linked(session', worker', opener')
  BY LinkedSame DEF Orderly
<1>3. Queued(session', commands', opener')
  BY <1>1, QueuedWithin, WithinItself DEF Orderly
<1>4. Opening(session', worker', writer', files', recovery'.journal, saved')
  BY DEF Opening, ToDatabase, Situated, Orderly
<1>5. Flagged(session', commands', worker', opener', writer', files', recovery'.journal, Due')
  BY <1>1, FlaggedLess DEF Situated, Orderly
<1> QED BY <1>2, <1>3, <1>4, <1>5 DEF Orderly

\* An edit is accepted while nothing is opened.
LEMMA CleanMakesEdit ==
    ASSUME WritesInv, Orderly, "opening" \notin Events, NEW op \in {"note", "edit"}, MakesEdit(op)
    PROVE  Orderly'
<1>1. /\ session.loaded /\ ~session.opening /\ recovery'.journal = recovery.journal
      /\ UNCHANGED <<worker, opener, writer, files, database, acked, saved, given>>
  BY DEF MakesEdit
<1>2. Queues(session, op, "", made + 1)
  BY MakesEditQueues
<1>3. made + 1 \notin 1..made
  BY DEF WritesInv, FilesOK
<1>4. /\ made + 1 \notin acked
      /\ \A n \in DOMAIN commands : Edit(commands[n]) => commands[n].edit # made + 1
  BY <1>3 DEF WritesInv, FilesOK, Purposes, Edit
<1> QED BY <1>1, <1>2, <1>4, QueuesKept

\* A save is asked for.
LEMMA CleanSaves ==
    ASSUME WritesInv, Orderly, Saves
    PROVE  Orderly'
<1>1. /\ recovery'.journal = recovery.journal
      /\ UNCHANGED <<worker, opener, writer, files, database, acked, saved, given>>
  BY DEF Saves
<1>2. Queues(session, "save", "save", 0)
  BY SavesQueues
<1> QED BY <1>1, <1>2, QueuesKept

\* A write that starts has written nothing yet.
LEMMA BegunNot ==
    ASSUME NEW w, NEW s, NEW path, NEW replace, Begun(w, s, path, replace)
    PROVE  ~Written(w) /\ w.path = path
  BY DEF Begun, Written

\* Nor has none at all.
LEMMA IdleNot == ~Written(Idle)
<1>1. Idle.phase = "idle"
  BY DEF Idle
<1> QED BY <1>1 DEF Written

\* A pack is asked for.
LEMMA CleanPacks ==
    ASSUME WritesInv, Orderly, Packs
    PROVE  Orderly'
<1>1. /\ session.loaded /\ recovery' = recovery
      /\ UNCHANGED <<worker, opener, files, database, acked, saved, given>>
  BY DEF Packs
<1>2. CASE Queues(session, "save", "pack", 0) /\ writer' = writer
  BY <1>1, <1>2, QueuesKept
<1>3. CASE StartsWrite(session', writer', session, "packed", FALSE) /\ commands' = commands
  <2>1. Due' = Due /\ commands \in Seq(Commands)
    BY <1>1 DEF Due, Missed, WritesInv, CommandsOK
  <2>2. /\ Situated(session', session) /\ session'.dirty = session.dirty
        /\ session'.databaseDirty = session.databaseDirty
    BY <1>3 DEF StartsWrite, Counts, Situated
  <2>3. \/ /\ writer' = writer /\ session'.marked = session.marked
           /\ session'.waiting = [path |-> "packed", replace |-> FALSE]
        \/ ~Written(writer') /\ writer'.path = "packed" /\ session'.waiting = session.waiting
    BY <1>3, BegunNot DEF StartsWrite, Counts
  <2>4. Written(writer') /\ ~session'.marked => Written(writer) /\ ~session.marked
    BY <2>3
  <2>5. ToDatabase(session', writer') => ToDatabase(session, writer)
    BY <2>3 DEF ToDatabase
  <2>6. worker'.process # "starting"
    BY <1>1 DEF Orderly, Linked
  <2>7. Linked(session', worker', opener')
    BY <1>1, <2>2, LinkedSame DEF Orderly
  <2>8. Queued(session', commands', opener')
    BY <1>1, <1>3, <2>1, <2>2, QueuedWithin, WithinItself DEF Orderly
  <2>9. Opening(session', worker', writer', files', recovery'.journal, saved')
    BY <1>1, <2>2, <2>4, <2>5, <2>6, OpeningLess DEF Orderly, Situated
  <2>10. Flagged(session', commands', worker', opener', writer', files', recovery'.journal, Due')
    BY <1>1, <1>3, <2>1, <2>2, <2>4, FlaggedLess DEF Orderly, Situated
  <2> QED BY <1>1, <1>3, <2>7, <2>8, <2>9, <2>10 DEF Orderly
<1> QED BY <1>2, <1>3, PacksDoes

\* The files of the database unpacked are waited for only while opening.
LEMMA ReplacedOpening ==
    ASSUME NEW s, NEW q, NEW w, NEW o, Linked(s, w, o), Queued(s, q, o), s.connected, Replaced(o, q)
    PROVE  s.opening
<1>1. Idle.phase \notin {"read", "unpacked"}
  BY DEF Idle
<1> QED BY <1>1 DEF Linked, Queued, Replaced

\* A bookmark is written while nothing is opened.
LEMMA CleanBookmarks ==
    ASSUME WritesInv, Orderly, "opening" \notin Events, Bookmarks
    PROVE  Orderly'
<1>1. /\ session.loaded /\ ~session.opening /\ files' = files \union {made + 1}
      /\ acked' = acked \union {made + 1} /\ recovery' = recovery
      /\ UNCHANGED <<commands, worker, opener, writer, database, saved, given>>
  BY DEF Bookmarks
<1>2. Marks(session', session) /\ session.opened /\ session.connected
  BY <1>1, BookmarksDoes DEF Orderly, Linked
<1>3. /\ Situated(session', session) /\ session'.dirty = session.dirty
      /\ session'.databaseDirty /\ session'.marked
  BY <1>2 DEF Marks
<1>4. made + 1 \notin 1..made /\ commands \in Seq(Commands)
  BY DEF WritesInv, FilesOK, CommandsOK
<1>5. Linked(session', worker', opener')
  BY <1>1, <1>3, LinkedSame DEF Orderly
<1>6. Queued(session', commands', opener')
  BY <1>1, <1>3, <1>4, QueuedWithin, WithinItself DEF Orderly
<1>7. Numbered(commands', acked')
  <2>1. \A n \in DOMAIN commands : Edit(commands[n]) => commands[n].edit # made + 1
    BY <1>4 DEF WritesInv, Purposes, Edit
  <2> QED BY <1>1, <2>1 DEF Orderly, Numbered
<1>8. Opening(session', worker', writer', files', recovery'.journal, saved')
  <2>1. worker'.process # "starting" /\ ~session'.opening
    BY <1>1, <1>3 DEF Orderly, Linked, Situated
  <2> QED BY <2>1, OpeningNone
<1>9. Flagged(session', commands', worker', opener', writer', files', recovery'.journal, Due')
  <2>1. /\ worker.staged \intersect Due' \subseteq worker.staged \intersect Due
        /\ recovery.journal \intersect Due' \subseteq recovery.journal \intersect Due
    BY <1>1, <1>4 DEF Due, Missed, WritesInv, Staged, FilesOK
  <2>2. /\ worker.staged \intersect Due' # {} => session.dirty \/ Pending(commands)
        /\ recovery.journal \intersect Due' # {} => session.dirty \/ Pending(commands)
    BY <1>1, <2>1 DEF Orderly, Flagged
  <2>3. ~session'.opening /\ ~Replaced(opener', commands')
    BY <1>1, <1>2, <1>3, ReplacedOpening DEF Orderly, Situated
  <2> QED BY <1>1, <1>3, <2>2, <2>3 DEF Flagged
<1> QED BY <1>1, <1>5, <1>6, <1>7, <1>8, <1>9 DEF Orderly

\* While the session is clean nothing is pending, and nothing would be missed.
LEMMA CleanNow ==
    ASSUME WritesInv, Orderly, ~Dirty(session)
    PROVE  /\ session.pendingWrites = 0 /\ ~session.dirty /\ ~session.writing /\ writer = Idle
           /\ ~ToDatabase(session, writer) /\ ~Pending(commands)
           /\ worker.staged \intersect Due = {}
           /\ session.loaded => files \intersect Due = {}
           /\ \A n \in DOMAIN commands : commands[n].op = "open"
<1>1. session.pendingWrites = 0
  BY CleanCount DEF WritesInv, SessionOK
<1>2. ~session.dirty /\ ~(session.opened /\ session.databaseDirty)
  BY DEF Dirty
<1>3. ~session.writing /\ writer = Idle /\ ~ToDatabase(session, writer)
  BY <1>1, NoneWrites DEF WritesInv, SessionOK, CommandsOK, Counted, Writing
<1>4. \A n \in DOMAIN commands : commands[n].op = "open"
  <2>1. ~(session.pendingWrites > 0)
    BY <1>1
  <2> QED BY <2>1, PendingIsCounted
<1>5. ~Pending(commands)
  BY <1>4 DEF Pending
<1>6. worker.staged \intersect Due = {} /\ (session.loaded => files \intersect Due = {})
  BY <1>2, <1>5 DEF Orderly, Flagged, Linked
<1> QED BY <1>1, <1>2, <1>3, <1>4, <1>5, <1>6

\* A write goes on, or another workbench writes: no more is due, and nothing
\* but the write is different.
LEMMA OrderlyWriter ==
    ASSUME WritesInv, Orderly, Situated(session', session), session'.dirty = session.dirty,
           session'.databaseDirty = session.databaseDirty,
           Written(writer') /\ ~session'.marked => Written(writer) /\ ~session.marked,
           ToDatabase(session', writer') => ToDatabase(session, writer),
           worker.process = "starting" => ~session'.writing,
           database' \subseteq saved', saved \subseteq saved', recovery'.journal = recovery.journal,
           UNCHANGED <<commands, worker, opener, files, acked, given>>
    PROVE  Orderly'
<1>1. Due' \subseteq Due /\ commands \in Seq(Commands)
  BY DEF Due, Missed, WritesInv, CommandsOK
<1>2. Linked(session', worker', opener')
  BY LinkedSame DEF Orderly
<1>3. Queued(session', commands', opener')
  BY <1>1, QueuedWithin, WithinItself DEF Orderly
<1>4. Opening(session', worker', writer', files', recovery'.journal, saved')
  BY OpeningLess DEF Orderly, Situated
<1>5. Flagged(session', commands', worker', opener', writer', files', recovery'.journal, Due')
  <2>1. /\ worker'.staged \intersect Due' \subseteq worker.staged \intersect Due
        /\ files' \intersect Due' \subseteq files \intersect Due
        /\ recovery'.journal \intersect Due' \subseteq recovery.journal \intersect Due
    BY <1>1
  <2> QED BY <2>1, FlaggedLess DEF Orderly, Situated
<1> QED BY <1>2, <1>3, <1>4, <1>5 DEF Orderly

\* A request to leave.
LEMMA CleanLeaves ==
    ASSUME WritesInv, Orderly, NEW action \in Actions, Leaves(action)
    PROVE  CleanInv'
<1>1. recovery' = recovery /\ UNCHANGED <<writer, files, database, acked, saved, given>>
  BY DEF Leaves
<1>2. session \in Sessions /\ commands \in Seq(Commands) /\ Due' = Due
  BY <1>1 DEF WritesInv, SessionOK, CommandsOK, Due, Missed
<1>3. CASE Dirty(session)
  <2>1. AsksFirst(action)
    BY <1>3, LeavesDoes
  <2>2. Orderly'
    BY <1>1, <2>1, OrderlySame DEF AsksFirst
  <2> QED BY <2>2 DEF CleanInv
<1>4. CASE ~Dirty(session) /\ GoesOn(session, commands) /\ UNCHANGED opener
  <2>1. session.pendingWrites = 0
    BY <1>4, CleanNow
  <2>2. session.connected /\ Replaced(opener, commands) =>
            (files \union recovery.journal) \intersect Due' = {}
    BY <1>2 DEF Orderly, Flagged
  <2>3. /\ Linked(session, worker, opener) /\ Queued(session, commands, opener)
        /\ Told(commands, worker, recovery.journal) /\ Numbered(commands, acked')
        /\ database' \subseteq saved' /\ CountedAs(session, commands) /\ WritingAs(session, writer')
        /\ Opening(session, worker, writer', files, recovery.journal, saved')
    BY <1>1 DEF Orderly, WritesInv, Counted, Writing
  <2> QED BY <1>1, <1>2, <1>4, <2>1, <2>2, <2>3, GoesOnKept
<1>5. CASE /\ ~Dirty(session) /\ session.connected
           /\ \E s : Alike(s, session) /\ Opens(s, opener)
           /\ UNCHANGED <<commands, worker>>
  <2>1. PICK s : Alike(s, session) /\ Opens(s, opener)
    BY <1>5
  <2>2. /\ session'.loaded = session.loaded /\ session'.opened = session.opened
        /\ session'.connected = session.connected /\ session'.starting = session.starting
        /\ session'.epoch = session.epoch /\ session'.quit = session.quit
        /\ session'.dirty = session.dirty /\ session'.databaseDirty = session.databaseDirty
        /\ session'.marked = session.marked /\ session'.writing = session.writing
        /\ session'.waiting = session.waiting
    BY <2>1 DEF Alike, Opens, Situated
  <2>3. CASE session'.opening = session.opening /\ opener' = opener
    <3>1. Orderly'
      BY <1>1, <1>5, <2>2, <2>3, OrderlySame DEF Situated
    <3> QED BY <3>1 DEF CleanInv
  <2>4. CASE ~session.opening /\ session'.opening /\ opener' = [phase |-> "unpack"]
    <3>1. /\ worker.staged \intersect Due = {} /\ ~ToDatabase(session, writer) /\ writer = Idle
          /\ \A n \in DOMAIN commands : commands[n].op = "open"
      BY <1>5, CleanNow
    <3>2. DOMAIN commands = {}
      <4>1. \A n \in DOMAIN commands : FALSE
        BY <1>5, <2>4, <3>1 DEF Orderly, Queued
      <4> QED BY <4>1
    <3>3. Linked(session', worker', opener')
      BY <1>5, <2>2, <2>4 DEF Orderly, Linked
    <3>4. Queued(session', commands', opener')
      BY <1>5, <3>2 DEF Queued
    <3>5. Opening(session', worker', writer', files', recovery'.journal, saved')
      <4>1. worker'.process # "starting"
        BY <1>5 DEF Orderly, Linked
      <4>2. ~ToDatabase(session', writer') /\ ~Written(writer')
        BY <1>1, <2>2, <3>1, IdleNot DEF ToDatabase
      <4> QED BY <4>1, <4>2 DEF Opening
    <3>6. Flagged(session', commands', worker', opener', writer', files', recovery'.journal, Due')
      <4>1. opener'.phase = "unpack"
        BY <2>4
      <4>2. ~Replaced(opener', commands')
        BY <1>5, <3>2, <4>1 DEF Replaced
      <4>3. /\ Flagged(session, commands, worker, opener, writer, files, recovery.journal, Due)
            /\ worker' = worker /\ commands' = commands /\ writer' = writer /\ files' = files
            /\ recovery' = recovery
        BY <1>1, <1>5 DEF Orderly
      <4> QED BY <1>2, <2>2, <3>1, <4>2, <4>3 DEF Flagged
    <3>7. Told(commands', worker', recovery'.journal) /\ Numbered(commands', acked')
      BY <1>1, <1>5 DEF Orderly
    <3>8. database' \subseteq saved'
      BY <1>1 DEF Orderly
    <3> QED BY <3>3, <3>4, <3>5, <3>6, <3>7, <3>8 DEF CleanInv, Orderly
  <2>5. \/ ~session.opening /\ session'.opening /\ opener' = [phase |-> "unpack"]
        \/ session'.opening = session.opening /\ opener' = opener
    BY <2>1 DEF Alike, Opens, Situated
  <2> QED BY <2>3, <2>4, <2>5
<1>6. CASE ~Dirty(session) /\ StartsWorker
  <2>1. ~session.writing
    BY <1>6, CleanNow
  <2>2. /\ ~session.connected /\ ~session.opening /\ ~session.loaded /\ worker.staged = {}
    BY <1>6 DEF Orderly, Linked, StartsWorker
  <2>3. worker'.process = "starting" /\ worker'.staged = {}
    BY <1>6, <2>2 DEF Orderly, Linked, StartsWorker
  <2>4. /\ ~session'.connected /\ ~session'.opening /\ ~session'.loaded /\ session'.starting
        /\ ~session'.writing /\ UNCHANGED <<commands, opener>>
    BY <1>6, <2>1, <2>2 DEF StartsWorker
  <2>5. Linked(session', worker', opener')
    BY <2>3, <2>4 DEF Linked
  <2>6. Dead(commands')
    BY <2>2, <2>4, QueuedOver DEF Orderly
  <2>7. Queued(session', commands', opener') /\ Told(commands', worker', recovery'.journal)
    BY <2>4, <2>6, QueuedDead, ToldDead
  <2>8. Numbered(commands', acked') /\ database' \subseteq saved'
    BY <1>1, <2>4 DEF Orderly
  <2>9. Opening(session', worker', writer', files', recovery'.journal, saved')
    BY <2>4, OpeningNone
  <2>10. Flagged(session', commands', worker', opener', writer', files', recovery'.journal, Due')
    BY <2>3, <2>4, FlaggedNone
  <2> QED BY <2>5, <2>7, <2>8, <2>9, <2>10 DEF CleanInv, Orderly
<1> QED BY <1>3, <1>4, <1>5, <1>6, LeavesDoes

\* The question is answered.
LEMMA CleanAnswersTransition ==
    ASSUME WritesInv, Orderly, NEW choice \in {"save", "discard", "cancel"},
           AnswersTransition(choice)
    PROVE  CleanInv'
<1>1. UNCHANGED <<opener, writer, files, database, made, acked, saved>>
  BY DEF AnswersTransition
<1>2. recovery'.journal = recovery.journal
  BY AnswersTransitionDoes
<1>3. CASE UNCHANGED <<session, commands, worker, given>>
  <2>1. Orderly'
    BY <1>1, <1>2, <1>3, OrderlySame DEF Situated
  <2> QED BY <2>1 DEF CleanInv
<1>4. CASE Cancels(session', session) /\ UNCHANGED <<commands, worker, given>>
  <2>1. Orderly'
    BY <1>1, <1>2, <1>4, OrderlySame DEF Cancels
  <2> QED BY <2>1 DEF CleanInv
<1>5. CASE Queues(session, "save", "transition", 0) /\ UNCHANGED <<worker, given>>
  <2>1. Orderly'
    BY <1>1, <1>2, <1>5, QueuesKept
  <2> QED BY <2>1 DEF CleanInv
<1>6. CASE /\ given' = given \union 1..made
           /\ \E s : Discards(s, session) /\ Finishes(s, commands)
  <2>1. PICK s : Discards(s, session) /\ Finishes(s, commands)
    BY <1>6
  <2>2. s \in Sessions /\ commands \in Seq(Commands)
    BY <2>1 DEF Discards, WritesInv, CommandsOK
  <2>3. Due' = {}
    BY <1>1, <1>6 DEF Due, Missed, WritesInv, FilesOK
  <2>4. /\ Situated(s, session) /\ s.marked = session.marked
        /\ s.pendingWrites = session.pendingWrites /\ s.writing = session.writing
        /\ s.waiting = session.waiting
    BY <2>1 DEF Discards
  <2>5. CountedAs(s, commands) /\ WritingAs(s, writer')
    BY <1>1, <2>4 DEF WritesInv, Counted, CountedAs, Writing, WritingAs, Situated
  <2>6. Linked(s, worker, opener)
    BY <2>4, LinkedSame DEF Orderly
  <2>7. Queued(s, commands, opener)
    BY <2>2, <2>4, QueuedWithin, WithinItself DEF Orderly
  <2>8. Opening(s, worker, writer', files, recovery.journal, saved')
    BY <1>1, <2>4 DEF Opening, ToDatabase, Situated, Orderly
  <2>9. Flagged(s, commands, worker, opener, writer', files, recovery.journal, Due')
    BY <2>3 DEF Flagged
  <2>10. /\ Told(commands, worker, recovery.journal) /\ Numbered(commands, acked')
         /\ database' \subseteq saved'
    BY <1>1 DEF Orderly
  <2> QED BY <1>1, <1>2, <2>1, <2>2, <2>5, <2>6, <2>7, <2>8, <2>9, <2>10, FinishKept
<1> QED BY <1>3, <1>4, <1>5, <1>6, AnswersTransitionDoes

\* The question about the database is answered.
LEMMA CleanAnswersConflict ==
    ASSUME WritesInv, Orderly, NEW replace \in BOOLEAN, AnswersConflict(replace)
    PROVE  Orderly'
<1>1. /\ recovery' = recovery
      /\ UNCHANGED <<commands, worker, opener, files, database, acked, saved, given>>
  BY DEF AnswersConflict, ghosts
<1>2. Resolves(replace)
  BY AnswersConflictDoes
<1>3. ~Written(writer')
  <2>1. CASE replace
    BY <1>2, <2>1, BegunNot DEF Resolves
  <2>2. CASE ~replace
    BY <1>2, <2>2, IdleNot DEF Resolves
  <2> QED BY <2>1, <2>2
<1>4. ToDatabase(session, writer)
  BY <1>2, IdleIsNone DEF Resolves, ToDatabase
<1>5. worker.process # "starting"
  BY <1>2 DEF Orderly, Opening, Resolves
<1>6. /\ Situated(session', session) /\ session'.dirty = session.dirty
      /\ session'.databaseDirty = session.databaseDirty
  BY <1>2 DEF Resolves
<1>7. database' \subseteq saved' /\ saved \subseteq saved'
  BY <1>1 DEF Orderly
<1> QED BY <1>1, <1>3, <1>4, <1>5, <1>6, <1>7, OrderlyWriter

\* What the command under way may commit and the user would miss is staged.
LEMMA CommitsDue ==
    ASSUME WritesInv, Orderly, 1 \in DOMAIN commands, commands[1].code = ""
    PROVE  /\ Commits(commands[1]) \intersect Due # {} => worker.staged \intersect Due # {}
           /\ session.opening => Commits(commands[1]) \subseteq worker.staged
           /\ ~Pending(commands)
<1> DEFINE c == commands[1]
<1>1. c \in Commands /\ c.op \in {"note", "edit", "save", "open"}
  <2>1. commands \in Seq(Commands)
    BY DEF WritesInv, CommandsOK
  <2>2. 1 \in 1..Len(commands)
    BY <2>1, LenProperties
  <2>3. c \in Commands
    BY <2>1, <2>2, ElementOfSeq
  <2> QED BY <2>3 DEF Commands
<1>2. /\ c.op = "save" => Commits(c) = worker.staged
      /\ c.op = "edit" => Commits(c) = {c.edit}
      /\ c.op \in {"note", "open"} => Commits(c) = {}
  BY CommitsType
<1>3. c.op = "edit" => c.edit \notin Due /\ ~session.opening
  BY DEF Orderly, Numbered, Queued, Edit, Live, Due, Missed
<1>4. ~Pending(commands)
  BY DEF Pending, Orderly, Queued
<1> QED BY <1>1, <1>2, <1>3, <1>4

\* The worker runs the first command.
LEMMA CleanWorkerRuns ==
    ASSUME WritesInv, Orderly, WorkerRuns
    PROVE  Orderly'
<1> DEFINE c == commands[1]
<1>1. UNCHANGED <<session, opener, writer, database, acked, saved, given>>
  BY DEF WorkerRuns
<1>2. PICK code, dirty : Ran(code, dirty)
  BY WorkerRunsDoes
<1>3. /\ worker'.process = worker.process /\ worker.process = "up" /\ c.code = ""
      /\ code \in {"ok", "failed"} /\ dirty \in BOOLEAN /\ commands # <<>>
      /\ commands \in Seq(Commands) /\ c \in Commands /\ commands' = Answered(commands, code, dirty)
  BY <1>2 DEF Ran
<1>4. /\ DOMAIN commands' = DOMAIN commands /\ 1 \in DOMAIN commands
      /\ commands'[1].code = code /\ commands'[1].dirty = dirty
      /\ commands'[1].op = c.op /\ commands'[1].edit = c.edit
      /\ commands'[1].recovered = c.recovered /\ commands'[1].epoch = c.epoch
      /\ \A n \in DOMAIN commands : n # 1 => commands'[n] = commands[n]
  <2>1. /\ commands \in Seq(Commands) /\ commands # <<>> /\ code \in {"ok", "failed"}
        /\ dirty \in BOOLEAN /\ commands' = Answered(commands, code, dirty)
    BY <1>3
  <2>2. /\ DOMAIN commands' = DOMAIN commands /\ 1 \in DOMAIN commands
        /\ commands'[1].code = code /\ commands'[1].op = commands[1].op
        /\ commands'[1].edit = commands[1].edit /\ commands'[1].epoch = commands[1].epoch
        /\ \A n \in DOMAIN commands : n # 1 => commands'[n] = commands[n]
    BY <2>1, AnswerKeeps
  <2>3. commands'[1].recovered = commands[1].recovered
    BY <2>1, AnswerKeeps
  <2>4. commands'[1].dirty = dirty
    BY <2>1, AnswerKeeps
  <2> QED BY <2>2, <2>3, <2>4
<1>5. /\ Commits(c) \intersect Due # {} => worker.staged \intersect Due # {}
      /\ session.opening => Commits(c) \subseteq worker.staged
      /\ ~Pending(commands)
  BY <1>3, <1>4, CommitsDue
<1>6. c.op \in {"note", "edit", "save", "open"} /\ Due' = Due
  BY <1>1, <1>3 DEF Commands, Due, Missed
<1>7. Live(c) /\ (Edit(c) => session.loaded /\ ~session.opening)
  BY <1>3, <1>4 DEF Orderly, Queued, Live
<1>8. /\ code = "failed" =>
            /\ UNCHANGED <<worker, files>>
            /\ recovery'.journal \in {recovery.journal, recovery.journal \union Commits(c)}
      /\ code = "ok" =>
            /\ dirty = (worker'.staged # {})
            /\ c.op = "note" =>
                  /\ worker'.staged = worker.staged \union {c.edit}
                  /\ UNCHANGED <<files, recovery>>
            /\ c.op = "edit" => worker'.staged = worker.staged
            /\ c.op \in {"save", "open"} => worker'.staged = {}
            /\ c.op # "note" =>
                  /\ files' = files \union recovery.journal \union Commits(c)
                  /\ recovery'.journal = {}
  BY <1>2 DEF Ran
<1>9. c.op = "open" => Commits(c) = {}
  BY <1>4, CommitsType
<1> HIDE DEF c
<1>10. Linked(session', worker', opener')
  <2>1. worker'.staged # {} => worker.staged # {} \/ Edit(c)
    BY <1>3, <1>6, <1>8 DEF Edit
  <2> QED BY <1>1, <1>3, <1>7, <2>1 DEF Orderly, Linked
<1>11. Queued(session', commands', opener')
  <2>1. \A n \in DOMAIN commands : /\ commands'[n].op = commands[n].op
                                   /\ commands'[n].epoch = commands[n].epoch
                                   /\ Live(commands'[n]) <=> Live(commands[n])
                                   /\ Edit(commands'[n]) <=> Edit(commands[n])
    BY <1>3, <1>4 DEF c, Live, Edit
  <2>2. \A n \in DOMAIN commands : n # 1 => commands'[n].code \notin {"ok", "failed"}
    BY <1>4 DEF Orderly, Queued
  <2> QED BY <1>1, <1>4, <2>1, <2>2 DEF Orderly, Queued
<1>12. Told(commands', worker', recovery'.journal)
  <2>1. \A n \in DOMAIN commands' : commands'[n].code = "ok" => n = 1 /\ code = "ok"
    BY <1>4 DEF Orderly, Queued
  <2>2. code = "ok" =>
            /\ c.op \in {"save", "open"} \/ ~dirty => worker'.staged = {}
            /\ c.op # "note" => recovery'.journal = {}
            /\ c.op = "note" => dirty
    BY <1>3, <1>8
  <2> QED BY <1>4, <2>1, <2>2 DEF Told
<1>13. Numbered(commands', acked')
  <2>1. \A n \in DOMAIN commands : /\ Edit(commands'[n]) <=> Edit(commands[n])
                                   /\ commands'[n].edit = commands[n].edit
                                   /\ commands'[n].code = "" => commands[n].code = ""
    BY <1>3, <1>4 DEF c, Edit
  <2> QED BY <1>1, <1>4, <2>1 DEF Orderly, Numbered
<1>14. session.opening => c.op \in {"save", "open"} /\ Commits(c) \subseteq worker.staged
  BY <1>5, <1>6, <1>7 DEF Edit
<1>15. Opening(session', worker', writer', files', recovery'.journal, saved')
  <2>1. Opening(session, worker, writer, files, recovery.journal, saved)
    BY DEF Orderly
  <2>2. Written(writer) => ToDatabase(session, writer)
    BY IdleNot DEF Written, ToDatabase
  <2>3. ASSUME session.opening, ToDatabase(session, writer)
        PROVE  worker'.staged = {} /\ recovery'.journal = {} /\ files' \subseteq files
    <3>1. worker.staged = {} /\ recovery.journal = {} /\ Commits(c) = {}
      BY <1>14, <2>1, <2>3 DEF Opening
    <3> QED BY <1>3, <1>8, <1>14, <2>3, <3>1
  <2> QED BY <1>1, <1>3, <2>1, <2>2, <2>3 DEF Opening
<1>16. Replaced(opener', commands') => Replaced(opener, commands)
  <2>1. \A n \in DOMAIN commands' :
            commands'[n].op = "open" /\ Live(commands'[n]) /\ ~commands'[n].recovered =>
                commands[n].op = "open" /\ Live(commands[n]) /\ ~commands[n].recovered
    BY <1>3, <1>4 DEF c, Live
  <2> QED BY <1>1, <1>4, <2>1 DEF Replaced
<1>17. Flagged(session', commands', worker', opener', writer', files', recovery'.journal, Due')
  <2>1. Flagged(session, commands, worker, opener, writer, files, recovery.journal, Due)
    BY DEF Orderly
  <2>2. session.opening => worker'.staged \intersect Due = {}
    BY <1>3, <1>8, <1>14, <2>1 DEF Flagged
  <2>3. session.connected /\ Replaced(opener', commands') =>
            (files' \union recovery'.journal) \intersect Due = {}
    <3>1. SUFFICES ASSUME session.connected, Replaced(opener', commands')
                   PROVE  (files' \union recovery'.journal) \intersect Due = {}
      OBVIOUS
    <3>2. session.opening
      BY <1>16, <3>1, ReplacedOpening DEF Orderly
    <3>3. (files \union recovery.journal) \intersect Due = {} /\ worker.staged \intersect Due = {}
      BY <1>16, <2>1, <3>1, <3>2 DEF Flagged
    <3>4. Commits(c) \intersect Due = {}
      BY <1>5, <3>3
    <3>5. files' \union recovery'.journal \subseteq files \union recovery.journal \union Commits(c)
      <4>1. CASE code = "failed"
        BY <1>8, <4>1
      <4>2. CASE code = "ok"
        BY <1>8, <1>14, <3>2, <4>2
      <4> QED BY <1>3, <4>1, <4>2
    <3> QED BY <3>3, <3>4, <3>5
  <2>4. CASE code = "failed"
    <3>1. worker.staged \intersect Due # {} => session.dirty
      BY <1>5, <2>1 DEF Flagged
    <3>2. session.loaded /\ recovery'.journal \intersect Due # {} => session.dirty
      BY <1>5, <1>8, <2>1, <2>4, <3>1 DEF Flagged
    <3>3. /\ session.loaded /\ files \intersect Due # {} => session.dirty \/ session.databaseDirty
          /\ session.loaded /\ Written(writer) /\ ~session.marked =>
                files \intersect Due = {} \/ session.dirty
      BY <1>5, <2>1 DEF Flagged
    <3>4. worker' = worker /\ files' = files
      BY <1>8, <2>4
    <3> QED BY <1>1, <1>6, <2>2, <2>3, <3>1, <3>2, <3>3, <3>4 DEF Flagged
  <2>5. CASE code = "ok" /\ c.op # "open"
    <3>1. Pending(commands')
      BY <1>4, <2>5 DEF Pending
    <3> QED BY <1>1, <1>6, <2>2, <2>3, <3>1 DEF Flagged
  <2>6. CASE code = "ok" /\ c.op = "open"
    <3>1. /\ worker'.staged = {} /\ recovery'.journal = {} /\ files' = files \union recovery.journal
      BY <1>8, <1>9, <2>6
    <3>2. session.loaded /\ files' \intersect Due # {} => session.dirty \/ session.databaseDirty
      BY <1>5, <2>1, <3>1 DEF Flagged
    <3>3. session.loaded /\ Written(writer) /\ ~session.marked =>
              files' \intersect Due = {} \/ session.dirty
      BY <1>5, <2>1, <3>1 DEF Flagged
    <3> QED BY <1>1, <1>6, <2>2, <2>3, <3>1, <3>2, <3>3 DEF Flagged
  <2> QED BY <1>3, <2>4, <2>5, <2>6
<1>18. database' \subseteq saved'
  BY <1>1 DEF Orderly
<1> QED BY <1>10, <1>11, <1>12, <1>13, <1>15, <1>17, <1>18 DEF Orderly

\* The worker dies.
LEMMA CleanExits ==
    ASSUME WritesInv, Orderly, Exits
    PROVE  Orderly'
<1>1. UNCHANGED <<session, commands, opener, writer, files, database, acked, saved>>
  BY DEF Exits
<1>2. /\ worker'.process = "gone" /\ worker'.staged = {} /\ worker.process = "up"
      /\ given' = given \union (worker.staged \ recovery'.journal)
  BY ExitsDoes
<1>3. PICK published : Published(published) /\ recovery'.journal = recovery.journal \union published
  BY ExitsDoes
<1>4. Due' \subseteq Due
  BY <1>1, <1>2 DEF Due, Missed
<1>6. /\ published \intersect Due # {} => worker.staged \intersect Due # {}
      /\ session.opening => published \subseteq worker.staged
      /\ published # {} => 1 \in DOMAIN commands /\ commands[1].code = ""
  <2>1. CASE published = {}
    BY <2>1
  <2>2. CASE published # {}
    <3>1. 1 \in DOMAIN commands /\ commands[1].code = "" /\ published = Commits(commands[1])
      BY <1>3, <2>2 DEF Published
    <3> QED BY <3>1, CommitsDue
  <2> QED BY <2>1, <2>2
<1>7. Linked(session', worker', opener')
  BY <1>1, <1>2 DEF Orderly, Linked
<1>8. /\ Queued(session', commands', opener') /\ Numbered(commands', acked')
      /\ database' \subseteq saved'
  BY <1>1 DEF Orderly
<1>9. Told(commands', worker', recovery'.journal)
  <2>1. \A n \in DOMAIN commands : commands[n].code = "ok" => published = {}
    BY <1>6 DEF Orderly, Queued
  <2> QED BY <1>1, <1>2, <1>3, <2>1 DEF Orderly, Told
<1>10. Opening(session', worker', writer', files', recovery'.journal, saved')
  BY <1>1, <1>2, <1>3, <1>6 DEF Orderly, Opening
<1>11. Flagged(session', commands', worker', opener', writer', files', recovery'.journal, Due')
  <2>1. Flagged(session, commands, worker, opener, writer, files, recovery.journal, Due)
    BY DEF Orderly
  <2>2. /\ files \intersect Due' # {} => files \intersect Due # {}
        /\ recovery'.journal \intersect Due' # {} =>
              recovery.journal \intersect Due # {} \/ worker.staged \intersect Due # {}
    BY <1>3, <1>4, <1>6
  <2>3. session.loaded /\ recovery'.journal \intersect Due' # {} =>
            session.dirty \/ Pending(commands)
    BY <2>1, <2>2 DEF Flagged
  <2>4. session.connected /\ Replaced(opener, commands) =>
            (files \union recovery'.journal) \intersect Due' = {}
    <3>1. SUFFICES ASSUME session.connected, Replaced(opener, commands)
                   PROVE  (files \union recovery'.journal) \intersect Due' = {}
      OBVIOUS
    <3>2. session.opening
      BY <3>1, ReplacedOpening DEF Orderly
    <3>3. (files \union recovery.journal) \intersect Due = {} /\ worker.staged \intersect Due = {}
      BY <2>1, <3>1, <3>2 DEF Flagged
    <3> QED BY <2>2, <3>3
  <2>5. /\ session.loaded /\ files \intersect Due' # {} =>
              session.dirty \/ session.databaseDirty \/ Pending(commands)
        /\ session.loaded /\ Written(writer) /\ ~session.marked =>
              files \intersect Due' = {} \/ session.dirty \/ Pending(commands)
    BY <2>1, <2>2 DEF Flagged
  <2> QED BY <1>1, <1>2, <2>3, <2>4, <2>5 DEF Flagged
<1> QED BY <1>7, <1>8, <1>9, <1>10, <1>11 DEF Orderly

\* The session hears of it.
LEMMA CleanHearsStopped ==
    ASSUME WritesInv, Orderly, HearsStopped
    PROVE  Orderly'
<1>1. /\ recovery' = recovery /\ UNCHANGED <<opener, writer, files, database, acked, saved, given>>
  BY DEF HearsStopped, ghosts
<1>2. /\ Stops(session', session) /\ commands' = Retired(commands)
      /\ worker.process = "gone" /\ worker'.process = "down" /\ worker'.staged = worker.staged
  BY HearsStoppedDoes
<1>3. worker'.staged = {}
  BY <1>2 DEF Orderly, Linked
<1>4. ~session'.connected /\ ~session'.starting /\ ~session'.opening /\ ~session'.loaded
  BY <1>2 DEF Stops
<1>5. Derived(commands', commands) /\ Dead(commands')
  BY <1>2, RetiredDerived, WithinItself DEF WritesInv, CommandsOK
<1>6. Linked(session', worker', opener')
  BY <1>2, <1>3, <1>4 DEF Linked
<1>7. Queued(session', commands', opener') /\ Told(commands', worker', recovery'.journal)
  BY <1>4, <1>5, QueuedDead, ToldDead
<1>8. Numbered(commands', acked') /\ database' \subseteq saved'
  BY <1>1, <1>5, NumberedDerived DEF Orderly
<1>9. Opening(session', worker', writer', files', recovery'.journal, saved')
  BY <1>2, <1>4, OpeningNone
<1>10. Flagged(session', commands', worker', opener', writer', files', recovery'.journal, Due')
  BY <1>3, <1>4, FlaggedNone
<1> QED BY <1>6, <1>7, <1>8, <1>9, <1>10 DEF Orderly

\* A new worker answers.
LEMMA CleanHearsHello ==
    ASSUME WritesInv, Orderly, HearsHello
    PROVE  Orderly'
<1>1. /\ recovery' = recovery
      /\ UNCHANGED <<commands, writer, files, database, acked, saved, given>>
  BY DEF HearsHello, ghosts
<1>2. /\ worker.process = "starting" /\ opener = Idle /\ commands = <<>>
      /\ worker'.process = "up" /\ worker'.staged = worker.staged
  BY HearsHelloDoes
<1>3. PICK s : Greeted(s) /\ Opens(s, Idle)
  BY HearsHelloDoes
<1>4. /\ ~session.opening /\ ~session.loaded /\ worker.staged = {} /\ ~session.writing
  BY <1>2 DEF Orderly, Linked, Opening
<1>5. /\ session'.connected /\ ~session'.starting /\ ~session'.loaded /\ ~session'.writing
      /\ session'.waiting = session.waiting
      /\ \/ session'.opening /\ opener' = [phase |-> "unpack"]
         \/ ~session'.opening /\ opener' = Idle
  BY <1>3, <1>4 DEF Greeted, Opens
<1>6. writer = Idle /\ ~ToDatabase(session', writer')
  <2>1. writer = Idle /\ session.waiting = Nothing
    BY <1>4 DEF WritesInv, Writing, WritingAs
  <2>2. Nothing.path # "database"
    BY DEF Nothing
  <2> QED BY <1>1, <1>5, <2>1, <2>2 DEF ToDatabase
<1>7. DOMAIN commands' = {}
  BY <1>1, <1>2
<1>8. Linked(session', worker', opener')
  BY <1>2, <1>4, <1>5 DEF Linked
<1>9. /\ Queued(session', commands', opener') /\ Told(commands', worker', recovery'.journal)
      /\ Numbered(commands', acked')
  BY <1>7 DEF Queued, Told, Numbered
<1>10. Opening(session', worker', writer', files', recovery'.journal, saved')
  BY <1>1, <1>2, <1>6, IdleNot DEF Opening
<1>11. ~Replaced(opener', commands')
  <2>1. Idle.phase = "idle"
    BY DEF Idle
  <2>2. opener'.phase \in {"unpack", "idle"}
    BY <1>5, <2>1
  <2> QED BY <1>7, <2>2 DEF Replaced
<1>12. Flagged(session', commands', worker', opener', writer', files', recovery'.journal, Due')
  BY <1>2, <1>4, <1>5, <1>11 DEF Flagged
<1>13. database' \subseteq saved'
  BY <1>1 DEF Orderly
<1> QED BY <1>8, <1>9, <1>10, <1>12, <1>13 DEF Orderly

\* An answer that does not count is none that was done; one that counts is the
\* only one.
LEMMA AnswersAlone ==
    ASSUME WritesInv, Orderly, commands # <<>>
    PROVE  /\ commands \in Seq(Commands) /\ Tail(commands) \in Seq(Commands) /\ 1 \in DOMAIN commands
           /\ commands[1] \in Commands
           /\ Within(Tail(commands), commands) /\ Derived(Tail(commands), commands)
           /\ ~Pending(Tail(commands))
           /\ Pending(commands) => commands[1].code = "ok"
           /\ commands[1].code = "ok" => Done(commands[1]) /\ session.connected
           /\ \A n \in DOMAIN Tail(commands) : /\ n \in Nat /\ n + 1 \in DOMAIN commands /\ n + 1 # 1
                                               /\ Tail(commands)[n] = commands[n + 1]
<1>1. commands \in Seq(Commands)
  BY DEF WritesInv, CommandsOK
<1>2. /\ Tail(commands) \in Seq(Commands) /\ 1 \in DOMAIN commands /\ commands[1] \in Commands
      /\ \A n \in DOMAIN Tail(commands) : n \in Nat /\ n + 1 \in DOMAIN commands
                                          /\ Tail(commands)[n] = commands[n + 1]
  BY <1>1, WritesTail
<1>3. \A n \in DOMAIN Tail(commands) : n + 1 # 1
  <2>1. \A n \in DOMAIN Tail(commands) : n \in Nat \ {0}
    BY <1>2, LenProperties
  <2> QED BY <2>1
<1>4. \A n \in DOMAIN commands : n # 1 => commands[n].code # "ok"
  BY DEF Orderly, Queued
<1>5. ~Pending(Tail(commands)) /\ (Pending(commands) => commands[1].code = "ok")
  BY <1>2, <1>3, <1>4 DEF Pending
<1>6. commands[1].code = "ok" => Done(commands[1]) /\ session.connected
  BY <1>2 DEF Orderly, Queued, Live, Done
<1>7. Within(Tail(commands), commands) /\ Derived(Tail(commands), commands)
  BY <1>1, WithinTail
<1> QED BY <1>1, <1>2, <1>3, <1>5, <1>6, <1>7

\* The completion of an edit or a save.
LEMMA CleanCompletes ==
    ASSUME WritesInv, Orderly, Completes
    PROVE  CleanInv'
<1> DEFINE c == commands[1]
           q == Tail(commands)
<1>1. /\ recovery' = recovery /\ UNCHANGED <<opener, files, database, saved, given>>
      /\ commands # <<>>
  BY DEF Completes
<1>2. /\ commands \in Seq(Commands) /\ q \in Seq(Commands) /\ c \in Commands
      /\ 1 \in DOMAIN commands /\ Within(q, commands) /\ Derived(q, commands)
      /\ ~Pending(q) /\ (Pending(commands) => c.code = "ok")
      /\ (c.code = "ok" => Done(c) /\ session.connected)
  BY <1>1, AnswersAlone
<1>3. \A n \in DOMAIN q : n + 1 \in DOMAIN commands /\ n + 1 # 1 /\ q[n] = commands[n + 1]
  BY <1>1, AnswersAlone
<1>4. c.op # "open" /\ session \in Sessions
  BY <1>1, <1>2, WritesTail DEF Completes, WritesInv, SessionOK
<1>5. session.pendingWrites > 0
  BY <1>2, <1>4, PendingIsCounted
<1>6. PICK s : Completion(s, c) /\ Finishes(s, q)
  BY <1>5, CompletesDoes DEF WritesInv
<1>7. CountedAs(s, q) /\ WritingAs(s, writer')
  BY <1>1, <1>4, <1>6, CompletionCounts
<1>8. /\ c.op = "save" <=> c.then # ""
      /\ c.op \in {"note", "edit"} \/ c.edit = 0
  BY <1>2, <1>4 DEF WritesInv, Purposes, Commands
<1>9. Done(c) =>
          /\ Live(c) /\ session.connected
          /\ c.op = "save" \/ ~c.dirty => worker.staged = {}
          /\ c.op # "note" => recovery.journal = {}
          /\ c.op = "note" => c.dirty
          /\ Edit(c) => session.loaded /\ ~session.opening
  BY <1>2 DEF Done, Orderly, Told, Queued, Live
<1>10. Written(writer) => session.opened /\ ToDatabase(session, writer)
  <2>1. Written(writer) => writer # Idle /\ writer.path = "database"
    BY IdleNot DEF Written
  <2> QED BY <2>1 DEF WritesInv, Writing, WritingAs, ToDatabase
<1> HIDE DEF c, q
<1>11. s \in Sessions /\ Situated(s, session)
  BY <1>6 DEF Completion, Situated
<1>12. Linked(s, worker, opener)
  BY <1>11, LinkedSame DEF Orderly
<1>13. Queued(s, q, opener)
  BY <1>2, <1>11, QueuedWithin DEF Orderly
<1>14. Told(q, worker, recovery.journal)
  BY <1>2, ToldDerived DEF Orderly
<1>15. acked' = acked \/ (Edit(c) /\ Done(c) /\ acked' = acked \union {c.edit})
  BY <1>6, <1>8 DEF Completion, Edit
<1>16. Numbered(q, acked')
  <2>1. Numbered(q, acked)
    BY <1>2, NumberedDerived DEF Orderly
  <2>2. ASSUME Edit(c), NEW n \in DOMAIN q, Edit(q[n]), q[n].code = ""
        PROVE  q[n].edit # c.edit
    BY <1>2, <1>3, <2>2 DEF Orderly, Numbered, c
  <2>3. ASSUME NEW n \in DOMAIN q, Edit(q[n]), q[n].code = ""
        PROVE  q[n].edit \notin acked'
    <3>1. q[n].edit \notin acked
      BY <2>1, <2>3 DEF Numbered
    <3>2. CASE acked' = acked
      BY <3>1, <3>2
    <3>3. CASE Edit(c) /\ Done(c) /\ acked' = acked \union {c.edit}
      BY <2>2, <2>3, <3>1, <3>3
    <3> QED BY <1>15, <3>2, <3>3
  <2> QED BY <2>1, <2>3 DEF Numbered
<1>17. Written(writer') /\ ~s.marked => ~Done(c) /\ writer' = writer /\ s.marked = session.marked
  <2>1. CASE ~Done(c)
    BY <1>6, <2>1 DEF Completion
  <2>2. CASE Done(c) /\ ~Starts(c)
    BY <1>6, <1>10, <2>2 DEF Completion
  <2>3. CASE Starts(c) /\ session.writing
    BY <1>6, <1>10, <2>3 DEF Completion
  <2>4. CASE Starts(c) /\ ~session.writing
    BY <1>6, <2>4, BegunNot DEF Completion
  <2> QED BY <2>1, <2>2, <2>3, <2>4 DEF Starts
<1>18. Starts(c) => Done(c) /\ c.op = "save"
  <2>1. c.then = "pack" => c.then # ""
    OBVIOUS
  <2> QED BY <1>8, <2>1 DEF Starts
<1>19. ~Starts(c) => /\ writer' = writer /\ s.waiting = session.waiting
                     /\ s.writing = session.writing
  BY <1>6 DEF Completion, Starts
<1>20. Opening(s, worker, writer', files, recovery.journal, saved')
  <2>1. worker.process = "starting" => ~s.writing
    <3>1. session.connected => worker.process # "starting"
      BY DEF Orderly, Linked
    <3> QED BY <1>9, <1>18, <1>19, <3>1 DEF Orderly, Opening
  <2>2. s.opening /\ ToDatabase(s, writer') => worker.staged = {} /\ recovery.journal = {}
    <3>1. CASE Starts(c)
      BY <1>9, <1>18, <3>1
    <3>2. CASE ~Starts(c)
      BY <1>11, <1>19, <3>2 DEF Orderly, Opening, Situated, ToDatabase
    <3> QED BY <3>1, <3>2
  <2>3. s.opening /\ Written(writer') /\ ~s.marked => files \subseteq saved'
    BY <1>1, <1>11, <1>17 DEF Orderly, Opening, Situated
  <2> QED BY <2>1, <2>2, <2>3 DEF Opening
<1>21. Replaced(opener, q) => Replaced(opener, commands)
  BY <1>2, ReplacedDerived
<1>22. Flagged(s, q, worker, opener, writer', files, recovery.journal, Due')
  <2>1. Flagged(session, commands, worker, opener, writer, files, recovery.journal, Due)
    BY DEF Orderly
  <2>2. CASE ~Done(c)
    <3>1. Due' = Due /\ ~Pending(commands)
      BY <1>1, <1>2, <1>15, <2>2 DEF Due, Missed
    <3>2. s.dirty = session.dirty /\ s.databaseDirty = session.databaseDirty
      BY <1>6, <2>2 DEF Completion
    <3>3. Written(writer') /\ ~s.marked => Written(writer) /\ ~session.marked
      BY <1>17
    <3> QED BY <1>11, <1>21, <2>1, <3>1, <3>2, <3>3, FlaggedLess DEF Situated
  <2>3. CASE Done(c)
    <3>1. s.dirty = c.dirty /\ (session.opened => s.databaseDirty)
      BY <1>6, <2>3 DEF Completion
    <3>2. session.loaded => session.opened
      BY DEF Orderly, Linked
    <3>3. worker.staged # {} => s.dirty
      BY <1>9, <2>3, <3>1
    <3>4. recovery.journal # {} => s.dirty
      BY <1>9, <2>3, <3>1
    <3>5. session.opening => Due' = Due
      BY <1>1, <1>9, <1>15 DEF Due, Missed
    <3>6. s.opening => worker.staged \intersect Due' = {}
      BY <1>11, <2>1, <3>5 DEF Flagged, Situated
    <3>7. s.connected /\ Replaced(opener, q) => (files \union recovery.journal) \intersect Due' = {}
      <4>1. session.connected /\ Replaced(opener, q) => session.opening
        BY <1>21, ReplacedOpening DEF Orderly
      <4> QED BY <1>11, <1>21, <2>1, <3>5, <4>1 DEF Flagged, Situated
    <3>8. s.loaded => s.databaseDirty /\ ~(Written(writer') /\ ~s.marked)
      BY <1>11, <1>17, <2>3, <3>1, <3>2 DEF Situated
    <3> QED BY <3>3, <3>4, <3>6, <3>7, <3>8 DEF Flagged
  <2> QED BY <2>2, <2>3
<1>23. database' \subseteq saved'
  BY <1>1 DEF Orderly
<1> QED BY <1>1, <1>2, <1>6, <1>7, <1>11, <1>12, <1>13, <1>14, <1>16, <1>20, <1>22, <1>23,
           FinishKept

\* The completion of an open.
LEMMA CleanCompletesOpen ==
    ASSUME WritesInv, Orderly, CompletesOpen
    PROVE  Orderly'
<1> DEFINE c == commands[1]
           q == Tail(commands)
<1>1. recovery' = recovery /\ UNCHANGED <<worker, writer, files, database, saved>>
  BY DEF CompletesOpen
<1>2. /\ commands # <<>> /\ c.code # "" /\ c.op = "open"
      /\ \/ /\ c.code = "ok" /\ commands' = Retired(q)
            /\ acked' = IF c.recovered THEN acked \union files ELSE acked
            /\ given' = IF c.recovered /\ ~session.ready THEN given \ files ELSE given
            /\ \E s : Reopened(s, session, c.recovered) /\ Opens(s, opener)
         \/ /\ c.code # "ok" /\ commands' = q /\ acked' = acked /\ given' = given
            /\ \E s : Ended(s, session) /\ Opens(s, opener)
  BY CompletesOpenDoes
<1>3. /\ commands \in Seq(Commands) /\ q \in Seq(Commands) /\ c \in Commands
      /\ 1 \in DOMAIN commands /\ Within(q, commands) /\ Derived(q, commands)
      /\ ~Pending(q) /\ (Pending(commands) => c.code = "ok")
      /\ (c.code = "ok" => Done(c) /\ session.connected)
  BY <1>2, AnswersAlone
<1>4. \A n \in DOMAIN q : n + 1 \in DOMAIN commands /\ n + 1 # 1 /\ q[n] = commands[n + 1]
  BY <1>2, AnswersAlone
<1>5. session.connected =>
          /\ Live(c) /\ session.opening /\ opener = Idle
          /\ \A m \in DOMAIN commands : commands[m].op = "open" => m = 1
  BY <1>2, <1>3 DEF Orderly, Queued
<1>6. session.connected => \A n \in DOMAIN q : q[n].op # "open"
  BY <1>4, <1>5
<1>7. Idle.phase = "idle"
  BY DEF Idle
<1>8. c.code = "ok" => worker.staged = {} /\ recovery.journal = {}
  BY <1>2, <1>3 DEF Orderly, Told
<1> HIDE DEF c, q
<1>9. database' \subseteq saved'
  BY <1>1 DEF Orderly
<1>10. CASE /\ c.code = "ok" /\ commands' = Retired(q)
            /\ acked' = IF c.recovered THEN acked \union files ELSE acked
            /\ given' = IF c.recovered /\ ~session.ready THEN given \ files ELSE given
            /\ \E s : Reopened(s, session, c.recovered) /\ Opens(s, opener)
  <2>1. PICK s : Reopened(s, session, c.recovered) /\ Opens(s, opener)
    BY <1>10
  <2>2. session.connected /\ session.opening /\ opener = Idle
    BY <1>3, <1>5, <1>10
  <2>3. /\ session'.loaded /\ session'.opened /\ session'.connected
        /\ session'.starting = session.starting /\ session'.databaseDirty = c.recovered
        /\ session'.marked = session.marked /\ session'.writing = session.writing
        /\ \/ session'.opening /\ opener' = [phase |-> "unpack"]
           \/ ~session'.opening /\ opener' = Idle
    BY <2>1, <2>2 DEF Reopened, Opens
  <2>4. Dead(commands') /\ Derived(commands', commands)
    BY <1>3, <1>10, RetiredDerived
  <2>5. \A n \in DOMAIN commands' : commands'[n].op # "open" /\ commands'[n].code = "stopped"
    BY <1>3, <1>6, <1>10, <2>2, RetiredKeeps
  <2>6. worker.staged = {} /\ recovery.journal = {}
    BY <1>8, <1>10
  <2>7. Linked(session', worker', opener')
    BY <1>1, <2>2, <2>3, <2>6 DEF Orderly, Linked
  <2>8. Queued(session', commands', opener')
    BY <2>5 DEF Queued, Live
  <2>9. Told(commands', worker', recovery'.journal) /\ Numbered(commands', acked')
    BY <2>5 DEF Told, Numbered
  <2>10. Written(writer) /\ ~session.marked => files \subseteq saved
    BY <2>2 DEF Orderly, Opening
  <2>11. Opening(session', worker', writer', files', recovery'.journal, saved')
    BY <1>1, <2>3, <2>6, <2>10 DEF Orderly, Opening
  <2>12. ~Replaced(opener', commands')
    <3>1. opener'.phase \in {"unpack", "idle"}
      BY <1>7, <2>3
    <3> QED BY <2>5, <3>1 DEF Replaced
  <2>13. ~c.recovered => files \intersect Due' = {}
    <3>1. SUFFICES ASSUME ~c.recovered PROVE files \intersect Due' = {}
      OBVIOUS
    <3>2. Due' = Due
      BY <1>1, <1>10, <3>1 DEF Due, Missed
    <3>3. Replaced(opener, commands)
      BY <1>2, <1>3, <1>5, <2>2, <3>1 DEF Replaced, c
    <3> QED BY <2>2, <3>2, <3>3 DEF Orderly, Flagged
  <2>14. Written(writer) /\ ~session.marked => files \intersect Due' = {}
    BY <1>1, <2>10 DEF Due, Missed
  <2>15. Flagged(session', commands', worker', opener', writer', files', recovery'.journal, Due')
    BY <1>1, <2>3, <2>6, <2>12, <2>13, <2>14 DEF Flagged
  <2> QED BY <1>9, <2>7, <2>8, <2>9, <2>11, <2>15 DEF Orderly
<1>11. CASE /\ c.code # "ok" /\ commands' = q /\ acked' = acked /\ given' = given
            /\ \E s : Ended(s, session) /\ Opens(s, opener)
  <2>1. PICK s : Ended(s, session) /\ Opens(s, opener)
    BY <1>11
  <2>2. /\ session'.loaded = session.loaded /\ session'.opened = session.opened
        /\ session'.connected = session.connected /\ session'.starting = session.starting
        /\ session'.epoch = session.epoch /\ session'.dirty = session.dirty
        /\ session'.databaseDirty = session.databaseDirty /\ session'.marked = session.marked
        /\ session'.writing = session.writing /\ session'.waiting = session.waiting
        /\ \/ session.connected /\ session'.opening /\ opener' = [phase |-> "unpack"]
           \/ ~session'.opening /\ opener' = opener
    BY <2>1 DEF Ended, Opens
  <2>3. Due' = Due
    BY <1>1, <1>11 DEF Due, Missed
  <2>4. Numbered(commands', acked') /\ Told(commands', worker', recovery'.journal)
    BY <1>1, <1>3, <1>11, NumberedDerived, ToldDerived DEF Orderly
  <2>5. CASE ~session.connected
    <3>1. ~session.loaded /\ worker.staged = {} /\ ~session'.opening /\ opener' = opener
      BY <2>2, <2>5 DEF Orderly, Linked
    <3>2. Linked(session', worker', opener')
      BY <1>1, <2>2, <2>5, <3>1 DEF Orderly, Linked
    <3>3. Dead(commands')
      <4>1. Dead(commands)
        BY <2>5, QueuedOver DEF Orderly
      <4> QED BY <1>4, <1>11, <4>1 DEF Dead
    <3>4. Queued(session', commands', opener')
      BY <2>2, <2>5, <3>3, QueuedDead
    <3>5. Opening(session', worker', writer', files', recovery'.journal, saved')
      BY <1>1, <2>2, <3>1, OpeningNone DEF Orderly, Opening
    <3>6. Flagged(session', commands', worker', opener', writer', files', recovery'.journal, Due')
      BY <1>1, <2>2, <2>5, <3>1, FlaggedNone
    <3> QED BY <1>9, <2>4, <3>2, <3>4, <3>5, <3>6 DEF Orderly
  <2>6. CASE session.connected
    <3>1. session.opening /\ opener = Idle
      BY <1>5, <2>6
    <3>2. Linked(session', worker', opener')
      BY <1>1, <2>2, <2>6, <3>1 DEF Orderly, Linked
    <3>3. Queued(session', commands', opener')
      <4>1. ASSUME NEW n \in DOMAIN q
            PROVE  /\ Live(q[n]) => q[n].epoch = session'.epoch /\ session'.connected
                   /\ ~(Live(q[n]) /\ Edit(q[n]))
                   /\ q[n].code \notin {"ok", "failed"} /\ q[n].op # "open"
        BY <1>4, <1>6, <2>2, <2>6, <3>1, <4>1 DEF Orderly, Queued
      <4> QED BY <1>11, <4>1 DEF Queued
    <3>4. ToDatabase(session', writer') => ToDatabase(session, writer)
      BY <1>1, <2>2 DEF ToDatabase
    <3>5. Opening(session', worker', writer', files', recovery'.journal, saved')
      BY <1>1, <2>2, <3>1, <3>4, OpeningLess DEF Orderly, Opening
    <3>6. ~Replaced(opener', commands')
      <4>1. opener'.phase \in {"unpack", "idle"}
        BY <1>7, <2>2, <3>1
      <4> QED BY <1>6, <1>11, <2>6, <4>1 DEF Replaced
    <3>7. ~Pending(commands)
      BY <1>3, <1>11
    <3>8. Flagged(session', commands', worker', opener', writer', files', recovery'.journal, Due')
      BY <1>1, <2>2, <2>3, <3>1, <3>6, <3>7, FlaggedLess DEF Orderly
    <3> QED BY <1>9, <2>4, <3>2, <3>3, <3>5, <3>8 DEF Orderly
  <2> QED BY <2>5, <2>6
<1> QED BY <1>2, <1>10, <1>11

\* While a thread unpacks, no open waits for a worker that is connected.
LEMMA NoneWaits ==
    ASSUME Orderly, opener # Idle, session.connected
    PROVE  session.opening /\ \A n \in DOMAIN commands : commands[n].op # "open"
  BY DEF Orderly, Linked, Queued

\* The database is unpacked.
LEMMA CleanUnpacks ==
    ASSUME WritesInv, Orderly, Unpacks
    PROVE  Orderly'
<1>1. UNCHANGED <<session, commands, worker, writer, database, acked, saved, given>>
  BY DEF Unpacks
<1>2. /\ opener # Idle /\ opener' # Idle /\ opener'.phase \in {"read", "failed"}
      /\ recovery'.journal = recovery.journal /\ files' \subseteq files \union database
      /\ opener'.phase = "read" /\ ~opener'.recovered => files' = database /\ recovery.journal = {}
  BY UnpacksDoes
<1>3. Due' = Due /\ database \subseteq saved /\ database \intersect Due = {}
  BY <1>1 DEF Due, Missed, Orderly
<1>4. Linked(session', worker', opener')
  BY <1>1, <1>2 DEF Orderly, Linked
<1>5. Queued(session', commands', opener')
  BY <1>1, <1>2 DEF Orderly, Queued
<1>6. Told(commands', worker', recovery'.journal) /\ Numbered(commands', acked')
  BY <1>1, <1>2 DEF Orderly
<1>7. Opening(session', worker', writer', files', recovery'.journal, saved')
  BY <1>1, <1>2, <1>3 DEF Orderly, Opening
<1>8. Flagged(session', commands', worker', opener', writer', files', recovery'.journal, Due')
  <2>1. Flagged(session, commands, worker, opener, writer, files, recovery.journal, Due)
    BY DEF Orderly
  <2>2. files' \intersect Due # {} => files \intersect Due # {}
    BY <1>2, <1>3
  <2>3. session.connected /\ Replaced(opener', commands) => files' = database /\ recovery.journal = {}
    BY <1>2, NoneWaits DEF Replaced
  <2>4. session.connected /\ Replaced(opener', commands) =>
            (files' \union recovery.journal) \intersect Due = {}
    BY <1>3, <2>3
  <2> QED BY <1>1, <1>2, <1>3, <2>1, <2>2, <2>4 DEF Flagged
<1> QED BY <1>1, <1>3, <1>4, <1>5, <1>6, <1>7, <1>8 DEF Orderly

\* What was unpacked is read.
LEMMA CleanOpenerReads ==
    ASSUME WritesInv, Orderly, OpenerReads
    PROVE  Orderly'
<1>1. /\ recovery' = recovery
      /\ UNCHANGED <<session, commands, worker, writer, files, database, acked, saved, given>>
  BY DEF OpenerReads, ghosts
<1>2. /\ opener # Idle /\ opener' # Idle /\ opener.phase = "read"
      /\ \/ opener'.phase = "unpacked" /\ opener'.recovered = opener.recovered
         \/ opener'.phase = "failed"
  BY OpenerReadsDoes
<1>3. Due' = Due
  BY <1>1 DEF Due, Missed
<1>4. Linked(session', worker', opener')
  BY <1>1, <1>2 DEF Orderly, Linked
<1>5. Queued(session', commands', opener')
  BY <1>1, <1>2 DEF Orderly, Queued
<1>6. Replaced(opener', commands') => Replaced(opener, commands)
  BY <1>1, <1>2 DEF Replaced
<1>7. Flagged(session', commands', worker', opener', writer', files', recovery'.journal, Due')
  BY <1>1, <1>3, <1>6, FlaggedLess DEF Orderly
<1> QED BY <1>1, <1>4, <1>5, <1>7 DEF Orderly

\* The unpacked database is opened, or the error is shown.
LEMMA CleanUnpacked ==
    ASSUME WritesInv, Orderly, Unpacked
    PROVE  Orderly'
<1>1. /\ recovery' = recovery /\ UNCHANGED <<worker, writer, files, database, acked, saved, given>>
  BY DEF Unpacked, ghosts
<1>2. Due' = Due /\ commands \in Seq(Commands) /\ database' \subseteq saved'
  BY <1>1 DEF Due, Missed, WritesInv, CommandsOK, Orderly
<1>3. Idle.phase = "idle"
  BY DEF Idle
<1>4. CASE QueuesOpen
  <2>1. PICK c : commands' = Append(commands, c) /\ IsOpen(c, session, opener.recovered)
    BY <1>4 DEF QueuesOpen
  <2>2. opener.phase = "unpacked" /\ opener' = Idle /\ session' = session /\ opener # Idle
    BY <1>3, <1>4 DEF QueuesOpen
  <2>3. /\ c \in Commands /\ c.op = "open" /\ c.epoch = session.epoch
        /\ c.recovered = opener.recovered
        /\ c.code = IF session.connected THEN "" ELSE "unavailable"
    BY <2>1 DEF IsOpen
  <2>4. Appended(commands', commands, c)
    BY <1>2, <2>1, <2>3, AppendIs, Zenon
  <2>5. Linked(session', worker', opener')
    BY <1>1, <2>2 DEF Orderly, Linked
  <2>6. Queued(session', commands', opener')
    <3>1. CASE session.connected
      <4>1. session.opening /\ \A n \in DOMAIN commands : commands[n].op # "open"
        BY <2>2, <3>1, NoneWaits
      <4>2. \A m \in DOMAIN commands' : commands'[m].op = "open" => m = Len(commands) + 1
        BY <2>4, <4>1 DEF Appended
      <4>3. ASSUME NEW n \in DOMAIN commands
            PROVE  /\ Live(commands[n]) => commands[n].epoch = session.epoch /\ session.connected
                   /\ Live(commands[n]) /\ Edit(commands[n]) => session.loaded /\ ~session.opening
                   /\ n # 1 => commands[n].code \notin {"ok", "failed"}
                   /\ commands[n].op # "open"
        BY <4>1 DEF Orderly, Queued
      <4>4. Live(c) /\ ~Edit(c) /\ c.code \notin {"ok", "failed"} /\ c.epoch = session.epoch
        BY <2>3, <3>1 DEF Live, Edit
      <4> QED BY <2>2, <2>4, <3>1, <4>1, <4>2, <4>3, <4>4 DEF Queued, Appended
    <3>2. CASE ~session.connected
      <4>1. Dead(commands) /\ ~Live(c)
        BY <2>3, <3>2, QueuedOver DEF Orderly, Live
      <4>2. Dead(commands')
        BY <2>4, <4>1 DEF Dead, Appended
      <4> QED BY <2>2, <3>2, <4>2, QueuedDead
    <3> QED BY <3>1, <3>2
  <2>7. /\ Told(commands', worker', recovery'.journal) /\ (Pending(commands) => Pending(commands'))
    BY <1>1, <1>2, <2>1, <2>3, ToldAppend DEF Orderly
  <2>8. Numbered(commands', acked')
    BY <1>1, <1>2, <2>1, <2>3, NumberedAppend DEF Orderly, Edit
  <2>9. Opening(session', worker', writer', files', recovery'.journal, saved')
    BY <1>1, <2>2 DEF Orderly
  <2>10. Replaced(opener', commands') => Replaced(opener, commands)
    <3>1. opener'.phase = "idle"
      BY <1>3, <2>2
    <3> QED BY <2>2, <2>3, <2>4, <3>1 DEF Replaced, Appended
  <2>11. Flagged(session', commands', worker', opener', writer', files', recovery'.journal, Due')
    BY <1>1, <1>2, <2>2, <2>7, <2>10, FlaggedLess DEF Orderly
  <2> QED BY <1>2, <2>5, <2>6, <2>7, <2>8, <2>9, <2>11 DEF Orderly
<1>5. CASE /\ opener \in Openers /\ commands' = commands
           /\ \E s : Ended(s, session) /\ Opens(s, Idle)
  <2>1. PICK s : Ended(s, session) /\ Opens(s, Idle)
    BY <1>5
  <2>2. opener # Idle
    BY <1>5, IdleIsNone
  <2>3. /\ session'.loaded = session.loaded /\ session'.opened = session.opened
        /\ session'.connected = session.connected /\ session'.starting = session.starting
        /\ session'.epoch = session.epoch /\ session'.dirty = session.dirty
        /\ session'.databaseDirty = session.databaseDirty /\ session'.marked = session.marked
        /\ session'.writing = session.writing /\ session'.waiting = session.waiting
        /\ \/ session.connected /\ session'.opening /\ opener' = [phase |-> "unpack"]
           \/ ~session'.opening /\ opener' = Idle
    BY <2>1 DEF Ended, Opens
  <2>4. session'.opening => session.opening
    BY <2>2, <2>3, NoneWaits
  <2>5. Linked(session', worker', opener')
    BY <1>1, <2>3 DEF Orderly, Linked
  <2>6. Queued(session', commands', opener')
    <3>1. CASE session.connected
      <4>1. session.opening /\ \A n \in DOMAIN commands : commands[n].op # "open"
        BY <2>2, <3>1, NoneWaits
      <4> QED BY <1>5, <2>3, <3>1, <4>1 DEF Orderly, Queued
    <3>2. CASE ~session.connected
      BY <1>5, <2>3, <3>2, QueuedOver, QueuedDead DEF Orderly
    <3> QED BY <3>1, <3>2
  <2>7. Told(commands', worker', recovery'.journal) /\ Numbered(commands', acked')
    BY <1>1, <1>5 DEF Orderly
  <2>8. ToDatabase(session', writer') => ToDatabase(session, writer)
    BY <1>1, <2>3 DEF ToDatabase
  <2>9. Opening(session', worker', writer', files', recovery'.journal, saved')
    BY <1>1, <2>3, <2>4, <2>8, OpeningLess DEF Orderly, Opening
  <2>10. session.connected => ~Replaced(opener', commands')
    <3>1. opener'.phase \in {"unpack", "idle"}
      BY <1>3, <2>3
    <3> QED BY <1>5, <2>2, <3>1, NoneWaits DEF Replaced
  <2>11. Flagged(session', commands', worker', opener', writer', files', recovery'.journal, Due')
    BY <1>1, <1>2, <1>5, <2>3, <2>4, <2>10, FlaggedLess DEF Orderly
  <2> QED BY <1>2, <2>5, <2>6, <2>7, <2>9, <2>11 DEF Orderly
<1> QED BY <1>4, <1>5, UnpackedDoes

\* A write goes on without having written.
LEMMA CleanAdvances ==
    ASSUME WritesInv, Orderly, Advances, Written(writer') => Written(writer),
           session' = session, database' \subseteq saved', saved \subseteq saved',
           recovery'.journal = recovery.journal,
           UNCHANGED <<commands, worker, opener, files, acked, given>>
    PROVE  Orderly'
<1>1. ToDatabase(session', writer') => ToDatabase(session, writer)
  BY DEF Advances, ToDatabase
<1>2. worker.process = "starting" => ~session'.writing
  BY DEF Orderly, Opening
<1>3. /\ Situated(session', session) /\ session'.dirty = session.dirty
      /\ session'.databaseDirty = session.databaseDirty
  BY DEF Situated
<1>4. Written(writer') /\ ~session'.marked => Written(writer) /\ ~session.marked
  OBVIOUS
<1> QED BY <1>1, <1>2, <1>3, <1>4, OrderlyWriter

\* The write looks at the database.
LEMMA CleanWriterChecks ==
    ASSUME WritesInv, Orderly, WriterChecks
    PROVE  Orderly'
<1>1. /\ recovery' = recovery /\ session' = session
      /\ UNCHANGED <<commands, worker, opener, files, database, acked, saved, given>>
  BY DEF WriterChecks, ghosts
<1>2. Advances /\ ~Written(writer')
  BY WriterChecksDoes DEF Written
<1>3. database' \subseteq saved' /\ saved \subseteq saved'
  BY <1>1 DEF Orderly
<1> QED BY <1>1, <1>2, <1>3, CleanAdvances

\* The database is written.
LEMMA CleanWriterSaves ==
    ASSUME WritesInv, Orderly, WriterSaves
    PROVE  Orderly'
<1>1. UNCHANGED <<session, commands, worker, opener, files, acked, given>>
  BY DEF WriterSaves
<1>2. /\ Advances /\ recovery'.journal = recovery.journal
      /\ \/ writer'.phase = "read" /\ writer'.code = ""
         \/ writer'.phase = "done" /\ writer'.code = "error"
      /\ \/ database' = files /\ saved' = saved \union files
         \/ UNCHANGED <<database, saved>> /\ ~(writer'.phase = "read" /\ writer'.path = "database")
  BY WriterSavesDoes
<1>3. database' \subseteq saved' /\ saved \subseteq saved'
  BY <1>2 DEF Orderly
<1>4. CASE ~Written(writer')
  BY <1>1, <1>2, <1>3, <1>4, CleanAdvances
<1>5. CASE Written(writer')
  <2>1. files \subseteq saved'
    BY <1>2, <1>5 DEF Written
  <2>2. Due' \subseteq Due /\ files \intersect Due' = {}
    BY <1>1, <1>3, <2>1 DEF Due, Missed
  <2>3. ToDatabase(session', writer') => ToDatabase(session, writer)
    BY <1>1, <1>2 DEF Advances, ToDatabase
  <2>4. Opening(session', worker', writer', files', recovery'.journal, saved')
    BY <1>1, <1>2, <2>1, <2>3 DEF Orderly, Opening
  <2>5. Flagged(session', commands', worker', opener', writer', files', recovery'.journal, Due')
    <3>1. Flagged(session, commands, worker, opener, writer, files, recovery.journal, Due)
      BY DEF Orderly
    <3>2. /\ worker.staged \intersect Due' # {} => worker.staged \intersect Due # {}
          /\ recovery.journal \intersect Due' # {} => recovery.journal \intersect Due # {}
          /\ (files \union recovery.journal) \intersect Due = {} =>
                (files \union recovery.journal) \intersect Due' = {}
      BY <2>2
    <3> QED BY <1>1, <1>2, <2>2, <3>1, <3>2 DEF Flagged
  <2>6. /\ Linked(session', worker', opener') /\ Queued(session', commands', opener')
        /\ Told(commands', worker', recovery'.journal) /\ Numbered(commands', acked')
    BY <1>1, <1>2 DEF Orderly
  <2> QED BY <1>3, <2>4, <2>5, <2>6 DEF Orderly
<1> QED BY <1>4, <1>5

\* What was written is read.
LEMMA CleanWriterReads ==
    ASSUME WritesInv, Orderly, WriterReads
    PROVE  Orderly'
<1>1. /\ recovery' = recovery /\ session' = session
      /\ UNCHANGED <<commands, worker, opener, files, database, acked, saved, given>>
  BY DEF WriterReads, ghosts
<1>2. Advances /\ (Written(writer') => Written(writer))
  BY WriterReadsDoes DEF Written, Advances
<1>3. database' \subseteq saved' /\ saved \subseteq saved'
  BY <1>1 DEF Orderly
<1> QED BY <1>1, <1>2, <1>3, CleanAdvances

\* The write ends.
LEMMA CleanWriterEnds ==
    ASSUME WritesInv, Orderly, WriterEnds
    PROVE  CleanInv'
<1>1. /\ recovery' = recovery /\ UNCHANGED <<opener, files, database, acked, saved, given>>
      /\ commands \in Seq(Commands)
  BY DEF WriterEnds, WritesInv, CommandsOK
<1>2. /\ writer \in Writers /\ writer # Idle /\ writer.phase = "done" /\ session.writing
      /\ session.pendingWrites > 0
  BY WriterAtEnd
<1>3. Due' = Due /\ database' \subseteq saved' /\ saved \subseteq saved'
  BY <1>1 DEF Due, Missed, Orderly
<1>4. CASE /\ writer.code = "changed" /\ writer' = [writer EXCEPT !.phase = "asking"]
           /\ UNCHANGED <<session, commands, worker>>
  <2>1. Advances /\ writer'.phase = "asking"
    BY <1>2, <1>4, AsksDoes
  <2>2. Written(writer') => Written(writer)
    BY <2>1 DEF Written
  <2>3. Orderly'
    BY <1>1, <1>3, <1>4, <2>1, <2>2, CleanAdvances
  <2> QED BY <2>3 DEF CleanInv
<1>5. CASE writer.code \in {"ok", "error"} /\ \E t : Ending(t) /\ Finishes(t, commands)
  <2>1. PICK t : Ending(t) /\ Finishes(t, commands)
    BY <1>5
  <2>2. /\ t \in Sessions /\ Situated(t, session) /\ t.dirty = session.dirty
        /\ t.waiting = Nothing
    BY <2>1 DEF Ending
  <2>3. CountedAs(t, commands) /\ WritingAs(t, writer')
    BY <1>2, <1>5, <2>1, EndingCounts
  <2>4. ~Written(writer') /\ (writer' # Idle => writer'.path = session.waiting.path)
    <3>1. CASE writer' = Idle
      BY <3>1, IdleNot
    <3>2. CASE Begun(writer', t, session.waiting.path, session.waiting.replace)
      BY <3>2, BegunNot
    <3> QED BY <2>1, <3>1, <3>2 DEF Ending
  <2>5. ToDatabase(t, writer') => ToDatabase(session, writer)
    <3>1. Nothing.path # "database"
      BY DEF Nothing
    <3> QED BY <2>2, <2>4, <3>1 DEF ToDatabase
  <2>6. Opening(t, worker, writer', files, recovery.journal, saved')
    BY <1>1, <1>2, <2>2, <2>4, <2>5 DEF Orderly, Opening, Situated
  <2>7. t.databaseDirty = session.databaseDirty \/ (Written(writer) /\ ~session.marked)
    <3>1. CASE writer.code = "error"
      BY <2>1, <3>1 DEF Ending
    <3>2. CASE writer.code = "ok"
      <4>1. writer.opened <=> writer.path = "database"
        BY <1>2 DEF WritesInv, Writing, WritingAs
      <4>2. writer.path = "database" => Written(writer)
        BY <1>2, <3>2 DEF Written
      <4>3. t.databaseDirty = (session.databaseDirty /\ ~(IF writer.opened THEN ~session.marked
                                                          ELSE writer.path = "database"))
        BY <2>1, <3>2 DEF Ending
      <4>4. session.databaseDirty \in BOOLEAN
        BY DEF WritesInv, SessionOK, Sessions
      <4>5. ~(writer.path = "database" /\ ~session.marked) =>
                t.databaseDirty = session.databaseDirty
        BY <4>1, <4>3, <4>4
      <4> QED BY <4>2, <4>5
    <3> QED BY <1>5, <3>1, <3>2
  <2>8. Flagged(t, commands, worker, opener, writer', files, recovery.journal, Due')
    <3>1. Flagged(session, commands, worker, opener, writer, files, recovery.journal, Due)
      BY DEF Orderly
    <3>2. session.loaded /\ files \intersect Due # {} =>
              session.dirty \/ t.databaseDirty \/ Pending(commands)
      BY <2>7, <3>1 DEF Flagged
    <3> QED BY <1>3, <2>2, <2>4, <3>1, <3>2 DEF Flagged, Situated
  <2>9. Linked(t, worker, opener)
    BY <2>2, LinkedSame DEF Orderly
  <2>10. Queued(t, commands, opener)
    BY <1>1, <2>2, QueuedWithin, WithinItself DEF Orderly
  <2>11. Told(commands, worker, recovery.journal) /\ Numbered(commands, acked')
    BY <1>1 DEF Orderly
  <2> QED BY <1>1, <1>3, <2>1, <2>2, <2>3, <2>6, <2>8, <2>9, <2>10, <2>11, FinishKept
<1> QED BY <1>2, <1>4, <1>5, WriterEndsDoes DEF WritesInv

\* Another workbench writes the database.
LEMMA CleanAnotherWrites ==
    ASSUME WritesInv, Orderly, AnotherWrites
    PROVE  Orderly'
<1>1. /\ recovery' = recovery /\ session' = session /\ writer' = writer
      /\ UNCHANGED <<commands, worker, opener, files, acked, given>>
      /\ database' \subseteq saved' /\ saved \subseteq saved'
  BY DEF AnotherWrites
<1>2. Situated(session', session)
  BY <1>1 DEF Situated
<1>3. worker.process = "starting" => ~session'.writing
  BY <1>1 DEF Orderly, Opening
<1> QED BY <1>1, <1>2, <1>3, OrderlyWriter

\* finishTransition does not take a quit back.
LEMMA QuitFinishes ==
    ASSUME NEW s \in Sessions, NEW queue, Finishes(s, queue), s.quit
    PROVE  session'.quit
<1>1. Over(s).quit = s.quit
  BY DEF Over, Sessions
<1> QED BY <1>1 DEF Finishes, GoesOn

\* What the user does, does not take it back.
LEMMA QuitUser ==
    ASSUME WritesInv, session.quit, User \/ UserAnswers
    PROVE  session'.quit
<1>1. ASSUME NEW op \in {"note", "edit"}, MakesEdit(op)
      PROVE  session'.quit
  BY <1>1 DEF MakesEdit, Attended
<1>2. ASSUME Saves \/ Packs \/ Bookmarks
      PROVE  session'.quit
  BY <1>2 DEF Saves, Packs, Bookmarks, Attended
<1>3. ASSUME NEW action \in Actions, Leaves(action)
      PROVE  session'.quit
  BY <1>3 DEF Leaves, Attended
<1>4. ASSUME NEW choice \in {"save", "discard", "cancel"}, AnswersTransition(choice)
      PROVE  session'.quit
  <2>1. CASE session' = session
    BY <2>1
  <2>2. CASE Cancels(session', session)
    BY <2>2 DEF Cancels, Situated
  <2>3. CASE Queues(session, "save", "transition", 0)
    BY <2>3 DEF Queues, Situated
  <2>4. ASSUME NEW s, Discards(s, session), Finishes(s, commands)
        PROVE  session'.quit
    <3>1. s \in Sessions /\ s.quit
      BY <2>4 DEF Discards, Situated
    <3> QED BY <2>4, <3>1, QuitFinishes
  <2> QED BY <1>4, <2>1, <2>2, <2>3, <2>4, AnswersTransitionDoes
<1>5. ASSUME NEW replace \in BOOLEAN, AnswersConflict(replace)
      PROVE  session'.quit
  BY <1>5, AnswersConflictDoes DEF Resolves, Situated
<1> QED BY <1>1, <1>2, <1>3, <1>4, <1>5 DEF User, UserAnswers

\* Nor does the event loop.
LEMMA QuitEventLoop ==
    ASSUME WritesInv, session.quit, EventLoop
    PROVE  session'.quit
<1>1. CASE HearsStopped
  BY <1>1, HearsStoppedDoes DEF Stops
<1>2. CASE HearsHello
  BY <1>2, HearsHelloDoes DEF Greeted, Opens
<1>3. CASE Completes
  <2>1. /\ commands # <<>> /\ commands \in Seq(Commands) /\ 1 \in DOMAIN commands
        /\ commands[1].op # "open"
    BY <1>3, WritesTail DEF WritesInv, CommandsOK, Completes
  <2>2. session.pendingWrites > 0
    BY <2>1, PendingIsCounted
  <2>3. PICK s : Completion(s, commands[1]) /\ Finishes(s, Tail(commands))
    BY <1>3, <2>2, CompletesDoes DEF WritesInv
  <2>4. s \in Sessions /\ s.quit
    BY <2>3 DEF Completion
  <2> QED BY <2>3, <2>4, QuitFinishes
<1>4. CASE CompletesOpen
  BY <1>4, CompletesOpenDoes DEF Reopened, Ended, Opens
<1>5. CASE Unpacked
  BY <1>5, UnpackedDoes DEF QueuesOpen, Ended, Opens
<1>6. CASE WriterEnds
  <2>1. session.pendingWrites > 0
    BY <1>6, WriterAtEnd
  <2>2. session' = session \/ \E t : Ending(t) /\ Finishes(t, commands)
    BY <1>6, <2>1, WriterEndsDoes DEF WritesInv
  <2>3. ASSUME NEW t, Ending(t), Finishes(t, commands)
        PROVE  session'.quit
    <3>1. t \in Sessions /\ t.quit
      BY <2>3 DEF Ending, Situated
    <3> QED BY <2>3, <3>1, QuitFinishes
  <2> QED BY <2>2, <2>3
<1> QED BY <1>1, <1>2, <1>3, <1>4, <1>5, <1>6 DEF EventLoop

\* At first all is in order.
LEMMA CleanInit ==
    ASSUME Init
    PROVE  CleanInv
<1>1. /\ session.loaded /\ session.opened /\ ~session.opening /\ session.connected
      /\ ~session.starting /\ worker.process = "up" /\ worker.staged = {} /\ opener = Idle
      /\ writer = Idle /\ commands = <<>> /\ files = {} /\ database = {} /\ recovery.journal = {}
  BY DEF Init
<1>2. DOMAIN commands = {}
  BY <1>1
<1>3. Linked(session, worker, opener)
  BY <1>1 DEF Linked
<1>4. /\ Queued(session, commands, opener) /\ Told(commands, worker, recovery.journal)
      /\ Numbered(commands, acked)
  BY <1>2 DEF Queued, Told, Numbered
<1>5. Opening(session, worker, writer, files, recovery.journal, saved)
  BY <1>1 DEF Opening
<1>6. Flagged(session, commands, worker, opener, writer, files, recovery.journal, Due)
  BY <1>1 DEF Flagged
<1> QED BY <1>1, <1>3, <1>4, <1>5, <1>6 DEF CleanInv, Orderly

\* Every step keeps the order, or the session quits and stays so.
LEMMA CleanStep ==
    ASSUME WritesInv, CleanInv, "opening" \notin Events, [Next]_vars
    PROVE  CleanInv'
<1>1. CASE session.quit
  <2>1. CASE User \/ UserAnswers \/ EventLoop
    BY <1>1, <2>1, QuitUser, QuitEventLoop DEF CleanInv
  <2>2. CASE WorkerRuns \/ Exits \/ Threads \/ AnotherWrites \/ UNCHANGED vars
    <3>1. session' = session
      BY <2>2 DEF WorkerRuns, Exits, Threads, AnotherWrites, vars, Unpacks, OpenerReads,
                  WriterChecks, WriterSaves, WriterReads
    <3> QED BY <1>1, <3>1 DEF CleanInv
  <2> QED BY <2>1, <2>2 DEF Next
<1>2. CASE Orderly
  <2>1. CASE User
    <3>1. CASE \E op \in {"note", "edit"} : MakesEdit(op)
      BY <1>2, <3>1, CleanMakesEdit DEF CleanInv
    <3>2. CASE \E action \in Actions : Leaves(action)
      BY <1>2, <3>2, CleanLeaves
    <3>3. CASE Saves \/ Packs \/ Bookmarks
      BY <1>2, <3>3, CleanSaves, CleanPacks, CleanBookmarks DEF CleanInv
    <3> QED BY <2>1, <3>1, <3>2, <3>3 DEF User
  <2>2. CASE UserAnswers
    <3>1. CASE \E choice \in {"save", "discard", "cancel"} : AnswersTransition(choice)
      BY <1>2, <3>1, CleanAnswersTransition
    <3>2. CASE \E replace \in BOOLEAN : AnswersConflict(replace)
      BY <1>2, <3>2, CleanAnswersConflict DEF CleanInv
    <3> QED BY <2>2, <3>1, <3>2 DEF UserAnswers
  <2>3. CASE EventLoop
    <3>1. CASE Completes \/ WriterEnds
      BY <1>2, <3>1, CleanCompletes, CleanWriterEnds
    <3>2. CASE HearsStopped \/ HearsHello \/ CompletesOpen \/ Unpacked
      BY <1>2, <3>2, CleanHearsStopped, CleanHearsHello, CleanCompletesOpen, CleanUnpacked
         DEF CleanInv
    <3> QED BY <2>3, <3>1, <3>2 DEF EventLoop
  <2>4. CASE Threads
    BY <1>2, <2>4, CleanUnpacks, CleanOpenerReads, CleanWriterChecks, CleanWriterSaves,
       CleanWriterReads DEF Threads, CleanInv
  <2>5. CASE WorkerRuns \/ Exits \/ AnotherWrites
    BY <1>2, <2>5, CleanWorkerRuns, CleanExits, CleanAnotherWrites DEF CleanInv
  <2>6. CASE UNCHANGED vars
    BY <1>2, <2>6 DEF vars, ghosts, CleanInv, Orderly, Due, Missed
  <2> QED BY <2>1, <2>2, <2>3, <2>4, <2>5, <2>6 DEF Next
<1> QED BY <1>1, <1>2 DEF CleanInv

\* The inductive invariant behind a clean session.
THEOREM CleanInvariant ==
    ASSUME "opening" \notin Events
    PROVE  Spec => []CleanInv
<1>1. Init => CleanInv
  BY CleanInit
<1>2. WritesInv /\ CleanInv /\ [Next]_vars => CleanInv'
  BY CleanStep
<1> QED BY <1>1, <1>2, WritesInvariant, PTL DEF Spec

\* While Session::dirty says no, every edit the user was told is done, or that
\* a recovery showed, is in the database opened or was given up: through failed
\* saves, writes and unpackings, crashes of the worker, requests that overtake
\* each other and packs and bookmarks at any time.  Left out are edits during
\* an open, which Session accepts and a database opened then replaces.
THEOREM CleanMeansSavedHolds ==
    ASSUME "opening" \notin Events
    PROVE  Spec => []CleanMeansSaved
<1>1. WritesInv /\ CleanInv => CleanMeansSaved
  <2>1. ASSUME WritesInv, CleanInv, session.loaded, ~session.quit, ~Dirty(session)
        PROVE  (worker.staged \union files) \intersect Due = {}
    BY <2>1, CleanNow DEF CleanInv
  <2> QED BY <2>1 DEF CleanMeansSaved
<1> QED BY <1>1, WritesInvariant, CleanInvariant, PTL
=============================================================================
