------------------------ MODULE ProjectHistoryProofs ------------------------
(***************************************************************************)
(* Proofs about ProjectHistory for every set of tables, rows, commands and *)
(* inputs, every command limit and every number of faults.                 *)
(***************************************************************************)
EXTENDS ProjectHistory, TLAPS

-----------------------------------------------------------------------------
(* Facts about the operators on the history object.                        *)

\* stage() keeps the history object well formed: the cursor stays inside the
\* list and the list inside its limit, whatever the byte budget drops.
LEMMA StagedStore ==
    ASSUME NEW st \in Store, BoundedLine(st),
           NEW c \in Command, NEW drop \in Drops(st)
    PROVE  /\ Staged(st, c, drop) \in Store
           /\ BoundedLine(Staged(st, c, drop))
<1> DEFINE line == Append(SubSeq(st.commands, 1, st.cursor), c)
           kept == SubSeq(line, drop + 1, Len(line))
<1>1. st.commands \in Seq(Command) /\ st.cursor \in Nat /\ st.cursor <= Len(st.commands)
  BY DEF Store, BoundedLine
<1>2. SubSeq(st.commands, 1, st.cursor) \in Seq(Command)
      /\ Len(SubSeq(st.commands, 1, st.cursor)) = st.cursor
  BY <1>1
<1>3. line \in Seq(Command) /\ Len(line) = st.cursor + 1
  BY <1>2
<1>4. drop \in Nat /\ drop <= st.cursor + 1 /\ st.cursor + 1 - drop <= MaxCommands
  BY <1>1 DEF Drops
<1>5. kept \in Seq(Command) /\ Len(kept) = st.cursor + 1 - drop
  BY <1>1, <1>3, <1>4
<1>6. st.cursor + 1 - drop \in Nat
  BY <1>1, <1>4
<1>7. Staged(st, c, drop) = [st EXCEPT !.commands = kept, !.cursor = st.cursor + 1 - drop]
  BY DEF Staged
<1>8. Staged(st, c, drop) \in Store
  BY <1>5, <1>6, <1>7 DEF Store
<1>9. /\ Staged(st, c, drop).commands = kept
      /\ Staged(st, c, drop).cursor = st.cursor + 1 - drop
  BY <1>7 DEF Store
<1>10. BoundedLine(Staged(st, c, drop))
  <2> HIDE DEF line, kept
  <2> QED BY <1>4, <1>5, <1>6, <1>9 DEF BoundedLine
<1> QED BY <1>8, <1>10

\* advance() keeps the history object well formed.
LEMMA AdvancedStore ==
    ASSUME NEW st \in Store, BoundedLine(st), NEW redo \in BOOLEAN, CanMove(st, redo)
    PROVE  Advanced(st, redo) \in Store /\ BoundedLine(Advanced(st, redo))
<1>1. st.commands \in Seq(Command) /\ st.cursor \in Nat /\ st.cursor <= Len(st.commands)
      /\ Len(st.commands) \in Nat
  BY DEF Store, BoundedLine
<1> DEFINE new == IF redo THEN st.cursor + 1 ELSE st.cursor - 1
<1>2. new \in Nat /\ new <= Len(st.commands)
  BY <1>1 DEF CanMove
<1>3. Advanced(st, redo) = [st EXCEPT !.cursor = new]
  BY DEF Advanced
<1>4. Advanced(st, redo) \in Store /\ Advanced(st, redo).cursor = new
      /\ Advanced(st, redo).commands = st.commands
  BY <1>2, <1>3 DEF Store
<1> QED BY <1>2, <1>4 DEF BoundedLine

\* The document persist() writes describes the state it commits.
LEMMA DocumentType ==
    ASSUME NEW st \in Store, NEW s \in State
    PROVE  /\ Document(st, s) \in Doc
           /\ Document(st, s).state = s
           /\ Document(st, s).source = st.source
           /\ BoundedLine(st) => BoundedLine(Document(st, s))
BY DEF Document, Doc, Store, BoundedLine

-----------------------------------------------------------------------------
(* The inductive invariant.                                                *)

\* What a call in progress has already established: between calls nothing is
\* pending; the phases of recover() follow a journal that was admitted; the
\* phases of persist() have a history, a target and an unchanged input.
CallShape ==
    /\ phase = "idle" => todo = {} /\ next = NoState /\ checkpoint = NoStore
    /\ phase \in {"recover", "recover_history", "recover_clean"} =>
           /\ RecoverAllowed
           /\ \/ store = NoStore /\ next = NoState /\ checkpoint = NoStore
              \/ store # NoStore /\ next # NoState /\ store.source = input
    /\ phase = "load" => /\ store = NoStore /\ next = NoState /\ checkpoint = NoStore
                         /\ journal = NoJournal /\ todo = {}
    /\ phase \in {"check", "sidecars", "history", "clean"} =>
           store # NoStore /\ next # NoState /\ store.source = input
    /\ phase \notin {"recover", "sidecars"} => todo = {}

\* How far the call in progress has brought each file.
FilesInFlight ==
    /\ phase \in {"recover", "recover_history", "recover_clean"} =>
           \A t \in Table \ todo : tables[t] = journal.after[t]
    /\ phase = "recover_clean" => history = journal.afterDoc
    /\ phase = "load" => /\ history # NoDoc
                         /\ history.state = tables /\ history.source = input
    /\ phase \in {"sidecars", "history", "clean"} =>
           /\ journal = Transaction
           /\ todo \subseteq Table
           /\ \A t \in Table : tables[t] = IF t \in todo THEN journal.before[t]
                                                         ELSE journal.after[t]
    /\ phase \in {"sidecars", "history"} => history = journal.beforeDoc
    /\ phase = "clean" => history = journal.afterDoc

IndInv == TypeOK /\ CursorInBounds /\ CallShape /\ FilesInFlight /\ FilesConsistent

\* A history object as the invariant has it.
GoodStore(st) == st = NoStore \/ (st \in Store /\ BoundedLine(st))
GoodDoc(doc) == doc = NoDoc \/ (doc \in Doc /\ BoundedLine(doc))
GoodJournal(j) == j = NoJournal \/ (j \in Journal /\ BoundedLine(j.afterDoc))

\* The typing part of the invariant, file by file and object by object.
LEMMA GoodFromIndInv ==
    ASSUME IndInv
    PROVE  /\ GoodStore(store) /\ GoodStore(checkpoint)
           /\ GoodDoc(history) /\ GoodJournal(journal)
           /\ tables \in State /\ input \in Input /\ faults \in Nat
           /\ touched \in BOOLEAN /\ reply \in Reply
           /\ phase \in Phase /\ todo \in SUBSET Table
           /\ next \in State \union {NoState}
BY DEF IndInv, TypeOK, CursorInBounds, GoodStore, GoodDoc, GoodJournal

\* Whatever ends a call leaves everything but the files' agreement in order.
LEMMA CallEnded ==
    ASSUME IndInv, NEW result \in Reply, NEW st, GoodStore(st), EndCall(result, st),
           GoodDoc(history'), GoodJournal(journal'), tables' \in State,
           input' \in Input, touched' \in BOOLEAN, faults' \in Nat
    PROVE  TypeOK' /\ CursorInBounds' /\ CallShape' /\ FilesInFlight'
<1>1. /\ phase' = "idle" /\ todo' = {} /\ next' = NoState
      /\ checkpoint' = NoStore /\ store' = st /\ reply' = result
  BY DEF EndCall
<1>2. TypeOK'
  BY <1>1 DEF TypeOK, GoodStore, GoodDoc, GoodJournal, Phase
<1>3. CursorInBounds'
  BY <1>1, ConstantsAssumption
  DEF CursorInBounds, GoodStore, GoodDoc, GoodJournal, BoundedLine
<1>4. CallShape'
  BY <1>1 DEF CallShape
<1>5. FilesInFlight'
  BY <1>1 DEF FilesInFlight
<1> QED BY <1>2, <1>3, <1>4, <1>5

\* The same for a call that throws: the restored checkpoint is a history too.
LEMMA CallThrown ==
    ASSUME IndInv, NEW result \in Reply, NEW st, GoodStore(st), Throw(result, st),
           GoodDoc(history'), GoodJournal(journal'), tables' \in State,
           input' \in Input, touched' \in BOOLEAN, faults' \in Nat
    PROVE  TypeOK' /\ CursorInBounds' /\ CallShape' /\ FilesInFlight'
<1>1. PICK old : old = (IF checkpoint = NoStore THEN st ELSE checkpoint)
  OBVIOUS
<1>2. GoodStore(old)
  BY <1>1, GoodFromIndInv
<1>3. EndCall(result, old)
  BY <1>1 DEF Throw
<1> QED BY <1>2, <1>3, CallEnded

\* The objects the phases of persist() and recover() work on.
LEMMA InProgress ==
    ASSUME IndInv
    PROVE  /\ phase \in {"check", "sidecars", "history", "clean"} =>
                  store \in Store /\ BoundedLine(store) /\ next \in State
           /\ phase \in {"sidecars", "history", "clean"} =>
                  /\ journal \in Journal /\ journal = Transaction
                  /\ journal.before = store.snap.state
                  /\ journal.beforeDoc = store.snap.doc
                  /\ journal.after = next
                  /\ journal.afterDoc = Document(store, next)
                  /\ journal.source = store.source
           /\ phase \in {"recover", "recover_history", "recover_clean"} =>
                  /\ journal \in Journal /\ BoundedLine(journal.afterDoc)
                  /\ store # NoStore => store \in Store /\ BoundedLine(store)
<1>1. phase \in {"check", "sidecars", "history", "clean"} =>
          store \in Store /\ BoundedLine(store) /\ next \in State
  BY DEF IndInv, TypeOK, CursorInBounds, CallShape
<1>2. ASSUME phase \in {"sidecars", "history", "clean"}
      PROVE  /\ journal \in Journal /\ journal = Transaction
             /\ journal.before = store.snap.state
             /\ journal.beforeDoc = store.snap.doc
             /\ journal.after = next
             /\ journal.afterDoc = Document(store, next)
             /\ journal.source = store.source
  <2>1. journal = Transaction
    BY <1>2 DEF IndInv, FilesInFlight
  <2>2. store.snap \in Snapshot /\ store.source \in Input
    BY <1>1, <1>2 DEF Store
  <2>3. Document(store, next) \in Doc
    BY <1>1, <1>2, DocumentType
  <2>4. Transaction \in Journal
    BY <1>1, <1>2, <2>2, <2>3 DEF Transaction, Journal, Snapshot
  <2> QED BY <2>1, <2>4 DEF Transaction
<1>3. phase \in {"recover", "recover_history", "recover_clean"} =>
          /\ journal \in Journal /\ BoundedLine(journal.afterDoc)
          /\ store # NoStore => store \in Store /\ BoundedLine(store)
  BY DEF IndInv, TypeOK, CursorInBounds, CallShape, RecoverAllowed
<1> QED BY <1>1, <1>2, <1>3

-----------------------------------------------------------------------------
(* Each action preserves the invariant: the constructor and recover().     *)

\* What the constructor loads is a well-formed history.
LEMMA LoadedGood ==
    ASSUME IndInv, NEW ro \in BOOLEAN
    PROVE  GoodStore(Loaded(ro))
<1>1. tables \in State /\ GoodDoc(history) /\ input \in Input
  BY GoodFromIndInv
<1>2. BlockedReason \in Blocked
  BY DEF BlockedReason, Blocked
<1>3. CASE history # NoDoc /\ BlockedReason = "no"
  <2>1. Loaded(ro) = [snap |-> [state |-> tables, doc |-> history],
                      commands |-> history.commands, cursor |-> history.cursor,
                      blocked |-> BlockedReason, interrupted |-> NoJournal,
                      source |-> input, readOnly |-> ro]
    BY <1>3 DEF Loaded
  <2>2. history \in Doc /\ BoundedLine(history)
    BY <1>1, <1>3 DEF GoodDoc
  <2>3. history.commands \in Seq(Command) /\ history.cursor \in Nat
    BY <2>2 DEF Doc
  <2>4. Loaded(ro) \in Store
    BY <1>1, <1>2, <2>1, <2>2, <2>3 DEF Store, Snapshot
  <2>5. BoundedLine(Loaded(ro))
    BY <2>1, <2>2 DEF BoundedLine
  <2> QED BY <2>4, <2>5 DEF GoodStore
<1>4. CASE ~(history # NoDoc /\ BlockedReason = "no")
  <2>1. Loaded(ro) = [snap |-> [state |-> tables, doc |-> history],
                      commands |-> <<>>, cursor |-> 0,
                      blocked |-> BlockedReason, interrupted |-> NoJournal,
                      source |-> input, readOnly |-> ro]
    BY <1>4 DEF Loaded
  <2>2. Loaded(ro) \in Store
    BY <1>1, <1>2, <2>1 DEF Store, Snapshot, GoodDoc
  <2>3. BoundedLine(Loaded(ro))
    BY <2>1, ConstantsAssumption DEF BoundedLine
  <2> QED BY <2>2, <2>3 DEF GoodStore
<1> QED BY <1>3, <1>4

\* The constructor on a project without a journal keeps IndInv.
LEMMA ConstructPreserves ==
    ASSUME IndInv, NEW ro \in BOOLEAN, Construct(ro)
    PROVE  IndInv'
<1>1. TypeOK' /\ CursorInBounds' /\ CallShape' /\ FilesInFlight'
  BY GoodFromIndInv, LoadedGood, CallEnded
  DEF Construct, disk, NoFault, Reply, GoodDoc, GoodJournal
<1>2. FilesConsistent'
  BY DEF Construct, disk, FilesConsistent, BlockedReason
<1> QED BY <1>1, <1>2 DEF IndInv

\* A constructor that refuses a journal changes no file.
LEMMA ConstructRefusedPreserves ==
    ASSUME IndInv, NEW ro \in BOOLEAN, ConstructRefused(ro)
    PROVE  IndInv'
<1>1. (IF ro THEN "recovery_required" ELSE RecoverRefusal) \in Reply
  BY DEF RecoverRefusal, Reply
<1>2. TypeOK' /\ CursorInBounds' /\ CallShape' /\ FilesInFlight'
  BY <1>1, GoodFromIndInv, CallEnded
  DEF ConstructRefused, disk, NoFault, GoodStore, GoodDoc, GoodJournal
<1>3. FilesConsistent'
  BY DEF IndInv, ConstructRefused, disk, FilesConsistent, RecoverAllowed
<1> QED BY <1>2, <1>3 DEF IndInv

\* The constructor's recovery starts only when it is allowed.
LEMMA ConstructRecoverPreserves ==
    ASSUME IndInv, ConstructRecover
    PROVE  IndInv'
<1>1. TypeOK'
  BY DEF IndInv, ConstructRecover, disk, NoFault, TypeOK, Phase
<1>2. CursorInBounds'
  BY DEF IndInv, ConstructRecover, disk, CursorInBounds, BoundedLine
<1>3. CallShape'
  BY DEF IndInv, ConstructRecover, disk, CallShape, RecoverAllowed
<1>4. FilesInFlight'
  BY DEF ConstructRecover, FilesInFlight
<1>5. FilesConsistent'
  BY DEF IndInv, ConstructRecover, disk, FilesConsistent, RecoverAllowed
<1> QED BY <1>1, <1>2, <1>3, <1>4, <1>5 DEF IndInv

\* A table replaced by its journaled target keeps the journal admissible.
LEMMA TableToTarget ==
    ASSUME IndInv, journal \in Journal, RecoverAllowed, NEW t \in Table,
           tables' = [tables EXCEPT ![t] = journal.after[t]],
           UNCHANGED <<history, journal, input>>
    PROVE  /\ tables' \in State
           /\ RecoverAllowed'
           /\ \A u \in Table : tables'[u] = IF u = t THEN journal.after[t] ELSE tables[u]
<1>1. tables \in State /\ journal.after \in State
  BY GoodFromIndInv DEF Journal
<1>2. \A u \in Table : tables'[u] = IF u = t THEN journal.after[t] ELSE tables[u]
  BY <1>1 DEF State
<1>3. tables' \in State
  BY <1>1 DEF State
<1>4. RecoverAllowed'
  BY <1>2 DEF RecoverAllowed
<1> QED BY <1>2, <1>3, <1>4

\* So does the document replaced by its journaled target.
LEMMA HistoryToTarget ==
    ASSUME journal \in Journal, RecoverAllowed, history' = journal.afterDoc,
           UNCHANGED <<tables, journal, input>>
    PROVE  /\ GoodDoc(history') /\ RecoverAllowed'
BY DEF RecoverAllowed, GoodDoc, BoundedLine, Journal

\* recover() keeps IndInv while it replaces the tables.
LEMMA RecoverTablePreserves ==
    ASSUME IndInv, RecoverTable
    PROVE  IndInv'
<1>1. PICK t \in Table :
        /\ phase = "recover" /\ FirstOf(t)
        /\ tables' = [tables EXCEPT ![t] = journal.after[t]]
        /\ todo' = todo \ {t}
        /\ phase' = IF todo' = {} THEN "recover_history" ELSE "recover"
        /\ NoFault
        /\ UNCHANGED <<history, journal, input, store, next, checkpoint, reply, touched>>
  BY DEF RecoverTable
<1>2. RecoverAllowed /\ journal \in Journal
  BY <1>1, InProgress DEF IndInv, CallShape
<1>3. /\ tables' \in State /\ RecoverAllowed'
      /\ \A u \in Table : tables'[u] = IF u = t THEN journal.after[t] ELSE tables[u]
  BY <1>1, <1>2, TableToTarget
<1>4. TypeOK'
  BY <1>1, <1>3 DEF IndInv, NoFault, TypeOK, Phase
<1>5. CursorInBounds'
  BY <1>1 DEF IndInv, CursorInBounds, BoundedLine
<1>6. CallShape'
  BY <1>1, <1>3 DEF IndInv, CallShape
<1>7. FilesInFlight'
  BY <1>1, <1>3 DEF IndInv, FilesInFlight
<1>8. FilesConsistent'
  BY <1>1, <1>2, <1>3 DEF FilesConsistent, RecoverAllowed
<1> QED BY <1>4, <1>5, <1>6, <1>7, <1>8 DEF IndInv

\* recover() keeps IndInv when it replaces the document.
LEMMA RecoverHistoryPreserves ==
    ASSUME IndInv, RecoverHistory
    PROVE  IndInv'
<1>1. RecoverAllowed /\ journal \in Journal
  BY InProgress DEF IndInv, CallShape, RecoverHistory
<1>2. GoodDoc(history') /\ RecoverAllowed'
  BY <1>1, HistoryToTarget DEF RecoverHistory
<1>3. TypeOK'
  BY <1>2 DEF IndInv, RecoverHistory, NoFault, TypeOK, Phase, GoodDoc
<1>4. CursorInBounds'
  BY <1>2 DEF IndInv, RecoverHistory, CursorInBounds, BoundedLine, GoodDoc
<1>5. CallShape'
  BY <1>2 DEF IndInv, RecoverHistory, CallShape
<1>6. FilesInFlight'
  BY DEF IndInv, RecoverHistory, FilesInFlight
<1>7. FilesConsistent'
  BY <1>2 DEF FilesConsistent, RecoverAllowed
<1> QED BY <1>3, <1>4, <1>5, <1>6, <1>7 DEF IndInv

\* The history after persist() completed its own interrupted write.
LEMMA RecoveredGood ==
    ASSUME store \in Store, BoundedLine(store), journal \in Journal
    PROVE  /\ Recovered \in Store /\ BoundedLine(Recovered)
           /\ Recovered.source = store.source /\ Recovered # NoStore
<1>1. [state |-> journal.after, doc |-> journal.afterDoc] \in Snapshot
  BY DEF Journal, Snapshot
<1>2. Recovered \in Store
  BY <1>1 DEF Recovered, Store
<1>3. /\ Recovered.commands = store.commands /\ Recovered.cursor = store.cursor
      /\ Recovered.source = store.source
  BY DEF Recovered, Store
<1> QED BY <1>2, <1>3, ConstantsAssumption DEF BoundedLine

\* recover() keeps IndInv when it removes the journal, for each of its callers.
LEMMA RecoverCleanPreserves ==
    ASSUME IndInv, RecoverClean
    PROVE  IndInv'
<1>1. /\ phase = "recover_clean" /\ journal' = NoJournal
      /\ UNCHANGED <<tables, history, input, touched, faults>>
  BY DEF RecoverClean, NoFault
<1>2. journal \in Journal /\ RecoverAllowed /\ todo = {}
  BY <1>1, InProgress DEF IndInv, CallShape
<1>3. journal.afterDoc \in Doc /\ journal.after \in State
  BY <1>2 DEF Journal
<1>4. /\ history = journal.afterDoc /\ history # NoDoc
      /\ history.state = tables /\ history.source = input
  <2>1. history = journal.afterDoc
    BY <1>1 DEF IndInv, FilesInFlight
  <2>2. \A t \in Table : tables[t] = journal.after[t]
    BY <1>1, <1>2 DEF IndInv, FilesInFlight
  <2>3. tables = journal.after
    BY <1>3, <2>2, GoodFromIndInv DEF State
  <2> QED BY <1>2, <1>3, <2>1, <2>3, ConstantsAssumption DEF RecoverAllowed
<1>5. FilesConsistent'
  BY <1>1, <1>4 DEF FilesConsistent
<1>6. GoodJournal(journal') /\ GoodDoc(history')
  BY <1>1, GoodFromIndInv DEF GoodJournal, GoodDoc
<1>7. CASE store = NoStore /\ phase' = "load"
           /\ UNCHANGED <<store, todo, next, checkpoint, reply>>
  <2>1. TypeOK'
    BY <1>1, <1>7 DEF IndInv, TypeOK, Phase
  <2>2. CursorInBounds'
    BY <1>1, <1>7 DEF IndInv, CursorInBounds, BoundedLine
  <2>3. CallShape'
    BY <1>1, <1>2, <1>7, ConstantsAssumption DEF IndInv, CallShape
  <2>4. FilesInFlight'
    BY <1>1, <1>4, <1>7 DEF FilesInFlight
  <2> QED BY <1>5, <2>1, <2>2, <2>3, <2>4 DEF IndInv
<1>8. CASE store # NoStore /\ EndCall("ok", Recovered)
  <2>1. GoodStore(Recovered)
    BY <1>1, <1>8, InProgress, RecoveredGood DEF GoodStore
  <2>2. TypeOK' /\ CursorInBounds' /\ CallShape' /\ FilesInFlight'
    BY <1>1, <1>6, <1>8, <2>1, GoodFromIndInv, CallEnded DEF Reply
  <2> QED BY <1>5, <2>2 DEF IndInv
<1>9. CASE store # NoStore /\ store' = Recovered /\ phase' = "check"
           /\ UNCHANGED <<todo, next, checkpoint, reply>>
  <2>1. /\ Recovered \in Store /\ BoundedLine(Recovered)
        /\ Recovered.source = store.source /\ Recovered # NoStore
    BY <1>1, <1>9, InProgress, RecoveredGood
  <2>2. TypeOK'
    BY <1>1, <1>9, <2>1 DEF IndInv, TypeOK, Phase
  <2>3. CursorInBounds'
    BY <1>1, <1>9, <2>1 DEF IndInv, CursorInBounds, BoundedLine
  <2>4. CallShape'
    BY <1>1, <1>2, <1>9, <2>1 DEF IndInv, CallShape
  <2>5. FilesInFlight'
    BY <1>1, <1>9 DEF FilesInFlight
  <2> QED BY <1>5, <2>2, <2>3, <2>4, <2>5 DEF IndInv
<1> QED BY <1>7, <1>8, <1>9 DEF RecoverClean

\* A failed operation leaves its file as it was or as it was to become.
LEMMA RecoverFailsPreserves ==
    ASSUME IndInv, RecoverFails
    PROVE  IndInv'
<1>1. /\ phase \in {"recover", "recover_history", "recover_clean"}
      /\ UNCHANGED <<journal, input, touched>>
      /\ Throw(IF phase = "recover_clean" THEN "recovery_required" ELSE "save_failed", store)
  BY DEF RecoverFails
<1>2. RecoverAllowed /\ journal \in Journal
  BY <1>1, InProgress DEF IndInv, CallShape
<1>3. faults' \in Nat
  BY GoodFromIndInv DEF RecoverFails, Fault
<1>4. tables' \in State /\ GoodDoc(history') /\ RecoverAllowed'
  <2>1. CASE UNCHANGED <<tables, history>>
    BY <1>1, <1>2, <2>1, GoodFromIndInv DEF RecoverAllowed, GoodDoc
  <2>2. CASE /\ \E t \in Table : /\ FirstOf(t)
                                 /\ tables' = [tables EXCEPT ![t] = journal.after[t]]
             /\ UNCHANGED history
    BY <1>1, <1>2, <2>2, GoodFromIndInv, TableToTarget DEF GoodDoc
  <2>3. CASE history' = journal.afterDoc /\ UNCHANGED tables
    BY <1>1, <1>2, <2>3, GoodFromIndInv, HistoryToTarget
  <2> QED BY <2>1, <2>2, <2>3 DEF RecoverFails
<1>5. (IF phase = "recover_clean" THEN "recovery_required" ELSE "save_failed") \in Reply
  BY DEF Reply
<1>6. TypeOK' /\ CursorInBounds' /\ CallShape' /\ FilesInFlight'
  BY <1>1, <1>3, <1>4, <1>5, GoodFromIndInv, CallThrown DEF GoodJournal
<1>7. FilesConsistent'
  BY <1>4 DEF FilesConsistent, RecoverAllowed
<1> QED BY <1>6, <1>7 DEF IndInv

\* The constructor keeps IndInv when it reads what it recovered.
LEMMA LoadPreserves ==
    ASSUME IndInv, Load
    PROVE  IndInv'
<1>1. TypeOK' /\ CursorInBounds' /\ CallShape' /\ FilesInFlight'
  BY GoodFromIndInv, LoadedGood, CallEnded
  DEF Load, disk, NoFault, Reply, GoodDoc, GoodJournal
<1>2. journal = NoJournal
  BY DEF IndInv, CallShape, Load
<1>3. FilesConsistent'
  BY <1>2 DEF Load, disk, FilesConsistent, BlockedReason
<1> QED BY <1>1, <1>3 DEF IndInv

-----------------------------------------------------------------------------
(* persist().                                                              *)

\* Entering persist() with a well-formed history, whoever calls it.
LEMMA PersistPreserves ==
    ASSUME IndInv, NEW st \in Store, BoundedLine(st), NEW s \in State,
           NEW copy, GoodStore(copy), Persist(st, s, copy)
    PROVE  IndInv'
<1>1. /\ phase = "idle"
      /\ UNCHANGED <<tables, history, journal, input, touched, faults>>
  BY DEF Persist, NoFault, disk
<1>2. FilesConsistent'
  BY <1>1 DEF IndInv, FilesConsistent, RecoverAllowed
<1>3. CASE PersistRefusal(st) # "none"
           /\ EndCall(PersistRefusal(st), IF copy = NoStore THEN st ELSE copy)
  <2>1. PersistRefusal(st) \in Reply
    BY DEF PersistRefusal, RecoverRefusal, Store, Blocked, Reply
  <2>2. PICK old : old = IF copy = NoStore THEN st ELSE copy
    OBVIOUS
  <2>3. GoodStore(old) /\ EndCall(PersistRefusal(st), old)
    BY <1>3, <2>2 DEF GoodStore
  <2>4. TypeOK' /\ CursorInBounds' /\ CallShape' /\ FilesInFlight'
    BY <1>1, <2>1, <2>3, GoodFromIndInv, CallEnded DEF GoodDoc, GoodJournal
  <2> QED BY <1>2, <2>4 DEF IndInv
<1>4. CASE /\ PersistRefusal(st) = "none"
           /\ store' = st /\ next' = s /\ checkpoint' = copy
           /\ phase' = IF st.interrupted = NoJournal THEN "check" ELSE "recover"
           /\ todo' = IF st.interrupted = NoJournal THEN {} ELSE Table
           /\ UNCHANGED reply
  <2>1. TypeOK'
    BY <1>1, <1>4 DEF IndInv, TypeOK, GoodStore, Phase
  <2>2. CursorInBounds'
    BY <1>1, <1>4 DEF IndInv, CursorInBounds, GoodStore, BoundedLine
  <2>3. st # NoStore /\ s # NoState
    BY ConstantsAssumption
  <2>4. st.source = input
    BY <1>4 DEF PersistRefusal, Store, Blocked
  <2>5. st.interrupted # NoJournal => RecoverAllowed
    BY <1>4 DEF PersistRefusal, RecoverRefusal, Store, Blocked
  <2>6. RecoverAllowed' <=> RecoverAllowed
    BY <1>1 DEF RecoverAllowed
  <2>7. CallShape'
    BY <1>1, <1>4, <2>3, <2>4, <2>5, <2>6 DEF CallShape
  <2>8. FilesInFlight'
    BY <1>1, <1>4 DEF FilesInFlight
  <2> QED BY <1>2, <2>1, <2>2, <2>7, <2>8 DEF IndInv
<1> QED BY <1>3, <1>4 DEF Persist

\* persist() keeps IndInv when its check fails or a budget is exceeded.
LEMMA CheckStopsPreserve ==
    ASSUME IndInv, CheckRefused \/ CheckOverBudget
    PROVE  IndInv'
<1>1. UNCHANGED <<tables, history, journal, input, touched>> /\ phase = "check"
  BY DEF CheckRefused, CheckOverBudget, disk
<1>2. faults' \in Nat
  BY GoodFromIndInv DEF CheckRefused, CheckOverBudget, Fault, NoFault
<1>3. \E result \in Reply : Throw(result, store)
  BY DEF CheckRefused, CheckOverBudget, Reply
<1>4. TypeOK' /\ CursorInBounds' /\ CallShape' /\ FilesInFlight'
  BY <1>1, <1>2, <1>3, GoodFromIndInv, CallThrown DEF GoodDoc, GoodJournal
<1>5. FilesConsistent'
  BY <1>1 DEF IndInv, FilesConsistent, RecoverAllowed
<1> QED BY <1>4, <1>5 DEF IndInv

\* The journal persist() publishes over files it has just checked can be
\* completed from the first moment.
LEMMA PublishedJournal ==
    ASSUME IndInv, phase = "check", CheckPassed, journal' = Transaction,
           UNCHANGED <<tables, history, input>>
    PROVE  /\ Transaction \in Journal
           /\ BoundedLine(Transaction.afterDoc)
           /\ RecoverAllowed'
           /\ tables = store.snap.state /\ history = store.snap.doc
           /\ next \in State /\ store \in Store /\ store.source = input
<1>1. store \in Store /\ BoundedLine(store) /\ next \in State /\ store.source = input
  BY InProgress DEF IndInv, CallShape
<1>2. /\ Document(store, next) \in Doc /\ Document(store, next).state = next
      /\ Document(store, next).source = store.source
      /\ BoundedLine(Document(store, next))
  BY <1>1, DocumentType
<1>3. store.snap \in Snapshot /\ store.source \in Input
  BY <1>1 DEF Store
<1>4. store.snap.state \in State /\ store.snap.doc \in Doc \union {NoDoc}
  BY <1>3 DEF Snapshot
<1>5. Transaction \in Journal
  BY <1>1, <1>2, <1>3, <1>4 DEF Transaction, Journal
<1>6. /\ Transaction.before = store.snap.state /\ Transaction.beforeDoc = store.snap.doc
      /\ Transaction.after = next /\ Transaction.afterDoc = Document(store, next)
      /\ Transaction.source = store.source
  BY DEF Transaction
<1>7. tables = store.snap.state /\ history = store.snap.doc
  BY DEF CheckPassed, StateMatches, HistoryMatches
<1>8. RecoverAllowed'
  BY <1>1, <1>2, <1>5, <1>6, <1>7, ConstantsAssumption DEF RecoverAllowed, BoundedLine
<1> QED BY <1>1, <1>2, <1>5, <1>6, <1>7, <1>8

\* Publishing the journal keeps IndInv: its before side is what the files hold.
LEMMA PublishJournalPreserves ==
    ASSUME IndInv, PublishJournal
    PROVE  IndInv'
<1>1. /\ phase = "check" /\ CheckPassed /\ journal' = Transaction
      /\ todo' = Changed(store.snap.state, next)
      /\ phase' = IF todo' = {} THEN "history" ELSE "sidecars"
      /\ UNCHANGED <<tables, history, input, store, next, checkpoint, reply,
                     touched, faults>>
  BY DEF PublishJournal, NoFault
<1>2. /\ Transaction \in Journal /\ BoundedLine(Transaction.afterDoc) /\ RecoverAllowed'
      /\ tables = store.snap.state /\ history = store.snap.doc
      /\ next \in State /\ store \in Store /\ store.source = input
  BY <1>1, PublishedJournal
<1>3. todo' \in SUBSET Table /\ \A t \in Table \ todo' : tables[t] = next[t]
  BY <1>1, <1>2 DEF Changed
<1>4. TypeOK'
  BY <1>1, <1>2, <1>3 DEF IndInv, TypeOK, Phase
<1>5. CursorInBounds'
  BY <1>1, <1>2 DEF IndInv, CursorInBounds, BoundedLine
<1>6. CallShape'
  BY <1>1 DEF IndInv, CallShape
<1>7. journal' = Transaction' /\ journal'.before = tables
      /\ journal'.after = next /\ journal'.beforeDoc = history
  BY <1>1, <1>2 DEF Transaction, Document
<1>8. FilesInFlight'
  BY <1>1, <1>3, <1>7 DEF FilesInFlight
<1>9. FilesConsistent'
  BY <1>1, <1>2 DEF FilesConsistent, RecoverAllowed
<1> QED BY <1>4, <1>5, <1>6, <1>8, <1>9 DEF IndInv

\* A failed publication leaves either no journal or a complete one.
LEMMA PublishFailsPreserves ==
    ASSUME IndInv, PublishFails
    PROVE  IndInv'
<1>1. /\ phase = "check" /\ CheckPassed /\ Throw("save_failed", store)
      /\ UNCHANGED <<tables, history, input, touched>>
      /\ journal' \in {NoJournal, Transaction}
  BY DEF PublishFails
<1>2. faults' \in Nat
  BY GoodFromIndInv DEF PublishFails, Fault
<1>3. GoodJournal(journal')
  BY <1>1, PublishedJournal DEF GoodJournal
<1>4. TypeOK' /\ CursorInBounds' /\ CallShape' /\ FilesInFlight'
  BY <1>1, <1>2, <1>3, GoodFromIndInv, CallThrown DEF Reply, GoodDoc
<1>5. CASE journal' = NoJournal
  <2>1. journal = NoJournal
    BY <1>1 DEF CheckPassed
  <2>2. FilesConsistent'
    BY <1>1, <1>5, <2>1 DEF IndInv, FilesConsistent, RecoverAllowed
  <2> QED BY <1>4, <2>2 DEF IndInv
<1>6. CASE journal' = Transaction
  <2>1. RecoverAllowed'
    BY <1>1, <1>6, PublishedJournal
  <2>2. FilesConsistent'
    BY <2>1 DEF FilesConsistent, RecoverAllowed
  <2> QED BY <1>4, <2>2 DEF IndInv
<1> QED BY <1>1, <1>5, <1>6

\* While persist() replaces files its journal can be completed.
LEMMA CommitRecoverable ==
    ASSUME IndInv, phase \in {"sidecars", "history", "clean"}
    PROVE  RecoverAllowed
<1>1. /\ journal \in Journal /\ store \in Store /\ BoundedLine(store) /\ next \in State
      /\ journal.after = next /\ journal.afterDoc = Document(store, next)
      /\ journal.source = store.source
  BY InProgress
<1>2. store.source = input
  BY DEF IndInv, CallShape
<1>3. /\ Document(store, next).state = next
      /\ Document(store, next).source = store.source
      /\ BoundedLine(Document(store, next))
  BY <1>1, DocumentType
<1>4. \A t \in Table : tables[t] \in {journal.before[t], journal.after[t]}
  BY DEF IndInv, FilesInFlight
<1>5. history \in {journal.beforeDoc, journal.afterDoc}
  BY DEF IndInv, FilesInFlight
<1> QED BY <1>1, <1>2, <1>3, <1>4, <1>5, ConstantsAssumption DEF RecoverAllowed, BoundedLine

\* persist() keeps IndInv while it replaces the changed tables.
LEMMA WriteSidecarPreserves ==
    ASSUME IndInv, WriteSidecar
    PROVE  IndInv'
<1>1. PICK t \in Table :
        /\ phase = "sidecars" /\ FirstOf(t)
        /\ tables' = [tables EXCEPT ![t] = next[t]]
        /\ todo' = todo \ {t}
        /\ phase' = IF todo' = {} THEN "history" ELSE "sidecars"
        /\ NoFault
        /\ UNCHANGED <<history, journal, input, store, next, checkpoint, reply, touched>>
  BY DEF WriteSidecar
<1>2. /\ journal \in Journal /\ RecoverAllowed /\ journal.after = next
      /\ journal = Transaction
  BY <1>1, InProgress, CommitRecoverable
<1>3. /\ tables' \in State /\ RecoverAllowed'
      /\ \A u \in Table : tables'[u] = IF u = t THEN journal.after[t] ELSE tables[u]
  BY <1>1, <1>2, TableToTarget
<1>4. TypeOK'
  BY <1>1, <1>3 DEF IndInv, NoFault, TypeOK, Phase
<1>5. CursorInBounds'
  BY <1>1 DEF IndInv, CursorInBounds, BoundedLine
<1>6. CallShape'
  BY <1>1 DEF IndInv, CallShape
<1>7. journal' = Transaction'
  BY <1>1, <1>2 DEF Transaction, Document
<1>8. FilesInFlight'
  BY <1>1, <1>3, <1>7 DEF IndInv, FilesInFlight
<1>9. FilesConsistent'
  BY <1>3 DEF FilesConsistent, RecoverAllowed
<1> QED BY <1>4, <1>5, <1>6, <1>8, <1>9 DEF IndInv

\* persist() keeps IndInv when it replaces the document.
LEMMA WriteHistoryPreserves ==
    ASSUME IndInv, WriteHistory
    PROVE  IndInv'
<1>1. /\ journal \in Journal /\ RecoverAllowed /\ journal = Transaction
      /\ journal.afterDoc = Document(store, next)
  BY InProgress, CommitRecoverable DEF WriteHistory
<1>2. GoodDoc(history') /\ RecoverAllowed'
  BY <1>1, HistoryToTarget DEF WriteHistory
<1>3. TypeOK'
  BY <1>2 DEF IndInv, WriteHistory, NoFault, TypeOK, Phase, GoodDoc
<1>4. CursorInBounds'
  BY <1>2 DEF IndInv, WriteHistory, CursorInBounds, BoundedLine, GoodDoc
<1>5. CallShape'
  BY DEF IndInv, WriteHistory, CallShape
<1>6. journal' = Transaction'
  BY <1>1 DEF WriteHistory, Transaction, Document
<1>7. FilesInFlight'
  BY <1>1, <1>6 DEF IndInv, WriteHistory, FilesInFlight
<1>8. FilesConsistent'
  BY <1>2 DEF FilesConsistent, RecoverAllowed
<1> QED BY <1>3, <1>4, <1>5, <1>7, <1>8 DEF IndInv

\* When the journal is about to go, the files hold its target.
LEMMA CleanFiles ==
    ASSUME IndInv, phase = "clean"
    PROVE  /\ tables = next /\ history = Document(store, next)
           /\ history.state = tables /\ history.source = input
           /\ tables = journal.after /\ history = journal.afterDoc
<1>1. /\ journal.after = next /\ journal.afterDoc = Document(store, next)
      /\ store \in Store /\ next \in State
  BY InProgress
<1>2. todo = {} /\ store.source = input
  BY DEF IndInv, CallShape
<1>3. \A t \in Table : tables[t] = next[t]
  BY <1>1, <1>2 DEF IndInv, FilesInFlight
<1>4. tables = next
  BY <1>1, <1>3, GoodFromIndInv DEF State
<1>5. history = Document(store, next)
  BY <1>1 DEF IndInv, FilesInFlight
<1> QED BY <1>1, <1>2, <1>4, <1>5, DocumentType

\* The history object whose snapshot a commit has moved.
LEMMA CommittedGood ==
    ASSUME NEW st \in Store, BoundedLine(st), NEW snap \in Snapshot
    PROVE  GoodStore([st EXCEPT !.snap = snap])
BY DEF GoodStore, Store, BoundedLine

\* persist() keeps IndInv when it removes the journal: the files are the target.
LEMMA RemoveJournalPreserves ==
    ASSUME IndInv, RemoveJournal
    PROVE  IndInv'
<1>1. phase = "clean" /\ store \in Store /\ BoundedLine(store) /\ next \in State
  BY InProgress DEF RemoveJournal
<1>2. [state |-> next, doc |-> Document(store, next)] \in Snapshot
  BY <1>1, DocumentType DEF Snapshot
<1>3. GoodStore([store EXCEPT !.snap = [state |-> next, doc |-> Document(store, next)]])
  BY <1>1, <1>2, CommittedGood
<1>4. TypeOK' /\ CursorInBounds' /\ CallShape' /\ FilesInFlight'
  BY <1>3, GoodFromIndInv, CallEnded
  DEF RemoveJournal, NoFault, Reply, GoodDoc, GoodJournal
<1>5. FilesConsistent'
  BY <1>1, CleanFiles DEF RemoveJournal, FilesConsistent
<1> QED BY <1>4, <1>5 DEF IndInv

\* The history object a failed commit leaves.
LEMMA InterruptedGood ==
    ASSUME NEW st \in Store, BoundedLine(st), NEW j \in Journal
    PROVE  GoodStore([st EXCEPT !.interrupted = j])
BY DEF GoodStore, Store, BoundedLine

\* A failure past the journal keeps IndInv, with or without a checkpoint.
LEMMA CommitFailsPreserves ==
    ASSUME IndInv, CommitFails
    PROVE  IndInv'
<1>1. /\ phase \in {"sidecars", "history", "clean"}
      /\ UNCHANGED <<journal, input, touched>>
      /\ Throw(IF phase = "clean" THEN "cleanup_failed" ELSE "save_failed", Interrupted)
  BY DEF CommitFails
<1>2. /\ RecoverAllowed /\ journal \in Journal /\ store \in Store /\ BoundedLine(store)
      /\ journal.after = next /\ journal.afterDoc = Document(store, next)
  BY <1>1, InProgress, CommitRecoverable
<1>3. faults' \in Nat
  BY GoodFromIndInv DEF CommitFails, Fault
<1>4. tables' \in State /\ GoodDoc(history') /\ RecoverAllowed'
  <2>1. CASE UNCHANGED <<tables, history>>
    BY <1>1, <1>2, <2>1, GoodFromIndInv DEF RecoverAllowed, GoodDoc
  <2>2. CASE /\ \E t \in Table : /\ FirstOf(t)
                                 /\ tables' = [tables EXCEPT ![t] = next[t]]
             /\ UNCHANGED history
    BY <1>1, <1>2, <2>2, GoodFromIndInv, TableToTarget DEF GoodDoc
  <2>3. CASE history' = Document(store, next) /\ UNCHANGED tables
    BY <1>1, <1>2, <2>3, GoodFromIndInv, HistoryToTarget
  <2> QED BY <2>1, <2>2, <2>3 DEF CommitFails
<1>5. (IF phase = "clean" THEN "cleanup_failed" ELSE "save_failed") \in Reply
  BY DEF Reply
<1>6. GoodStore(Interrupted)
  BY <1>2, InterruptedGood DEF Interrupted
<1>7. TypeOK' /\ CursorInBounds' /\ CallShape' /\ FilesInFlight'
  BY <1>1, <1>3, <1>4, <1>5, <1>6, GoodFromIndInv, CallThrown DEF GoodJournal
<1>8. FilesConsistent'
  BY <1>4 DEF FilesConsistent, RecoverAllowed
<1> QED BY <1>7, <1>8 DEF IndInv

-----------------------------------------------------------------------------
(* The calls of a client, and what happens around the worker.              *)

\* A client that only changes the history in memory.
LEMMA MemoryPreserves ==
    ASSUME IndInv, phase = "idle", GoodStore(store'),
           UNCHANGED <<disk, input, call, reply, touched, faults>>
    PROVE  IndInv'
<1>1. TypeOK'
  BY DEF IndInv, TypeOK, disk, call, GoodStore
<1>2. CursorInBounds'
  BY DEF IndInv, CursorInBounds, disk, call, GoodStore, BoundedLine
<1>3. CallShape'
  BY DEF IndInv, CallShape, call
<1>4. FilesInFlight'
  BY DEF FilesInFlight, call
<1>5. FilesConsistent'
  BY DEF IndInv, FilesConsistent, RecoverAllowed, disk
<1> QED BY <1>1, <1>2, <1>3, <1>4, <1>5 DEF IndInv

\* The history object between two calls is a good one.
LEMMA ReadyStore ==
    ASSUME IndInv, Ready
    PROVE  phase = "idle" /\ store \in Store /\ BoundedLine(store) /\ GoodStore(store)
BY DEF IndInv, Ready, TypeOK, CursorInBounds, GoodStore

\* stage() keeps IndInv.
LEMMA StagePreserves ==
    ASSUME IndInv, NEW c \in Command, Stage(c)
    PROVE  IndInv'
<1>1. Ready /\ UNCHANGED <<disk, input, call, reply, touched, faults>>
  BY DEF Stage, NoFault
<1>2. PICK drop \in Drops(store) : store' = Staged(store, c, drop)
  BY DEF Stage
<1>3. GoodStore(store')
  BY <1>1, <1>2, ReadyStore, StagedStore DEF GoodStore
<1> QED BY <1>1, <1>3, ReadyStore, MemoryPreserves

\* advance() keeps IndInv.
LEMMA AdvancePreserves ==
    ASSUME IndInv, NEW redo \in BOOLEAN, Advance(redo)
    PROVE  IndInv'
<1>1. Ready /\ UNCHANGED <<disk, input, call, reply, touched, faults>>
      /\ CanMove(store, redo) /\ store' = Advanced(store, redo)
  BY DEF Advance, NoFault
<1>2. GoodStore(store')
  BY <1>1, ReadyStore, AdvancedStore DEF GoodStore
<1> QED BY <1>1, <1>2, ReadyStore, MemoryPreserves

\* Dropping the history object keeps IndInv.
LEMMA ClosePreserves ==
    ASSUME IndInv, Close
    PROVE  IndInv'
BY ReadyStore, MemoryPreserves DEF Close, NoFault, GoodStore

\* Save keeps IndInv.
LEMMA SavePreserves ==
    ASSUME IndInv, NEW s \in State, Save(s)
    PROVE  IndInv'
BY ReadyStore, PersistPreserves DEF Save, GoodStore

\* An edit committed at once keeps IndInv.
LEMMA EditPreserves ==
    ASSUME IndInv, NEW c \in Command, NEW s \in State, Edit(c, s)
    PROVE  IndInv'
<1>1. Ready
  BY DEF Edit
<1>2. PICK drop \in Drops(store) : Persist(Staged(store, c, drop), s, store)
  BY DEF Edit
<1>3. Staged(store, c, drop) \in Store /\ BoundedLine(Staged(store, c, drop))
  BY <1>1, ReadyStore, StagedStore
<1> QED BY <1>1, <1>2, <1>3, ReadyStore, PersistPreserves

\* Undo and redo committed at once keep IndInv.
LEMMA ReplayPreserves ==
    ASSUME IndInv, NEW redo \in BOOLEAN, NEW s \in State, Replay(redo, s)
    PROVE  IndInv'
<1>1. Ready /\ CanMove(store, redo) /\ Persist(Advanced(store, redo), s, store)
  BY DEF Replay
<1>2. Advanced(store, redo) \in Store /\ BoundedLine(Advanced(store, redo))
  BY <1>1, ReadyStore, AdvancedStore
<1> QED BY <1>1, <1>2, ReadyStore, PersistPreserves

\* A refused reset keeps IndInv.
LEMMA ResetRefusedPreserves ==
    ASSUME IndInv, ResetRefused
    PROVE  IndInv'
<1>1. UNCHANGED <<tables, history, journal, input, touched, faults>>
  BY DEF ResetRefused, disk, NoFault
<1>2. \E result \in Reply : EndCall(result, store)
  BY DEF ResetRefused, Reply
<1>3. TypeOK' /\ CursorInBounds' /\ CallShape' /\ FilesInFlight'
  BY <1>1, <1>2, GoodFromIndInv, CallEnded DEF GoodDoc, GoodJournal
<1>4. FilesConsistent'
  BY <1>1 DEF IndInv, FilesConsistent, RecoverAllowed
<1> QED BY <1>3, <1>4 DEF IndInv

\* The history object reset() starts from the files.
LEMMA ResetGood ==
    ASSUME NEW st \in Store, NEW snap \in Snapshot, NEW none \in Seq(Command),
           NEW free \in Blocked
    PROVE  [st EXCEPT !.snap = snap, !.commands = none, !.cursor = 0,
                      !.blocked = free] \in Store
BY DEF Store

\* reset() keeps IndInv.
LEMMA ResetPreserves ==
    ASSUME IndInv, Reset
    PROVE  IndInv'
<1>1. Ready /\ Persist(ResetStore, tables, store)
  BY DEF Reset
<1>2. store \in Store /\ tables \in State /\ GoodDoc(history)
  BY <1>1, ReadyStore, GoodFromIndInv
<1>3. [state |-> tables, doc |-> history] \in Snapshot
  BY <1>2 DEF Snapshot, GoodDoc
<1>4. ResetStore \in Store
  <2>1. <<>> \in Seq(Command) /\ "no" \in Blocked
    BY DEF Blocked
  <2> QED BY <1>2, <1>3, <2>1, ResetGood DEF ResetStore
<1>5. ResetStore.commands = <<>> /\ ResetStore.cursor = 0
  BY <1>2 DEF ResetStore, Store
<1>6. BoundedLine(ResetStore)
  BY <1>5, ConstantsAssumption DEF BoundedLine
<1> QED BY <1>1, <1>2, <1>4, <1>6, ReadyStore, PersistPreserves

\* A crash between any two file operations keeps IndInv.
LEMMA CrashPreserves ==
    ASSUME IndInv, Crash
    PROVE  IndInv'
<1>1. UNCHANGED <<tables, history, journal, input, touched>> /\ EndCall("none", NoStore)
  BY DEF Crash, disk
<1>2. faults' \in Nat
  BY GoodFromIndInv DEF Crash, Fault
<1>3. TypeOK' /\ CursorInBounds' /\ CallShape' /\ FilesInFlight'
  BY <1>1, <1>2, GoodFromIndInv, CallEnded DEF Reply, GoodStore, GoodDoc, GoodJournal
<1>4. FilesConsistent'
  BY <1>1 DEF IndInv, FilesConsistent, RecoverAllowed
<1> QED BY <1>3, <1>4 DEF IndInv

\* A foreign edit keeps IndInv.
LEMMA ForeignPreserves ==
    ASSUME IndInv, Foreign
    PROVE  IndInv'
<1>1. phase = "idle" /\ touched' = TRUE /\ UNCHANGED <<store, call, reply>>
  BY DEF Foreign
<1>2. faults' \in Nat
  BY GoodFromIndInv DEF Foreign, Fault
<1>3. tables' \in State /\ GoodDoc(history') /\ GoodJournal(journal') /\ input' \in Input
  BY GoodFromIndInv DEF Foreign, disk, State, GoodDoc, GoodJournal
<1>4. TypeOK'
  BY <1>1, <1>2, <1>3 DEF IndInv, TypeOK, call, GoodDoc, GoodJournal
<1>5. CursorInBounds'
  BY <1>1, <1>3 DEF IndInv, CursorInBounds, call, GoodDoc, GoodJournal, BoundedLine
<1>6. CallShape'
  BY <1>1 DEF IndInv, CallShape, call
<1>7. FilesInFlight'
  BY <1>1 DEF FilesInFlight, call
<1>8. FilesConsistent'
  BY <1>1 DEF FilesConsistent
<1> QED BY <1>4, <1>5, <1>6, <1>7, <1>8 DEF IndInv

\* A step that changes nothing keeps IndInv.
LEMMA StutterPreserves ==
    ASSUME IndInv, UNCHANGED vars
    PROVE  IndInv'
BY DEF vars, IndInv, TypeOK, CursorInBounds, BoundedLine, CallShape, FilesInFlight,
       FilesConsistent, RecoverAllowed, Transaction, Document

\* The initial project satisfies the invariant.
LEMMA InitIndInv == Init => IndInv
<1> SUFFICES ASSUME Init PROVE IndInv
  OBVIOUS
<1>1. TypeOK
  BY DEF Init, TypeOK, Phase, Reply
<1>2. CursorInBounds /\ CallShape /\ FilesInFlight /\ FilesConsistent
  BY DEF Init, CursorInBounds, CallShape, FilesInFlight, FilesConsistent
<1> QED BY <1>1, <1>2 DEF IndInv

\* Every step preserves the invariant.
LEMMA NextIndInv == IndInv /\ [Next]_vars => IndInv'
<1> SUFFICES ASSUME IndInv, [Next]_vars PROVE IndInv'
  OBVIOUS
<1>1. CASE Client
  BY <1>1, ConstructPreserves, ConstructRefusedPreserves, ConstructRecoverPreserves,
     StagePreserves, AdvancePreserves, SavePreserves, EditPreserves, ReplayPreserves,
     ResetRefusedPreserves, ResetPreserves, ClosePreserves
  DEF Client
<1>2. CASE Progress
  BY <1>2, RecoverTablePreserves, RecoverHistoryPreserves, RecoverCleanPreserves,
     LoadPreserves, CheckStopsPreserve, PublishJournalPreserves, WriteSidecarPreserves,
     WriteHistoryPreserves, RemoveJournalPreserves
  DEF Progress
<1>3. CASE Failure
  BY <1>3, RecoverFailsPreserves, CheckStopsPreserve, PublishFailsPreserves,
     CommitFailsPreserves
  DEF Failure
<1>4. CASE Crash
  BY <1>4, CrashPreserves
<1>5. CASE Foreign
  BY <1>5, ForeignPreserves
<1>6. CASE UNCHANGED vars
  BY <1>6, StutterPreserves
<1> QED BY <1>1, <1>2, <1>3, <1>4, <1>5, <1>6 DEF Next

-----------------------------------------------------------------------------
(* The theorems.                                                           *)

\* The invariant behind every other theorem: in every reachable state of
\* persist(), recover(), reset() and their failures, IndInv holds.
THEOREM Invariant == Spec => []IndInv
BY InitIndInv, NextIndInv, PTL DEF Spec

\* Every variable keeps its type (ProjectHistory's members, the files).
THEOREM TypeCorrect == Spec => []TypeOK
<1>1. IndInv => TypeOK
  BY DEF IndInv
<1> QED BY <1>1, Invariant, PTL

\* stage(), advance(), a restored checkpoint and recovery never move a cursor
\* out of its command list or the list over its limit.
THEOREM CursorCorrect == Spec => []CursorInBounds
<1>1. IndInv => CursorInBounds
  BY DEF IndInv
<1> QED BY <1>1, Invariant, PTL

\* Whatever fails and wherever the worker dies, a project nobody else touched
\* reopens: its journal can be completed, or its history describes its tables.
THEOREM ConsistencyCorrect == Spec => []FilesConsistent
<1>1. IndInv => FilesConsistent
  BY DEF IndInv
<1> QED BY <1>1, Invariant, PTL

-----------------------------------------------------------------------------
(* Action properties.                                                      *)

\* The two steps that acknowledge a commit.
LEMMA AckSteps ==
    ASSUME IndInv, [Next]_vars, next # NoState, phase' = "idle", reply' = "ok"
    PROVE  \/ RemoveJournal
           \/ RecoverClean /\ store # NoStore
              /\ next = journal.after /\ Document(store, next) = journal.afterDoc
<1>1. phase # "idle" /\ phase # "load"
  BY DEF IndInv, CallShape
<1>2. ~Client /\ ~Foreign /\ ~Crash
  BY <1>1 DEF Client, Construct, ConstructRefused, ConstructRecover, Stage, Advance,
     Save, Edit, Replay, ResetRefused, Reset, Close, Ready, Foreign, Crash, EndCall
<1>3. ~Failure
  BY DEF Failure, RecoverFails, CheckOverBudget, PublishFails, CommitFails, Throw, EndCall
<1>4. ~UNCHANGED vars
  BY <1>1 DEF vars
<1>5. ~RecoverTable /\ ~RecoverHistory /\ ~Load /\ ~PublishJournal
      /\ ~WriteSidecar /\ ~WriteHistory
  BY <1>1 DEF RecoverTable, RecoverHistory, Load, PublishJournal, WriteSidecar, WriteHistory
<1>6. ~CheckRefused
  BY DEF CheckRefused, Throw, EndCall
<1>7. Progress
  BY <1>2, <1>3, <1>4 DEF Next
<1>8. RemoveJournal \/ RecoverClean
  BY <1>5, <1>6, <1>7 DEF Progress
<1> QED BY <1>8 DEF RecoverClean

\* Once recover() has replaced the document the files hold the journal's target.
LEMMA RecoverCleanFiles ==
    ASSUME IndInv, phase = "recover_clean"
    PROVE  tables = journal.after /\ history = journal.afterDoc
<1>1. journal \in Journal /\ todo = {}
  BY InProgress DEF IndInv, CallShape
<1>2. \A t \in Table : tables[t] = journal.after[t]
  BY <1>1 DEF IndInv, FilesInFlight
<1>3. tables = journal.after
  BY <1>1, <1>2, GoodFromIndInv DEF State, Journal
<1> QED BY <1>3 DEF IndInv, FilesInFlight

\* A success reply to Save, an edit, an undo or a reset means that the tables
\* and the history are on disk as a whole and nothing is left to replay.
THEOREM AckCorrect == Spec => AckedCommitIsDurable
<1>1. ASSUME IndInv, [Next]_vars
      PROVE  (next # NoState /\ phase' = "idle" /\ reply' = "ok") =>
                /\ tables' = next
                /\ history' = Document(store, next)
                /\ journal' = NoJournal
  <2> SUFFICES ASSUME next # NoState, phase' = "idle", reply' = "ok"
               PROVE  /\ tables' = next
                      /\ history' = Document(store, next)
                      /\ journal' = NoJournal
    OBVIOUS
  <2>1. CASE RemoveJournal
    BY <1>1, <2>1, CleanFiles DEF RemoveJournal
  <2>2. CASE RecoverClean /\ store # NoStore
             /\ next = journal.after /\ Document(store, next) = journal.afterDoc
    BY <1>1, <2>2, RecoverCleanFiles DEF RecoverClean
  <2> QED BY <1>1, <2>1, <2>2, AckSteps
<1> QED BY <1>1, Invariant, PTL DEF Spec, AckedCommitIsDurable

\* What persist() and recover() overwrite is in the journal, and they remove
\* the journal only from files that hold its target.
THEOREM OverwriteCorrect == Spec => NothingOverwrittenUnjournaled
<1> DEFINE Kept ==
      /\ \A t \in Table : tables'[t] # tables[t] =>
             tables[t] \in {journal.before[t], journal.after[t]}
      /\ history' # history => history \in {journal.beforeDoc, journal.afterDoc}
      /\ (journal # NoJournal /\ journal' = NoJournal) =>
             tables = journal.after /\ history = journal.afterDoc
<1>1. ASSUME IndInv, [Next]_vars, phase # "idle"
      PROVE  Kept
  <2>1. CASE phase \in {"recover", "recover_history", "sidecars", "history"}
    <3>1. RecoverAllowed
      BY <1>1, <2>1, CommitRecoverable DEF IndInv, CallShape
    <3>2. UNCHANGED journal
      BY <1>1, <2>1 DEF Next, Client, Construct, ConstructRefused, ConstructRecover,
         Stage, Advance, Save, Edit, Replay, ResetRefused, Reset, Close, Ready,
         Progress, RecoverTable, RecoverHistory, RecoverClean, Load, CheckRefused,
         PublishJournal, WriteSidecar, WriteHistory, RemoveJournal, Failure,
         RecoverFails, CheckOverBudget, PublishFails, CommitFails, Crash, Foreign,
         disk, vars
    <3> QED BY <3>1, <3>2 DEF RecoverAllowed
  <2>2. CASE phase \in {"recover_clean", "clean"}
    <3>1. tables = journal.after /\ history = journal.afterDoc
      BY <1>1, <2>2, CleanFiles, RecoverCleanFiles
    <3> QED BY <3>1
  <2>3. CASE phase \in {"load", "check"}
    <3>1. UNCHANGED <<tables, history>> /\ (phase = "load" => journal = NoJournal)
      BY <1>1, <2>3 DEF IndInv, CallShape, Next, Client, Construct, ConstructRefused,
         ConstructRecover, Stage, Advance, Save, Edit, Replay, ResetRefused, Reset,
         Close, Ready, Progress, RecoverTable, RecoverHistory, RecoverClean, Load,
         CheckRefused, PublishJournal, WriteSidecar, WriteHistory, RemoveJournal,
         Failure, RecoverFails, CheckOverBudget, PublishFails, CommitFails, Crash,
         Foreign, disk, vars
    <3>2. journal # NoJournal => journal' = journal
      BY <1>1, <2>3, <3>1 DEF Next, Client, Construct, ConstructRefused,
         ConstructRecover, Stage, Advance, Save, Edit, Replay, ResetRefused, Reset,
         Close, Ready, Progress, RecoverTable, RecoverHistory, RecoverClean, Load,
         CheckRefused, PublishJournal, WriteSidecar, WriteHistory, RemoveJournal,
         Failure, RecoverFails, CheckOverBudget, PublishFails, CommitFails, Crash,
         Foreign, CheckPassed, disk, vars
    <3> QED BY <3>1, <3>2
  <2>4. phase \in {"recover", "recover_history", "sidecars", "history",
                   "recover_clean", "clean", "load", "check"}
    BY <1>1 DEF IndInv, TypeOK, Phase
  <2> QED BY <2>1, <2>2, <2>3, <2>4
<1>2. IndInv /\ [Next]_vars => (phase # "idle" => Kept)
  BY <1>1
<1> QED BY <1>2, Invariant, PTL DEF Spec, NothingOverwrittenUnjournaled

-----------------------------------------------------------------------------
(* ProjectHistory implements EditStore.                                    *)

\* The durable version is a version.
LEMMA DurableType ==
    ASSUME IndInv
    PROVE  DurableVersion \in Snapshot
BY GoodFromIndInv DEF DurableVersion, RecoverAllowed, GoodJournal, GoodDoc, Journal, Snapshot

\* It does not change while the files it is read from do not.
LEMMA DurableStays ==
    ASSUME UNCHANGED <<tables, history, journal, input>>
    PROVE  DurableVersion' = DurableVersion
BY DEF DurableVersion, RecoverAllowed

\* Nor while files move to the targets of a journal that can be completed.
LEMMA DurableUnderJournal ==
    ASSUME RecoverAllowed, RecoverAllowed', UNCHANGED journal
    PROVE  DurableVersion' = DurableVersion
BY DEF DurableVersion

\* Nor when the journal leaves files that hold its target.
LEMMA DurableAfterClean ==
    ASSUME RecoverAllowed, tables = journal.after, history = journal.afterDoc,
           journal' = NoJournal, UNCHANGED <<tables, history>>
    PROVE  DurableVersion' = DurableVersion
BY DEF DurableVersion, RecoverAllowed

\* A requested version is a version.
LEMMA PendingType ==
    ASSUME IndInv, next # NoState
    PROVE  /\ PendingVersion = [state |-> next, doc |-> Document(store, next)]
           /\ PendingVersion \in Snapshot /\ PendingVersion # NoState
           /\ store \in Store
<1>1. store \in Store /\ next \in State
  BY DEF IndInv, TypeOK, Phase, CallShape
<1>2. PendingVersion = [state |-> next, doc |-> Document(store, next)]
  BY DEF PendingVersion
<1>3. PendingVersion \in Snapshot
  BY <1>1, <1>2, DocumentType DEF Snapshot
<1> QED BY <1>1, <1>2, <1>3, ConstantsAssumption

\* A step of a call that moves neither the durable version nor the request.
LEMMA QuietStep ==
    ASSUME DurableVersion' = DurableVersion, UNCHANGED <<store, next>>
    PROVE  [Abstract!Next]_(Abstract!vars)
<1>1. PendingVersion' = PendingVersion
  BY DEF PendingVersion, Document
<1> QED BY <1>1 DEF Abstract!vars

\* A step between two calls that leaves the files alone.
LEMMA BetweenCalls ==
    ASSUME DurableVersion' = DurableVersion, next = NoState, next' = NoState
    PROVE  [Abstract!Next]_(Abstract!vars)
BY DEF PendingVersion, Abstract!vars

\* A call that ends, whether or not its commit happened.
LEMMA EndStep ==
    ASSUME IndInv, next' = NoState,
           \/ DurableVersion' = DurableVersion
           \/ next # NoState /\ DurableVersion' = PendingVersion
    PROVE  [Abstract!Next]_(Abstract!vars)
<1>1. PendingVersion' = NoState
  BY DEF PendingVersion
<1>2. CASE next = NoState
  BY <1>2, BetweenCalls
<1>3. CASE next # NoState
  <2>1. Abstract!End
    BY <1>1, <1>3, PendingType DEF Abstract!End
  <2> QED BY <2>1 DEF Abstract!Next
<1> QED BY <1>2, <1>3

\* Entering persist() is a request, or nothing when it is refused.
LEMMA PersistStep ==
    ASSUME IndInv, IndInv', NEW st, NEW s, NEW copy, Persist(st, s, copy)
    PROVE  [Abstract!Next]_(Abstract!vars)
<1>1. phase = "idle" /\ next = NoState
  BY DEF IndInv, CallShape, Persist
<1>2. DurableVersion' = DurableVersion
  BY DurableStays DEF Persist, disk
<1>3. CASE next' = NoState
  BY <1>1, <1>2, <1>3, BetweenCalls
<1>4. CASE next' # NoState
  <2>1. PendingVersion = NoState
    BY <1>1 DEF PendingVersion
  <2>2. PendingVersion' \in Snapshot
    <3>1. store' \in Store /\ next' \in State
      BY <1>4 DEF IndInv, TypeOK, Phase, CallShape
    <3>2. PendingVersion' = [state |-> next', doc |-> Document(store', next')]
      BY <1>4 DEF PendingVersion, Document
    <3> QED BY <3>1, <3>2, DocumentType DEF Snapshot
  <2>3. Abstract!Request
    BY <1>2, <2>1, <2>2 DEF Abstract!Request
  <2> QED BY <2>3 DEF Abstract!Next
<1> QED BY <1>3, <1>4

\* The calls of a client.
LEMMA ClientStep ==
    ASSUME IndInv, IndInv', Client
    PROVE  [Abstract!Next]_(Abstract!vars)
<1>1. CASE (\E ro \in BOOLEAN : Construct(ro) \/ ConstructRefused(ro)) \/ ResetRefused
  <2>1. phase = "idle" /\ next' = NoState /\ UNCHANGED <<tables, history, journal, input>>
    BY <1>1 DEF Construct, ConstructRefused, ResetRefused, Ready, EndCall, disk
  <2> QED BY <2>1, DurableStays, EndStep
<1>2. CASE ConstructRecover
  BY <1>2, DurableStays, QuietStep DEF ConstructRecover, disk
<1>3. CASE (\E c \in Command : Stage(c)) \/ (\E redo \in BOOLEAN : Advance(redo)) \/ Close
  <2>1. phase = "idle" /\ next' = next /\ UNCHANGED <<tables, history, journal, input>>
    BY <1>3 DEF Stage, Advance, Close, Ready, disk, call
  <2>2. next = NoState
    BY <2>1 DEF IndInv, CallShape
  <2> QED BY <2>1, <2>2, DurableStays, BetweenCalls
<1>4. CASE (\E s \in State : Save(s)) \/ Reset
           \/ (\E c \in Command, s \in State : Edit(c, s))
           \/ (\E redo \in BOOLEAN, s \in State : Replay(redo, s))
  BY <1>4, PersistStep DEF Save, Reset, Edit, Replay
<1> QED BY <1>1, <1>2, <1>3, <1>4 DEF Client

\* A file replaced by its journaled target: nothing changes for a reader who
\* would recover.
LEMMA ReplaceStep ==
    ASSUME IndInv, IndInv', RecoverTable \/ RecoverHistory \/ WriteSidecar \/ WriteHistory
    PROVE  [Abstract!Next]_(Abstract!vars)
<1>1. UNCHANGED <<journal, store, next>>
  BY DEF RecoverTable, RecoverHistory, WriteSidecar, WriteHistory
<1>2. RecoverAllowed
  BY CommitRecoverable
  DEF IndInv, CallShape, RecoverTable, RecoverHistory, WriteSidecar, WriteHistory
<1>3. RecoverAllowed'
  <2>1. CASE WriteSidecar \/ WriteHistory
    <3>1. \A t \in Table : tables'[t] \in {journal.before[t], journal.after[t]}
      BY <1>1, <2>1 DEF IndInv, FilesInFlight, WriteSidecar, WriteHistory
    <3>2. history' \in {journal.beforeDoc, journal.afterDoc} /\ input' = input
      BY <1>1, <2>1 DEF IndInv, FilesInFlight, WriteSidecar, WriteHistory
    <3> QED BY <1>1, <1>2, <3>1, <3>2 DEF RecoverAllowed
  <2>2. CASE RecoverTable \/ RecoverHistory
    BY <2>2 DEF IndInv, CallShape, RecoverTable, RecoverHistory
  <2> QED BY <2>1, <2>2
<1> QED BY <1>1, <1>2, <1>3, DurableUnderJournal, QuietStep

\* Removing a recovered journal leaves the durable version, or ends the call.
LEMMA RecoverCleanStep ==
    ASSUME IndInv, IndInv', RecoverClean
    PROVE  [Abstract!Next]_(Abstract!vars)
<1>1. RecoverAllowed /\ tables = journal.after /\ history = journal.afterDoc
  BY RecoverCleanFiles DEF IndInv, CallShape, RecoverClean
<1>2. DurableVersion' = DurableVersion
  BY <1>1, DurableAfterClean DEF RecoverClean
<1>3. CASE store' = Recovered /\ UNCHANGED next /\ store # NoStore
  <2>1. store \in Store /\ next # NoState
    BY <1>3, InProgress DEF IndInv, CallShape, RecoverClean
  <2>2. Document(Recovered, next) = Document(store, next)
    BY <2>1 DEF Recovered, Document, Store
  <2>3. PendingVersion' = PendingVersion
    BY <1>3, <2>2 DEF PendingVersion, Document
  <2> QED BY <1>2, <2>3 DEF Abstract!vars
<1>4. CASE UNCHANGED <<store, next>>
  BY <1>2, <1>4, QuietStep
<1>5. CASE next' = NoState
  BY <1>2, <1>5, EndStep
<1> QED BY <1>3, <1>4, <1>5 DEF RecoverClean, EndCall

\* The commit point: the journal's publication.
LEMMA PublishStep ==
    ASSUME IndInv, IndInv', PublishJournal \/ PublishFails
    PROVE  [Abstract!Next]_(Abstract!vars)
<1>1. phase = "check" /\ CheckPassed /\ UNCHANGED <<tables, history, input>>
      /\ next # NoState
  BY DEF IndInv, CallShape, PublishJournal, PublishFails
<1>2. ASSUME journal' = Transaction PROVE DurableVersion' = PendingVersion
  <2>1. RecoverAllowed'
    BY <1>1, <1>2, PublishedJournal
  <2>2. DurableVersion' = [state |-> journal'.after, doc |-> journal'.afterDoc]
    BY <2>1 DEF DurableVersion
  <2> QED BY <1>1, <1>2, <2>2, PendingType DEF Transaction
<1>3. CASE PublishJournal
  <2>1. PendingVersion' = PendingVersion
    BY <1>3 DEF PublishJournal, PendingVersion, Document
  <2>2. Abstract!Commit
    BY <1>1, <1>2, <1>3, <2>1, PendingType DEF Abstract!Commit, PublishJournal
  <2> QED BY <2>2 DEF Abstract!Next
<1>4. CASE PublishFails /\ journal' = Transaction
  BY <1>1, <1>2, <1>4, EndStep DEF PublishFails, Throw, EndCall
<1>5. CASE PublishFails /\ journal' = NoJournal
  <2>1. DurableVersion' = DurableVersion
    BY <1>1, <1>5, DurableStays DEF CheckPassed
  <2> QED BY <1>5, <2>1, EndStep DEF PublishFails, Throw, EndCall
<1> QED BY <1>3, <1>4, <1>5 DEF PublishFails

\* A failure that leaves each file as it was or as it was to become.
LEMMA FailStep ==
    ASSUME IndInv, IndInv', RecoverFails \/ CommitFails
    PROVE  [Abstract!Next]_(Abstract!vars)
<1>1. next' = NoState /\ UNCHANGED <<journal, input>>
  BY DEF RecoverFails, CommitFails, Throw, EndCall
<1>2. RecoverAllowed
  BY CommitRecoverable DEF IndInv, CallShape, RecoverFails, CommitFails
<1>3. journal \in Journal /\ (CommitFails => journal.after = next
                              /\ journal.afterDoc = Document(store, next))
  BY InProgress DEF RecoverFails, CommitFails
<1>4. RecoverAllowed'
  <2>1. CASE UNCHANGED <<tables, history>>
    BY <1>1, <1>2, <2>1 DEF RecoverAllowed
  <2>2. CASE /\ \E t \in Table : tables' = [tables EXCEPT ![t] = journal.after[t]]
             /\ UNCHANGED history
    BY <1>1, <1>2, <1>3, <2>2, TableToTarget
  <2>3. CASE history' = journal.afterDoc /\ UNCHANGED tables
    BY <1>1, <1>2, <1>3, <2>3, HistoryToTarget
  <2> QED BY <1>3, <2>1, <2>2, <2>3 DEF RecoverFails, CommitFails
<1> QED BY <1>1, <1>2, <1>4, DurableUnderJournal, EndStep

\* The remaining steps that end a call leave the files as they are, and the
\* last step of a commit only removes the journal.
LEMMA OtherEndStep ==
    ASSUME IndInv, IndInv',
           CheckRefused \/ CheckOverBudget \/ Load \/ Crash \/ RemoveJournal
    PROVE  [Abstract!Next]_(Abstract!vars)
<1>1. next' = NoState
  BY DEF CheckRefused, CheckOverBudget, Load, Crash, RemoveJournal, Throw, EndCall
<1>2. CASE CheckRefused \/ CheckOverBudget \/ Load \/ Crash
  BY <1>1, <1>2, DurableStays, EndStep DEF CheckRefused, CheckOverBudget, Load, Crash, disk
<1>3. CASE RemoveJournal
  <2>1. RecoverAllowed /\ tables = journal.after /\ history = journal.afterDoc
    BY <1>3, CleanFiles, CommitRecoverable DEF RemoveJournal
  <2> QED BY <1>1, <1>3, <2>1, DurableAfterClean, EndStep DEF RemoveJournal
<1> QED BY <1>2, <1>3

\* A foreign edit between two calls is a foreign step of EditStore.
LEMMA ForeignStep ==
    ASSUME IndInv, IndInv', Foreign
    PROVE  [Abstract!Next]_(Abstract!vars)
<1>1. next = NoState /\ next' = NoState
  BY DEF IndInv, CallShape, Foreign, call
<1>2. PendingVersion = NoState /\ PendingVersion' = NoState
  BY <1>1 DEF PendingVersion
<1>3. DurableVersion' \in Snapshot
  <2>1. /\ GoodDoc(history') /\ GoodJournal(journal') /\ tables' \in State
    BY DEF IndInv, TypeOK, CursorInBounds, GoodDoc, GoodJournal
  <2> QED BY <2>1
      DEF DurableVersion, RecoverAllowed, GoodJournal, GoodDoc, Journal, Snapshot
<1>4. Abstract!Foreign
  BY <1>2, <1>3 DEF Abstract!Foreign
<1> QED BY <1>4 DEF Abstract!Next

\* The project's files with their failures, crashes and recoveries behave as
\* one version that commits replace atomically (EditStore): publishing the
\* journal is the commit, everything after it is invisible.
THEOREM Refinement == Spec => ImplementsEditStore
<1>1. Init => Abstract!Init
  <2> SUFFICES ASSUME Init PROVE Abstract!Init
    OBVIOUS
  <2>1. DurableVersion = [state |-> tables, doc |-> history]
    BY DEF Init, DurableVersion, RecoverAllowed
  <2>2. DurableVersion \in Snapshot /\ PendingVersion = NoState
    BY <2>1 DEF Init, Snapshot, PendingVersion
  <2> QED BY <2>2 DEF Abstract!Init
<1>2. IndInv /\ IndInv' /\ [Next]_vars => [Abstract!Next]_(Abstract!vars)
  <2> SUFFICES ASSUME IndInv, IndInv', [Next]_vars
               PROVE  [Abstract!Next]_(Abstract!vars)
    OBVIOUS
  <2>1. CASE UNCHANGED vars
    BY <2>1, DurableStays, QuietStep DEF vars
  <2>2. CASE Client
    BY <2>2, ClientStep
  <2>3. CASE Progress
    BY <2>3, ReplaceStep, RecoverCleanStep, PublishStep, OtherEndStep DEF Progress
  <2>4. CASE Failure
    BY <2>4, FailStep, PublishStep, OtherEndStep DEF Failure
  <2>5. CASE Crash \/ Foreign
    BY <2>5, OtherEndStep, ForeignStep
  <2> QED BY <2>1, <2>2, <2>3, <2>4, <2>5 DEF Next
<1> QED BY <1>1, <1>2, Invariant, PTL DEF Spec, ImplementsEditStore, Abstract!Spec
=============================================================================
