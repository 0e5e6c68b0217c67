----------------------------- MODULE EditSession -----------------------------
(***************************************************************************)
(* The edit operations of the worker's Engine (tools/neverd-worker/        *)
(* Engine.cpp) over the edit history of ProjectHistory: open, annotation_  *)
(* set, rename and its kin, item_define and its kin, undo, redo, save,     *)
(* reload, history_reset and project_sync.                                 *)
(*                                                                         *)
(* The Session is the analysis engine behind the C ABI; it holds its own   *)
(* copy of every table, loaded from the files, and annotation edits live   *)
(* only there until Save.  An operation calls the history, and continues   *)
(* with the Session when the call has ended.  Loading a table into the     *)
(* Session may fail.  Operations run one at a time; a crash may come       *)
(* between any two file operations, foreign edits between two operations.  *)
(***************************************************************************)
EXTENDS ProjectHistory

CONSTANTS
    Key,            \* addresses (numbers, so that they are ordered)
    Value,          \* what a row may say; Absent is no row
    Absent,
    Annotations,    \* the table whose edits are staged until Save
    Eager           \* tables whose edits change the Session before the files

\* A row of a table; every command changes one row (the other rows of one
\* edit, "rows", are further changes of the same kind).
ASSUME SessionAssumption ==
    /\ Rows = [Key -> Value]
    /\ Command = [table : Table, key : Key, before : Value, after : Value]
    /\ Key \subseteq Nat
    /\ Absent \in Value
    /\ Annotations \in Table \ Eager
    /\ Eager \subseteq Table

VARIABLES
    session,    \* [open, readOnly, source, loaded, dirty]: the Engine's members, and
                \* two ghosts: unloaded, the tables whose last load failed, and
                \* unverified, whether a history was ever kept after its recovered
                \* tables failed to load (see AfterBuild)
    op          \* the operation running, and what it remembers

svars == <<vars, session, op>>

NoOp == [kind |-> "none"]
EmptyTables == [t \in Table |-> [k \in Key |-> Absent]]
NewSession(unverified) ==
    [open |-> FALSE, readOnly |-> FALSE, source |-> input, loaded |-> EmptyTables,
     dirty |-> FALSE, unloaded |-> {}, unverified |-> unverified]
Closed == NewSession(session.unverified)

Free == op = NoOp /\ phase = "idle" /\ session.open
Writer == Free /\ ~session.readOnly
\* Engine::history() on a Session whose history is already built.
HistoryReady == Writer /\ store # NoStore /\ input = session.source

Row(tab, t, k) == tab[t][k]
SetRow(tab, t, k, v) == [tab EXCEPT ![t] = [@ EXCEPT ![k] = v]]
Change(t, k, from, to) == [table |-> t, key |-> k, before |-> from, after |-> to]

\* The tables `ts' are loaded from the files; those that fail keep what they held.
LoadTables(s, ts, failed) ==
    [s EXCEPT !.loaded = [t \in Table |-> IF t \in ts \ failed THEN tables[t] ELSE s.loaded[t]],
              !.unloaded = (@ \ ts) \union failed]
LoadOutcome(failed) ==
    IF failed = {} THEN NoFault ELSE Fault

\* verifyLoadedState: a Session that shows other rows than the history's
\* snapshot blocks the history.
Verified(st, loaded) ==
    IF st.blocked = "no" /\ loaded # st.snap.state
    THEN [st EXCEPT !.blocked = "foreign_edits"] ELSE st

\* An operation that goes no further than the Session and the history object.
Local(st, s) ==
    /\ store' = st
    /\ session' = s
    /\ UNCHANGED <<disk, input, call, reply, touched>>

-----------------------------------------------------------------------------
(* open, the lazily built history, reload, close.                          *)

OpenSession(ro) ==
    /\ op = NoOp /\ phase = "idle" /\ ~session.open
    /\ Local(NoStore, [Closed EXCEPT !.open = TRUE, !.readOnly = ro])
    /\ op' = [kind |-> IF journal # NoJournal THEN "open_recover" ELSE "open_load"]
    /\ NoFault

\* Engine::history() builds the history, inside open when a journal is
\* pending, otherwise for the first operation that needs it.
CallConstructor ==
    \/ Construct(session.readOnly)
    \/ ConstructRefused(session.readOnly)
    \/ ~session.readOnly /\ ConstructRecover

OpenRecover ==
    /\ op.kind = "open_recover" /\ phase = "idle"
    /\ CallConstructor
    /\ op' = [kind |-> "open_built", recovered |-> journal # NoJournal]
    /\ UNCHANGED session

BuildHistory ==
    /\ Free /\ store = NoStore /\ input = session.source
    /\ CallConstructor
    /\ op' = [kind |-> "built", recovered |-> journal # NoJournal]
    /\ UNCHANGED session

\* The rest of Engine::history(): after a recovery the Session reloads the
\* files; if that fails the operation fails and the history stays unverified.
AfterBuild ==
    /\ op.kind \in {"built", "open_built"} /\ phase = "idle"
    /\ op' = IF op.kind = "built" THEN NoOp ELSE [kind |-> "open_load"]
    /\ \/ /\ store = NoStore
          /\ Local(store, session) /\ NoFault
       \/ /\ store # NoStore /\ ~op.recovered
          /\ Local(Verified(store, session.loaded), session) /\ NoFault
       \/ /\ store # NoStore /\ op.recovered
          /\ \E failed \in SUBSET Table :
                /\ LoadOutcome(failed)
                /\ LET s == LoadTables(session, Table, failed)
                   IN IF failed = {}
                      THEN Local(Verified(store, s.loaded), [s EXCEPT !.dirty = FALSE])
                      ELSE Local(store, [s EXCEPT !.unverified = TRUE])

OpenLoad ==
    /\ op.kind = "open_load" /\ phase = "idle"
    /\ \E failed \in SUBSET Table :
          /\ LoadOutcome(failed)
          /\ Local(store, LoadTables(session, Table, failed))
    /\ op' = NoOp

Reload ==
    /\ Free
    /\ \E failed \in SUBSET Table :
          /\ LoadOutcome(failed)
          /\ Local(NoStore, [LoadTables(session, Table, failed) EXCEPT
                                !.dirty = @ /\ failed # {}])
    /\ UNCHANGED op

\* Slip: the history outlives its Session.
CloseKeepsHistory ==
    /\ Free
    /\ Local(store, Closed)
    /\ UNCHANGED op
    /\ NoFault

CloseSession ==
    /\ Free
    /\ Local(NoStore, Closed)
    /\ UNCHANGED op
    /\ NoFault

-----------------------------------------------------------------------------
(* Edits.                                                                  *)

\* Slip: the row to undo to is the committed one, not the staged one.
AnnotationSetFromCommitted(k, v) ==
    /\ HistoryReady
    /\ Stage(Change(Annotations, k, Row(store.snap.state, Annotations, k), v))
    /\ session' = [session EXCEPT !.loaded = SetRow(@, Annotations, k, v), !.dirty = TRUE]
    /\ UNCHANGED op

AnnotationSet(k, v) ==
    /\ HistoryReady
    /\ Stage(Change(Annotations, k, Row(session.loaded, Annotations, k), v))
    /\ session' = [session EXCEPT !.loaded = SetRow(@, Annotations, k, v), !.dirty = TRUE]
    /\ UNCHANGED op

\* rename and code_edit: committed at once, over saved comments.
Rename(t, k, v) ==
    /\ HistoryReady /\ ~session.dirty
    /\ Edit(Change(t, k, Row(store.snap.state, t, k), v), SetRow(store.snap.state, t, k, v))
    /\ op' = [kind |-> "rename", table |-> t]
    /\ UNCHANGED session

\* item_define, operand_format, function edits, local_types_declare: the
\* Session takes the edit first and the committed table is read back from it.
\* One row: other rows in which they differ would be added to the command.
ItemDefine(t, k, v) ==
    /\ HistoryReady /\ ~session.dirty
    /\ LET rows == [session.loaded[t] EXCEPT ![k] = v]
       IN /\ Edit(Change(t, k, Row(store.snap.state, t, k), v),
                  [store.snap.state EXCEPT ![t] = rows])
          /\ session' = [session EXCEPT !.loaded = [@ EXCEPT ![t] = rows]]
    /\ op' = [kind |-> "item_define", table |-> t]

\* The engine or a blocked history refuses the edit, which the Session may
\* have taken: it reads the table back from the file.
ItemDefineRefused(t, k, v) ==
    /\ HistoryReady /\ ~session.dirty
    /\ \E failed \in SUBSET {t} :
          /\ LoadOutcome(failed)
          /\ Local(store, LoadTables([session EXCEPT !.loaded = SetRow(@, t, k, v)], {t}, failed))
    /\ UNCHANGED op

\* undo and redo of a staged annotation stay in memory.
ReplayAnnotation(redo) ==
    /\ HistoryReady /\ store.blocked = "no" /\ CanMove(store, redo)
    /\ LET c == NextCommand(store, redo)
       IN /\ c.table = Annotations
          /\ Advance(redo)
          /\ session' = [session EXCEPT
                !.loaded = SetRow(@, Annotations, c.key, IF redo THEN c.after ELSE c.before),
                !.dirty = TRUE]
    /\ UNCHANGED op

\* undo and redo of any other edit are committed at once.
ReplayEdit(redo) ==
    /\ HistoryReady /\ ~session.dirty /\ store.blocked = "no" /\ CanMove(store, redo)
    /\ LET c == NextCommand(store, redo)
       IN /\ c.table # Annotations
          /\ Replay(redo, SetRow(store.snap.state, c.table, c.key,
                                 IF redo THEN c.after ELSE c.before))
    /\ op' = [kind |-> "replay"]
    /\ UNCHANGED session

SaveAnnotations ==
    /\ HistoryReady
    /\ Save([store.snap.state EXCEPT ![Annotations] = session.loaded[Annotations]])
    /\ op' = [kind |-> "save"]
    /\ UNCHANGED session

HistoryReset ==
    /\ HistoryReady /\ ~session.dirty
    /\ Reset \/ ResetRefused
    /\ op' = [kind |-> "history_reset"]
    /\ UNCHANGED session

\* Slip: comments staged for deletion are forgotten.
StagedNotesWithoutDeletions ==
    LET kept == store.snap.state[Annotations]
        live == session.loaded[Annotations]
    IN IF session.dirty
       THEN {<<k, live[k]>> : k \in {k \in Key : live[k] # kept[k] /\ live[k] # Absent}}
       ELSE {}

\* project_sync: the rows staged over the last commit are remembered before
\* the history restarts from the files.
StagedNotes ==
    LET kept == store.snap.state[Annotations]
        live == session.loaded[Annotations]
    IN IF session.dirty THEN {<<k, live[k]>> : k \in {k \in Key : live[k] # kept[k]}} ELSE {}

Current == store.blocked = "no" /\ StateMatches(store.snap)

ProjectSync ==
    /\ HistoryReady /\ ~Current
    /\ Reset \/ ResetRefused
    /\ op' = [kind |-> "sync", notes |-> StagedNotes, kept |-> FALSE,
              was |-> session, committed |-> store.snap.state[Annotations]]
    /\ UNCHANGED session

-----------------------------------------------------------------------------
(* What an operation does with the Session once its history call ended.    *)

Ended(kinds) == op.kind \in kinds /\ phase = "idle"

\* A failure is reported; the Session is left as it is, except that an eager
\* edit reads its table back from the file.
OperationFails ==
    /\ Ended({"rename", "item_define", "replay", "save", "history_reset", "sync"})
    /\ reply # "ok"
    /\ \E failed \in SUBSET Table :
          /\ failed \subseteq {t \in Table : op.kind = "item_define" /\ t = op.table}
          /\ LoadOutcome(failed)
          /\ Local(store, IF op.kind = "item_define"
                          THEN LoadTables(session, {op.table}, failed) ELSE session)
    /\ op' = NoOp

\* An edit the Session took first is there already.
EditSucceeds ==
    /\ Ended({"rename", "item_define"}) /\ reply = "ok"
    /\ IF op.kind = "item_define" THEN Local(store, session) /\ NoFault
       ELSE \E failed \in SUBSET {op.table} :
               /\ LoadOutcome(failed)
               /\ Local(store, LoadTables(session, {op.table}, failed))
    /\ op' = NoOp

SaveSucceeds ==
    /\ Ended({"save"}) /\ reply = "ok"
    /\ Local(store, [session EXCEPT !.dirty = FALSE])
    /\ NoFault
    /\ op' = NoOp

\* Slip: undo commits the tables and does not load them into the Session.
ReplayWithoutReload ==
    /\ Ended({"replay", "history_reset"}) /\ reply = "ok"
    /\ Local(store, session)
    /\ NoFault
    /\ op' = NoOp

ReloadSucceeds ==
    /\ Ended({"replay", "history_reset"}) /\ reply = "ok"
    /\ \E failed \in SUBSET Table :
          /\ LoadOutcome(failed)
          /\ Local(store, LoadTables(session, Table, failed))
    /\ op' = NoOp

\* The files were taken; staged rows are staged again, in address order,
\* unless the reload failed.
SyncReload ==
    /\ Ended({"sync"}) /\ reply = "ok"
    /\ \E failed \in SUBSET Table :
          /\ LoadOutcome(failed)
          /\ Local(store, [LoadTables(session, Table, failed) EXCEPT !.dirty = FALSE])
          /\ op' = IF failed = {} THEN [op EXCEPT !.kind = "sync_stage"] ELSE NoOp

SyncStage ==
    /\ Ended({"sync_stage"})
    /\ \E note \in op.notes :
          /\ \A other \in op.notes : note[1] <= other[1]
          /\ LET before == Row(session.loaded, Annotations, note[1])
             IN \/ /\ before = note[2]
                   /\ Local(store, session) /\ NoFault
                   /\ op' = [op EXCEPT !.notes = @ \ {note}]
                \/ /\ before # note[2]
                   /\ Stage(Change(Annotations, note[1], before, note[2]))
                   /\ session' = [session EXCEPT
                                     !.loaded = SetRow(@, Annotations, note[1], note[2])]
                   /\ op' = [op EXCEPT !.notes = @ \ {note}, !.kept = TRUE]

SyncDone ==
    /\ Ended({"sync_stage"}) /\ op.notes = {}
    /\ Local(store, [session EXCEPT !.dirty = op.kept])
    /\ NoFault
    /\ op' = NoOp

-----------------------------------------------------------------------------
\* The requests a client makes.  Only edits that change what the Session
\* shows: any other adds a command that changes nothing.
Operation ==
    \/ \E ro \in BOOLEAN : OpenSession(ro)
    \/ BuildHistory \/ Reload \/ CloseSession
    \/ \E k \in Key, v \in Value :
          v # Row(session.loaded, Annotations, k) /\ AnnotationSet(k, v)
    \/ \E t \in Table \ (Eager \union {Annotations}), k \in Key, v \in Value :
          v # Row(session.loaded, t, k) /\ Rename(t, k, v)
    \/ \E t \in Eager, k \in Key, v \in Value :
          v # Row(session.loaded, t, k) /\ (ItemDefine(t, k, v) \/ ItemDefineRefused(t, k, v))
    \/ \E redo \in BOOLEAN : ReplayAnnotation(redo) \/ ReplayEdit(redo)
    \/ SaveAnnotations \/ HistoryReset \/ ProjectSync

Continue ==
    \/ OpenRecover \/ AfterBuild \/ OpenLoad
    \/ OperationFails \/ EditSucceeds \/ SaveSucceeds \/ ReloadSucceeds
    \/ SyncReload \/ SyncStage \/ SyncDone

HistoryStep == (Progress \/ Failure) /\ UNCHANGED <<session, op>>

\* The worker dies with its Session; files survive.
WorkerDies ==
    /\ session.open
    /\ EndCall("none", NoStore)
    /\ Fault
    /\ session' = Closed
    /\ op' = NoOp
    /\ UNCHANGED <<disk, input, touched>>

ForeignEdit == op = NoOp /\ Foreign /\ UNCHANGED <<session, op>>

\* A project without edits yet; foreign edits and the operations fill it.
SessionInit == Init /\ tables = EmptyTables /\ session = NewSession(FALSE) /\ op = NoOp
SessionNext == Operation \/ Continue \/ HistoryStep \/ WorkerDies \/ ForeignEdit
SessionSpec == SessionInit /\ [][SessionNext]_svars

-----------------------------------------------------------------------------
(* Correctness.                                                            *)

\* Every variable of the Session has its type.
SessionTypeOK ==
    /\ TypeOK
    /\ session \in [open : BOOLEAN, readOnly : BOOLEAN, source : Input,
                    loaded : State, dirty : BOOLEAN, unloaded : SUBSET Table,
                    unverified : BOOLEAN]
    /\ session.open \/ store = NoStore

SameRow(a, b) == a.table = b.table /\ a.key = b.key

\* The commands of a line form one chain per row, and the chain passes
\* through the row's present value at the cursor: undoing and redoing any
\* number of steps shows every row as it was.
LineDescribes(line, cursor, rows) ==
    /\ \A i, j \in DOMAIN line :
          (i < j /\ SameRow(line[i], line[j])
             /\ \A m \in (i + 1)..(j - 1) : ~SameRow(line[i], line[m]))
          => line[j].before = line[i].after
    /\ \A i \in 1..cursor :
          (\A m \in (i + 1)..cursor : ~SameRow(line[i], line[m]))
          => Row(rows, line[i].table, line[i].key) = line[i].after
    /\ \A i \in (cursor + 1)..Len(line) :
          (\A m \in (cursor + 1)..(i - 1) : ~SameRow(line[i], line[m]))
          => Row(rows, line[i].table, line[i].key) = line[i].before

Settled == op = NoOp /\ phase = "idle" /\ store # NoStore /\ store.blocked = "no"

\* Undo and redo never show a row that was never there: after any mixture of
\* staged edits, commits, undos, failed calls with their restored checkpoints,
\* retries, recoveries, syncs and tables that fail to load, the commands in
\* memory describe the rows the Session shows (annotation_set, undo/redo,
\* stage, store = checkpoint).  The one exception is a history kept after its
\* recovered tables failed to load (Engine::history).
UndoDescribesSession ==
    Settled /\ ~session.unverified =>
        LineDescribes(store.commands, store.cursor,
                      [store.snap.state EXCEPT ![Annotations] = session.loaded[Annotations]])

\* The same, with the same exception, for what a reopened project will load:
\* the document, and the one a pending journal will install, describe their own
\* tables (persist, document, recover).
UndoDescribesFiles ==
    ~session.unverified =>
        /\ history # NoDoc => LineDescribes(history.commands, history.cursor, history.state)
        /\ journal # NoJournal =>
              LineDescribes(journal.afterDoc.commands, journal.afterDoc.cursor, journal.after)

\* "dirty" tells the truth: a Session that reports nothing to save shows the
\* rows its history committed, so neither a rename over it nor a restart loses
\* an edit (dirty_, verifyLoadedState, project_sync).  It is said of the tables
\* whose last load did not fail and that no edit changes in the Session first.
CleanSessionIsCommitted ==
    (Settled /\ ~session.dirty) =>
        \A t \in Table \ (Eager \union session.unloaded) :
            session.loaded[t] = store.snap.state[t]

\* A comment staged, and not yet committed, when project_sync began.
StagedBefore(k) ==
    op.was.dirty /\ Row(op.was.loaded, Annotations, k) # op.committed[k]
\* project_sync keeps staged comments on top of the files it takes and reports
\* them unsaved, when it succeeds and when its history call fails.  (A failing
\* load of the files it took does lose them: SyncReload.)
SyncKeepsNotes ==
    [][(/\ op.kind = "sync_stage" \/ (op.kind = "sync" /\ reply # "ok")
        /\ op' = NoOp /\ session'.open) =>
          \A k \in Key : StagedBefore(k) =>
              /\ session'.loaded[Annotations][k] = op.was.loaded[Annotations][k]
              /\ session'.loaded[Annotations][k] # store'.snap.state[Annotations][k]
                    => session'.dirty]_svars

=============================================================================
