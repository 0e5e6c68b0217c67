--------------------------- MODULE ProjectHistory ---------------------------
(***************************************************************************)
(* The durable edit history of a project (tools/neverd-worker/             *)
(* ProjectHistory.{h,cpp}).                                                *)
(*                                                                         *)
(* A project folder holds one file per user table (annotations, renames,   *)
(* ...), a history document (the undo commands, their cursor and the       *)
(* tables they describe) and, while a commit is under way, a write-ahead   *)
(* journal with the tables and the document before and after the commit.   *)
(* The worker holds at most one history object, `store'.  persist() checks *)
(* that the files are the ones it knows, publishes the journal, replaces   *)
(* the changed tables and the document one file at a time, and removes the *)
(* journal.  Any write may fail, the worker may die between any two writes *)
(* and git, another tool or a person may change the files between calls.   *)
(*                                                                         *)
(* A table's contents are opaque here (its normalised rows, one value): the*)
(* history compares and copies them and never looks inside.                *)
(***************************************************************************)
EXTENDS Naturals, Sequences, FiniteSets

CONSTANTS
    Table,          \* the user tables, one sidecar file each (UserStateTables.def)
    Rank,           \* the order of the tables in UserStateTables.def
    Rows,           \* what a table may hold, normalised
    Command,        \* what an undo command may be
    Input,          \* what the analysed binary may be (its SHA-256 and stamp)
    ByteBudget,     \* whether the byte budget may bind as well as MaxCommands
    MaxCommands,    \* kProjectHistoryStageCommandsSizeLimit, 128 in the code
    MaxFaults,      \* bound on the failures, crashes and foreign edits of a behaviour
    NoDoc,          \* no history document ("null")
    NoJournal,      \* no journal file; interruptedWrite_ is null
    NoStore,        \* no history object in memory; no checkpoint
    NoState         \* no state being committed

State == [Table -> Rows]
Doc == [commands : Seq(Command), cursor : Nat, state : State, source : Input]
Journal == [before : State, beforeDoc : Doc \union {NoDoc},
            after : State, afterDoc : Doc, source : Input]
Snapshot == [state : State, doc : Doc \union {NoDoc}]
Blocked == {"no", "input_changed", "foreign_edits"}
Store == [snap : Snapshot, commands : Seq(Command), cursor : Nat,
          blocked : Blocked, interrupted : Journal \union {NoJournal},
          source : Input, readOnly : BOOLEAN]

ASSUME ConstantsAssumption ==
    /\ Rank \in [Table -> Nat]
    /\ MaxCommands \in Nat \ {0}
    /\ ByteBudget \in BOOLEAN
    /\ MaxFaults \in Nat
    /\ NoDoc \notin Doc
    /\ NoJournal \notin Journal
    /\ NoStore \notin Store
    /\ NoState \notin State \union Snapshot

VARIABLES
    tables,     \* the sidecar files
    history,    \* local/history.json
    journal,    \* local/journal.json
    input,      \* the binary on disk
    store,      \* the worker's ProjectHistory, if it has built one
    phase,      \* the next file operation of the call in progress
    todo,       \* the tables that call still has to replace
    next,       \* the state that call is to commit
    checkpoint, \* the caller's copy of the history, restored when the call fails
    reply,      \* how the last call ended
    touched,    \* a foreign edit the worker has not yet met
    faults      \* failures, crashes and foreign edits so far

disk == <<tables, history, journal>>
call == <<phase, todo, next, checkpoint>>
vars == <<tables, history, journal, input, store, phase, todo, next,
          checkpoint, reply, touched, faults>>

Phase == {"idle", "recover", "recover_history", "recover_clean", "load",
          "check", "sidecars", "history", "clean"}
Reply == {"none", "ok", "read_only", "input_changed", "foreign_edits",
          "recovery_required", "save_failed", "cleanup_failed",
          "budget_exceeded"}

-----------------------------------------------------------------------------
(* Commands in memory: stage, next, advance, document.                     *)

\* Slips a maintainer could make, each caught by the property named with it
\* in PROJECT.json: here the command limit of stage() forgotten, the
\* document saved with its cursor at the tip or with the tables of the previous
\* commit.
DropsNothing(st) == 0..(st.cursor + 1)
DocumentAtTip(st, state) ==
    [commands |-> st.commands, cursor |-> Len(st.commands),
     state |-> state, source |-> st.source]
DocumentOfSnapshot(st, state) ==
    [commands |-> st.commands, cursor |-> st.cursor,
     state |-> st.snap.state, source |-> st.source]

\* stage(): drop the redo branch, append the command, and drop the oldest
\* `drop' commands.  The command limit forces some of them, the byte budget
\* may force any more.
Drops(st) ==
    {d \in 0..(st.cursor + 1) :
        /\ st.cursor + 1 - d <= MaxCommands
        /\ ByteBudget \/ d = 0 \/ st.cursor + 1 - d = MaxCommands}
Staged(st, command, drop) ==
    LET line == Append(SubSeq(st.commands, 1, st.cursor), command)
    IN [st EXCEPT !.commands = SubSeq(line, drop + 1, Len(line)),
                  !.cursor = st.cursor + 1 - drop]

CanMove(st, redo) == IF redo THEN st.cursor < Len(st.commands) ELSE st.cursor > 0
NextCommand(st, redo) == st.commands[IF redo THEN st.cursor + 1 ELSE st.cursor]
Advanced(st, redo) ==
    [st EXCEPT !.cursor = IF redo THEN st.cursor + 1 ELSE st.cursor - 1]

Document(st, state) ==
    [commands |-> st.commands, cursor |-> st.cursor,
     state |-> state, source |-> st.source]

-----------------------------------------------------------------------------
(* Reading the project's files.                                            *)

BlockedReason ==
    IF history = NoDoc THEN "no"
    ELSE IF history.source # input THEN "input_changed"
    ELSE IF history.state # tables THEN "foreign_edits"
    ELSE "no"

\* The constructor after recovery: readSnapshot and the history document.
Loaded(ro) ==
    LET usable == history # NoDoc /\ BlockedReason = "no"
    IN [snap |-> [state |-> tables, doc |-> history],
        commands |-> IF usable THEN history.commands ELSE <<>>,
        cursor |-> IF usable THEN history.cursor ELSE 0,
        blocked |-> BlockedReason, interrupted |-> NoJournal,
        source |-> input, readOnly |-> ro]

StateMatches(snap) == tables = snap.state
HistoryMatches(snap) == history = snap.doc

\* Slip: recovery does not look at the tables it replaces.
RecoverAllowedOverEdits ==
    /\ journal # NoJournal
    /\ journal.source = input
    /\ history \in {journal.beforeDoc, journal.afterDoc}
    /\ journal.afterDoc.source = input
    /\ journal.afterDoc.state = journal.after
    /\ journal.afterDoc.cursor <= Len(journal.afterDoc.commands)
    /\ Len(journal.afterDoc.commands) <= MaxCommands

\* recover() completes a transaction only when every file is the one before
\* or the one after it.
RecoverAllowed ==
    /\ journal # NoJournal
    /\ journal.source = input
    /\ \A t \in Table : tables[t] \in {journal.before[t], journal.after[t]}
    /\ history \in {journal.beforeDoc, journal.afterDoc}
    /\ journal.afterDoc.source = input
    /\ journal.afterDoc.state = journal.after
    /\ journal.afterDoc.cursor <= Len(journal.afterDoc.commands)
    /\ Len(journal.afterDoc.commands) <= MaxCommands

RecoverRefusal ==
    IF journal.source # input THEN "input_changed" ELSE "foreign_edits"

Changed(before, after) == {t \in Table : before[t] # after[t]}
FirstOf(t) == t \in todo /\ \A u \in todo : Rank[t] <= Rank[u]

-----------------------------------------------------------------------------
(* How a call ends.                                                        *)

EndCall(result, st) ==
    /\ reply' = result
    /\ store' = st
    /\ phase' = "idle"
    /\ todo' = {}
    /\ next' = NoState
    /\ checkpoint' = NoStore

\* An exception leaves persist(); a caller that holds a checkpoint restores
\* it, whatever the files hold by then.
Throw(result, st) == EndCall(result, IF checkpoint = NoStore THEN st ELSE checkpoint)

Fault == faults < MaxFaults /\ faults' = faults + 1
NoFault == UNCHANGED faults

\* The history a failure past the journal's publication leaves behind.
Interrupted == [store EXCEPT !.interrupted = journal]

-----------------------------------------------------------------------------
(* The constructor.                                                        *)

Construct(ro) ==
    /\ phase = "idle" /\ store = NoStore
    /\ journal = NoJournal
    /\ EndCall("ok", Loaded(ro))
    /\ touched' = (BlockedReason # "no")
    /\ NoFault
    /\ UNCHANGED <<disk, input>>

ConstructRefused(ro) ==
    /\ phase = "idle" /\ store = NoStore
    /\ journal # NoJournal
    /\ ro \/ ~RecoverAllowed
    /\ EndCall(IF ro THEN "recovery_required" ELSE RecoverRefusal, NoStore)
    /\ NoFault
    /\ UNCHANGED <<disk, input, touched>>

ConstructRecover ==
    /\ phase = "idle" /\ store = NoStore
    /\ RecoverAllowed
    /\ phase' = "recover"
    /\ todo' = Table
    /\ NoFault
    /\ UNCHANGED <<disk, input, store, next, checkpoint, reply, touched>>

-----------------------------------------------------------------------------
(* recover(): replace every table and the document by the journal's, then  *)
(* remove the journal.  The constructor and persist() both run it.         *)

RecoverTable ==
    \E t \in Table :
        /\ phase = "recover" /\ FirstOf(t)
        /\ tables' = [tables EXCEPT ![t] = journal.after[t]]
        /\ todo' = todo \ {t}
        /\ phase' = IF todo' = {} THEN "recover_history" ELSE "recover"
        /\ NoFault
        /\ UNCHANGED <<history, journal, input, store, next, checkpoint,
                       reply, touched>>

RecoverHistory ==
    /\ phase = "recover_history"
    /\ history' = journal.afterDoc
    /\ phase' = "recover_clean"
    /\ NoFault
    /\ UNCHANGED <<tables, journal, input, store, todo, next, checkpoint,
                   reply, touched>>

\* What persist() holds once it has completed its own interrupted write.
Recovered ==
    [store EXCEPT !.snap = [state |-> journal.after, doc |-> journal.afterDoc],
                  !.interrupted = NoJournal]

\* Slip: persist() returns after completing its interrupted write, although
\* it was asked to commit something else by now.
RecoverCleanReturns ==
    /\ phase = "recover_clean"
    /\ journal' = NoJournal
    /\ NoFault
    /\ UNCHANGED <<tables, history, input, touched>>
    /\ \/ /\ store = NoStore
          /\ phase' = "load"
          /\ UNCHANGED <<store, todo, next, checkpoint, reply>>
       \/ /\ store # NoStore
          /\ EndCall("ok", Recovered)

RecoverClean ==
    /\ phase = "recover_clean"
    /\ journal' = NoJournal
    /\ NoFault
    /\ UNCHANGED <<tables, history, input, touched>>
    /\ \/ /\ store = NoStore
          /\ phase' = "load"
          /\ UNCHANGED <<store, todo, next, checkpoint, reply>>
       \/ /\ store # NoStore
          /\ next = journal.after
          /\ Document(store, next) = journal.afterDoc
          /\ EndCall("ok", Recovered)
       \/ /\ store # NoStore
          /\ next # journal.after \/ Document(store, next) # journal.afterDoc
          /\ store' = Recovered
          /\ phase' = "check"
          /\ UNCHANGED <<todo, next, checkpoint, reply>>

\* A file operation of recover() fails, before or after it took effect.
RecoverFails ==
    /\ phase \in {"recover", "recover_history", "recover_clean"}
    /\ \/ UNCHANGED <<tables, history>>
       \/ /\ phase = "recover"
          /\ \E t \in Table : /\ FirstOf(t)
                              /\ tables' = [tables EXCEPT ![t] = journal.after[t]]
          /\ UNCHANGED history
       \/ /\ phase = "recover_history"
          /\ history' = journal.afterDoc
          /\ UNCHANGED tables
    /\ Throw(IF phase = "recover_clean" THEN "recovery_required" ELSE "save_failed",
             store)
    /\ Fault
    /\ UNCHANGED <<journal, input, touched>>

\* The constructor reads what it recovered.
Load ==
    /\ phase = "load"
    /\ EndCall("ok", Loaded(FALSE))
    /\ touched' = (BlockedReason # "no")
    /\ NoFault
    /\ UNCHANGED <<disk, input>>

-----------------------------------------------------------------------------
(* persist(): `st' is the history as the caller prepared it, `state' the   *)
(* tables to commit and `copy' the caller's checkpoint.                    *)

PersistRefusal(st) ==
    IF st.blocked # "no" THEN st.blocked
    ELSE IF st.readOnly THEN "read_only"
    ELSE IF input # st.source THEN "input_changed"
    ELSE IF st.interrupted = NoJournal THEN "none"
    ELSE IF journal # st.interrupted THEN "recovery_required"
    ELSE IF ~RecoverAllowed THEN RecoverRefusal
    ELSE "none"

Persist(st, state, copy) ==
    /\ phase = "idle"
    /\ NoFault
    /\ UNCHANGED <<disk, input, touched>>
    /\ \/ /\ PersistRefusal(st) # "none"
          /\ EndCall(PersistRefusal(st), IF copy = NoStore THEN st ELSE copy)
       \/ /\ PersistRefusal(st) = "none"
          /\ store' = st
          /\ next' = state
          /\ checkpoint' = copy
          /\ phase' = IF st.interrupted = NoJournal THEN "check" ELSE "recover"
          /\ todo' = IF st.interrupted = NoJournal THEN {} ELSE Table
          /\ UNCHANGED reply

\* The transaction check publishes.
Transaction ==
    [before |-> store.snap.state, beforeDoc |-> store.snap.doc,
     after |-> next, afterDoc |-> Document(store, next), source |-> store.source]

\* Slip: the tables on disk are not compared with the snapshot.
CheckWithoutState == journal = NoJournal /\ HistoryMatches(store.snap)

CheckPassed ==
    journal = NoJournal /\ StateMatches(store.snap) /\ HistoryMatches(store.snap)

CheckRefused ==
    /\ phase = "check"
    /\ ~CheckPassed
    /\ Throw(IF journal # NoJournal THEN "recovery_required" ELSE "foreign_edits",
             store)
    /\ NoFault
    /\ UNCHANGED <<disk, input, touched>>

\* The document, the journal or a table is over its byte budget, or the
\* project folder cannot be made: nothing was written.
CheckOverBudget ==
    /\ phase = "check"
    /\ CheckPassed
    /\ Throw("budget_exceeded", store)
    /\ Fault
    /\ UNCHANGED <<disk, input, touched>>

PublishJournal ==
    /\ phase = "check"
    /\ CheckPassed
    /\ journal' = Transaction
    /\ todo' = Changed(store.snap.state, next)
    /\ phase' = IF todo' = {} THEN "history" ELSE "sidecars"
    /\ NoFault
    /\ UNCHANGED <<tables, history, input, store, next, checkpoint, reply, touched>>

\* The journal's own write fails, before or after the file was replaced; it
\* is outside persist()'s try block, so interruptedWrite_ stays null.
PublishFails ==
    /\ phase = "check"
    /\ CheckPassed
    /\ journal' \in {NoJournal, Transaction}
    /\ Throw("save_failed", store)
    /\ Fault
    /\ UNCHANGED <<tables, history, input, touched>>

WriteSidecar ==
    \E t \in Table :
        /\ phase = "sidecars" /\ FirstOf(t)
        /\ tables' = [tables EXCEPT ![t] = next[t]]
        /\ todo' = todo \ {t}
        /\ phase' = IF todo' = {} THEN "history" ELSE "sidecars"
        /\ NoFault
        /\ UNCHANGED <<history, journal, input, store, next, checkpoint,
                       reply, touched>>

WriteHistory ==
    /\ phase = "history"
    /\ history' = Document(store, next)
    /\ phase' = "clean"
    /\ NoFault
    /\ UNCHANGED <<tables, journal, input, store, todo, next, checkpoint,
                   reply, touched>>

\* The journal is removed and the snapshot moves to the committed state.
RemoveJournal ==
    /\ phase = "clean"
    /\ journal' = NoJournal
    /\ EndCall("ok", [store EXCEPT !.snap = [state |-> next,
                                              doc |-> Document(store, next)]])
    /\ touched' = FALSE
    /\ NoFault
    /\ UNCHANGED <<tables, history, input>>

\* A file operation past the journal fails, before or after it took effect.
CommitFails ==
    /\ phase \in {"sidecars", "history", "clean"}
    /\ \/ UNCHANGED <<tables, history>>
       \/ /\ phase = "sidecars"
          /\ \E t \in Table : /\ FirstOf(t)
                              /\ tables' = [tables EXCEPT ![t] = next[t]]
          /\ UNCHANGED history
       \/ /\ phase = "history"
          /\ history' = Document(store, next)
          /\ UNCHANGED tables
    /\ Throw(IF phase = "clean" THEN "cleanup_failed" ELSE "save_failed", Interrupted)
    /\ Fault
    /\ UNCHANGED <<journal, input, touched>>

-----------------------------------------------------------------------------
(* The calls a client makes.                                               *)

Ready == phase = "idle" /\ store # NoStore

\* stage() alone: an edit that waits for Save.
Stage(command) ==
    /\ Ready /\ store.blocked = "no"
    /\ \E drop \in Drops(store) : store' = Staged(store, command, drop)
    /\ NoFault
    /\ UNCHANGED <<disk, input, call, reply, touched>>

Advance(redo) ==
    /\ Ready /\ store.blocked = "no" /\ CanMove(store, redo)
    /\ store' = Advanced(store, redo)
    /\ NoFault
    /\ UNCHANGED <<disk, input, call, reply, touched>>

\* Save keeps no checkpoint; an edit and an undo that commit at once do.
Save(state) == Ready /\ Persist(store, state, NoStore)
Edit(command, state) ==
    /\ Ready /\ store.blocked = "no"
    /\ \E drop \in Drops(store) : Persist(Staged(store, command, drop), state, store)
Replay(redo, state) ==
    /\ Ready /\ store.blocked = "no" /\ CanMove(store, redo)
    /\ Persist(Advanced(store, redo), state, store)

ResetStore ==
    [store EXCEPT !.snap = [state |-> tables, doc |-> history],
                  !.commands = <<>>, !.cursor = 0, !.blocked = "no"]

ResetRefused ==
    /\ Ready
    /\ store.readOnly \/ journal # NoJournal
    /\ EndCall(IF store.readOnly THEN "read_only" ELSE "recovery_required", store)
    /\ NoFault
    /\ UNCHANGED <<disk, input, touched>>

Reset ==
    /\ Ready
    /\ ~store.readOnly /\ journal = NoJournal
    /\ Persist(ResetStore, tables, store)

\* The session closes, or drops its history to build it again.
Close ==
    /\ Ready
    /\ store' = NoStore
    /\ NoFault
    /\ UNCHANGED <<disk, input, call, reply, touched>>

\* The worker dies; each replacement is atomic, so the files are as they were
\* before or after the next one.
Crash ==
    /\ phase # "idle" \/ store # NoStore
    /\ EndCall("none", NoStore)
    /\ Fault
    /\ UNCHANGED <<disk, input, touched>>

\* git, another tool or a person changes the project between two calls.
Foreign ==
    /\ phase = "idle"
    /\ \/ /\ \E t \in Table, r \in Rows : tables' = [tables EXCEPT ![t] = r]
          /\ UNCHANGED <<history, journal, input>>
       \/ history' = NoDoc /\ UNCHANGED <<tables, journal, input>>
       \/ journal' = NoJournal /\ UNCHANGED <<tables, history, input>>
       \/ input' \in Input /\ UNCHANGED disk
    /\ <<disk, input>>' # <<disk, input>>
    /\ touched' = TRUE
    /\ Fault
    /\ UNCHANGED <<store, call, reply>>

-----------------------------------------------------------------------------
Init ==
    /\ tables \in State
    /\ history = NoDoc
    /\ journal = NoJournal
    /\ input \in Input
    /\ store = NoStore
    /\ phase = "idle"
    /\ todo = {}
    /\ next = NoState
    /\ checkpoint = NoStore
    /\ reply = "none"
    /\ touched = FALSE
    /\ faults = 0

Client ==
    \/ \E ro \in BOOLEAN : Construct(ro) \/ ConstructRefused(ro)
    \/ ConstructRecover
    \/ \E c \in Command : Stage(c)
    \/ \E redo \in BOOLEAN : Advance(redo)
    \/ \E s \in State : Save(s)
    \/ \E c \in Command, s \in State : Edit(c, s)
    \/ \E redo \in BOOLEAN, s \in State : Replay(redo, s)
    \/ ResetRefused \/ Reset
    \/ Close

\* The file operations of the call in progress.
Progress ==
    \/ RecoverTable \/ RecoverHistory \/ RecoverClean \/ Load
    \/ CheckRefused \/ PublishJournal
    \/ WriteSidecar \/ WriteHistory \/ RemoveJournal

Failure == RecoverFails \/ CheckOverBudget \/ PublishFails \/ CommitFails

Next == Client \/ Progress \/ Failure \/ Crash \/ Foreign

Spec == Init /\ [][Next]_vars

-----------------------------------------------------------------------------
(* Correctness.                                                            *)

\* Every variable has its type.
TypeOK ==
    /\ tables \in State
    /\ history \in Doc \union {NoDoc}
    /\ journal \in Journal \union {NoJournal}
    /\ input \in Input
    /\ store \in Store \union {NoStore}
    /\ phase \in Phase
    /\ todo \in SUBSET Table
    /\ next \in State \union {NoState}
    /\ checkpoint \in Store \union {NoStore}
    /\ reply \in Reply
    /\ touched \in BOOLEAN
    /\ faults \in Nat

BoundedLine(x) == x.cursor <= Len(x.commands) /\ Len(x.commands) <= MaxCommands

\* An undo cursor never leaves its command list and the list never exceeds its
\* limit: in memory, in a caller's checkpoint, in the document and in the one a
\* journal will install (stage, advance, store = checkpoint, recover).
CursorInBounds ==
    /\ store # NoStore => BoundedLine(store)
    /\ checkpoint # NoStore => BoundedLine(checkpoint)
    /\ history # NoDoc => BoundedLine(history)
    /\ journal # NoJournal => BoundedLine(journal.afterDoc)

\* Unless somebody else changed the project, a reopened project is never
\* refused: a pending journal can be completed, and without one the history
\* document describes exactly the tables and the binary on disk.  Holds
\* between any two writes of persist(), recover() and reset(), after every
\* failure and crash.
FilesConsistent ==
    ~touched => IF journal # NoJournal
                THEN RecoverAllowed
                ELSE history = NoDoc \/ (history.state = tables /\ history.source = input)

\* A commit acknowledged with success is on disk as a whole, with the history
\* that describes it and no journal left to replay.
AckedCommitIsDurable ==
    [][(next # NoState /\ phase' = "idle" /\ reply' = "ok") =>
          /\ tables' = next
          /\ history' = Document(store, next)
          /\ journal' = NoJournal]_vars

\* persist() and recover() never destroy the only copy of a table or of the
\* history: what they overwrite is the content the journal holds on one of
\* its two sides, and the journal leaves only when the files hold its target.
NothingOverwrittenUnjournaled ==
    [][phase # "idle" =>
          /\ \A t \in Table : tables'[t] # tables[t] =>
                 tables[t] \in {journal.before[t], journal.after[t]}
          /\ history' # history => history \in {journal.beforeDoc, journal.afterDoc}
          /\ (journal # NoJournal /\ journal' = NoJournal) =>
                 tables = journal.after /\ history = journal.afterDoc]_vars

\* What a reopened project shows: a pending journal that can be completed
\* stands for its target.
DurableVersion ==
    IF RecoverAllowed THEN [state |-> journal.after, doc |-> journal.afterDoc]
                      ELSE [state |-> tables, doc |-> history]
PendingVersion ==
    IF next = NoState THEN NoState
    ELSE [state |-> next, doc |-> Document(store, next)]

Abstract == INSTANCE EditStore WITH
    Version <- Snapshot, None <- NoState,
    durable <- DurableVersion, pending <- PendingVersion

\* The files, their failures, crashes and recoveries together behave as one
\* atomically replaced version: the journal's publication is the commit.
ImplementsEditStore == Abstract!Spec

=============================================================================
