-------------------------- MODULE SessionTransition --------------------------
(***************************************************************************)
(* Leaving a project that has unsaved edits (neverd-gui/app/Session): the  *)
(* question, the save, the write of the database the project was opened    *)
(* from, and only then the quit, close, restart or open.  The worker runs  *)
(* commands in order (module QuerySession); a database is written by a     *)
(* thread of its own; another workbench may write the same database.  A    *)
(* database opened again replaces the working copy's files.                *)
(*                                                                         *)
(* Edits are numbers; a file, a database, or what the worker holds staged  *)
(* is the set of the edits in it.                                          *)
(***************************************************************************)
EXTENDS Naturals, Sequences, FiniteSets

CONSTANTS
    Actions,    \* the ways to leave: a subset of the four below
    Events,     \* what else happens: see the actions that name it
    MaxEdits,   \* bound on edits, this workbench's and the others'
    MaxCommands,\* bound on commands waiting
    MaxLeaves, MaxSaves \* bounds on requests to leave, and to save or pack

\* "restart" stands for Session::reload too.
ASSUME TransitionAssumption ==
    /\ Actions \subseteq {"quit", "close", "restart", "open"}
    /\ Events \subseteq {"exit", "fails", "unwritten", "unread", "another", "marker", "pack",
                         "bookmark", "late", "opening", "overtake"}
    /\ {MaxEdits, MaxCommands, MaxLeaves, MaxSaves} \subseteq Nat

VARIABLES
    session,    \* Session's fields: see Fresh
    questions,  \* the modal questions on screen, the last on top
    commands,   \* enqueueCommand's: see Command
    worker,     \* [process, staged]
    opener,     \* the thread of openPending: "idle", "unpack", "read" or a result
    writer,     \* the thread of writeDatabase: see WriteDatabase
    files,      \* the working copy's project files
    recovery,   \* [journal, marker]: the edits a commit published and did not finish;
                \* the identity of the database they were found with, or Unknown
    database    \* the database opened

\* Ghosts.
VARIABLES
    made,       \* how many edits were made
    leaves, saves,  \* how many times the user asked to leave, and to save
    acked,      \* edits the user was told are done
    saved,      \* edits the opened database has held
    given,      \* edits the user discarded, or a worker took with it
    lost,       \* edits gone and neither saved nor given up
    theirs,     \* edits of other workbenches
    trampled,   \* those replaced without asking
    slipped     \* those that arrived where no write looks: see Unseen

others == <<theirs, trampled, slipped>>
ghosts == <<made, leaves, saves, acked, saved, given, lost, others>>
vars == <<session, questions, commands, worker, opener, writer, files, recovery, database, ghosts>>

\* An identity is the set of the edits in a database; this is none at all.
Unknown == {0}
Idle == [phase |-> "idle"]
Nothing == [path |-> "", replace |-> FALSE]

\* Session as the user just opened the database.
Init ==
    /\ session = [loaded |-> TRUE, opened |-> TRUE, opening |-> FALSE, connected |-> TRUE,
                  starting |-> FALSE, epoch |-> 0, pendingFile |-> FALSE, quit |-> FALSE,
                  transition |-> "", ready |-> FALSE, dirty |-> FALSE, databaseDirty |-> FALSE,
                  marked |-> FALSE, pendingWrites |-> 0, identity |-> {},
                  writing |-> FALSE, waiting |-> Nothing]
    /\ questions = <<>> /\ commands = <<>>
    /\ worker = [process |-> "up", staged |-> {}]
    /\ opener = Idle /\ writer = Idle
    /\ files = {} /\ database = {} /\ recovery = [journal |-> {}, marker |-> Unknown]
    /\ made = 0 /\ leaves = 0 /\ saves = 0 /\ acked = {} /\ saved = {} /\ given = {} /\ lost = {}
    /\ theirs = {} /\ trampled = {} /\ slipped = {}

Dirty(s) == s.dirty \/ s.pendingWrites > 0 \/ (s.opened /\ s.databaseDirty)
Attended == questions = <<>> /\ ~session.quit   \* no modal question is open
\* What the next unpack may replace: nothing while a recovery is pending.
Exposed == IF recovery = [journal |-> {}, marker |-> Unknown] THEN files ELSE {}
\* What the user would miss: neither saved nor given up.
Missed(edits) == edits \ (saved \union given)
Due == Missed(acked)

-----------------------------------------------------------------------------
(* Steps of Session's functions: each gives the session after it.          *)

CancelTransition(s) == [s EXCEPT !.transition = "", !.ready = FALSE, !.pendingFile = FALSE]

ResetState(s) == [s EXCEPT !.loaded = FALSE, !.dirty = FALSE, !.opened = FALSE,
                           !.databaseDirty = FALSE, !.identity = Unknown]

\* `marked': whether databaseEdits_ moved since the last write began.
MarkDatabaseDirty(s) == [s EXCEPT !.databaseDirty = TRUE, !.marked = TRUE]

\* Session::command: what it enqueues, rejected at once without a worker.
Command(s, op, then, edit) ==
    [op |-> op, then |-> then, edit |-> edit, epoch |-> s.epoch, dirty |-> FALSE,
     identity |-> Unknown, recovered |-> FALSE,
     code |-> IF s.connected THEN "" ELSE "unavailable"]
Enqueue(s, op, then, edit) ==
    /\ Len(commands) < MaxCommands
    /\ session' = [s EXCEPT !.pendingWrites = @ + 1]
    /\ commands' = Append(commands, Command(s, op, then, edit))

\* Slip: what waits is not counted.
WriteDatabaseUncounted(s, path, replace) ==
    IF s.writing THEN [s EXCEPT !.waiting = [path |-> path, replace |-> replace]]
    ELSE [s EXCEPT !.writing = TRUE, !.marked = FALSE]

\* Session::writeDatabase; StartWriter starts the thread it leaves running.
WriteDatabase(s, path, replace) ==
    IF s.writing THEN [s EXCEPT !.waiting = [path |-> path, replace |-> replace]]
    ELSE [s EXCEPT !.writing = TRUE, !.marked = FALSE, !.pendingWrites = @ + 1]

\* Slip: the opened database is not checked either.
WriterBlind(s, path, replace) ==
    [phase |-> "check", path |-> path, replace |-> replace,
     opened |-> s.opened /\ path = "database", expects |-> FALSE, expected |-> {}, code |-> "",
     identity |-> Unknown]

\* What that thread, and the watcher waiting for it, are given.
Writer(s, path, replace) ==
    LET opened == s.opened /\ path = "database"
    IN [phase |-> "check", path |-> path, replace |-> replace, opened |-> opened,
        expects |-> opened /\ ~replace /\ s.identity # Unknown, expected |-> s.identity,
        code |-> "", identity |-> Unknown]

StartWriter(s, path, replace) ==
    writer' = IF s.writing THEN writer ELSE Writer(s, path, replace)

\* The commands of an epoch that is over are answered later.
Retired(queue) == [n \in DOMAIN queue |-> [queue[n] EXCEPT !.code = "stopped"]]

\* Where an approved or a clean request to leave goes; `queue' are the
\* commands left and `due' the edits the user would miss.  Except to quit, the
\* worker is stopped with what it staged, and another is started.
GoOn(s, action, queue, due) ==
    IF action = "quit"
    THEN /\ session' = [s EXCEPT !.quit = TRUE]
         /\ lost' = lost \union ((worker.staged \union Exposed) \intersect due)
         /\ commands' = queue
         /\ UNCHANGED worker
    ELSE IF action = "close" /\ ~s.loaded
    THEN session' = s /\ commands' = queue /\ UNCHANGED <<worker, lost>>
    ELSE /\ session' = [ResetState(s) EXCEPT
                           !.epoch = IF s.connected THEN @ + 1 ELSE @,
                           !.connected = FALSE, !.starting = TRUE, !.opening = FALSE,
                           !.pendingFile = CASE action = "open" -> @
                                             [] action = "close" -> FALSE
                                             [] action = "restart" -> TRUE]
         /\ worker' = [process |-> "starting", staged |-> {}]
         /\ lost' = lost \union (worker.staged \intersect due)
         /\ commands' = IF s.connected THEN Retired(queue) ELSE queue

\* Slip: nothing waits for the writes.
MayGoOnWriting(s) == s.ready /\ s.transition # ""

MayGoOn(s) == s.ready /\ s.pendingWrites = 0 /\ s.transition # ""

\* Session::finishTransition.
FinishTransition(s, queue, due) ==
    IF MayGoOn(s)
    THEN GoOn([s EXCEPT !.transition = "", !.ready = FALSE, !.dirty = FALSE,
                        !.databaseDirty = FALSE], s.transition, queue, due)
    ELSE session' = s /\ commands' = queue /\ UNCHANGED <<worker, lost>>

\* Session::openPending; `otherwise' is the opener when nothing is pending.
OpenPending(s, otherwise) ==
    IF s.pendingFile /\ ~s.opening /\ s.connected
    THEN /\ session' = [s EXCEPT !.pendingFile = FALSE, !.opening = TRUE]
         /\ opener' = [phase |-> "unpack"]
    ELSE session' = s /\ opener' = otherwise

-----------------------------------------------------------------------------
(* The user.                                                               *)

\* An edit, staged by the worker ("note") or committed to its files at once.
\* Session::acceptsEdit gates it.
MakesEdit(op) ==
    /\ Attended /\ session.loaded /\ session.transition = ""
    /\ session.opening => "opening" \in Events
    /\ made < MaxEdits
    /\ made' = made + 1
    /\ Enqueue(session, op, "", made + 1)
    /\ UNCHANGED <<questions, worker, opener, writer, files, recovery, database, leaves, saves,
                   acked, saved, given, lost, others>>

\* Session::save.
Saves ==
    /\ Attended /\ session.loaded /\ saves < MaxSaves
    /\ saves' = saves + 1
    /\ Enqueue(session, "save", "save", 0)
    /\ UNCHANGED <<questions, worker, opener, writer, files, recovery, database, made, leaves,
                   acked, saved, given, lost, others>>

\* An earlier request to leave is not over: it waits, or its save does.
Leaving == \/ session.transition # ""
           \/ \E n \in DOMAIN commands : commands[n].then = "transition"

\* Session::packDatabase, into another database.
Packs ==
    /\ "pack" \in Events
    /\ Leaving => "late" \in Events
    /\ Attended /\ session.loaded /\ saves < MaxSaves
    /\ saves' = saves + 1
    /\ IF Dirty(session)
       THEN Enqueue(session, "save", "pack", 0) /\ UNCHANGED writer
       ELSE /\ session' = WriteDatabase(session, "packed", FALSE)
            /\ StartWriter(session, "packed", FALSE)
            /\ UNCHANGED commands
    /\ UNCHANGED <<questions, worker, opener, files, recovery, database, made, leaves, acked, saved,
                   given, lost, others>>

\* Session::saveBookmarks: the GUI writes the file itself.
Bookmarks ==
    /\ "bookmark" \in Events
    /\ Leaving => "late" \in Events
    /\ Attended /\ session.loaded /\ made < MaxEdits
    /\ session.opening => "opening" \in Events
    /\ made' = made + 1
    /\ files' = files \union {made + 1}
    /\ acked' = acked \union {made + 1}
    /\ session' = IF session.opened THEN MarkDatabaseDirty(session) ELSE session
    /\ UNCHANGED <<questions, commands, worker, opener, writer, recovery, database, leaves, saves,
                   saved, given, lost, others>>

\* requestQuit, closeFile, restart, reload and open.
Leaves(action) ==
    /\ Attended /\ leaves < MaxLeaves
    /\ Leaving => "overtake" \in Events
    /\ action = "close" => session.loaded
    /\ leaves' = leaves + 1
    /\ IF Dirty(session)
       THEN /\ session' = [session EXCEPT !.transition = action, !.ready = FALSE,
                               !.pendingFile = @ \/ action = "open"]
            /\ questions' = <<"transition">>
            /\ UNCHANGED <<commands, worker, opener, lost>>
       ELSE /\ UNCHANGED questions
            /\ IF action # "open" THEN GoOn(session, action, commands, Due) /\ UNCHANGED opener
               ELSE /\ UNCHANGED <<commands, lost>>
                    /\ IF session.connected
                       THEN /\ OpenPending([session EXCEPT !.pendingFile = TRUE], opener)
                            /\ UNCHANGED worker
                       ELSE /\ session' = [session EXCEPT !.pendingFile = TRUE, !.starting = TRUE]
                            /\ worker' = IF session.starting THEN worker
                                         ELSE [process |-> "starting", staged |-> {}]
                            /\ UNCHANGED opener
    /\ UNCHANGED <<writer, files, recovery, database, made, saves, acked, saved, given, others>>

Asked(question) == questions # <<>> /\ questions[Len(questions)] = question
Answers(question) ==
    /\ Asked(question)
    /\ questions' = SubSeq(questions, 1, Len(questions) - 1)

\* Session::resolveTransition.
AnswersTransition(choice) ==
    /\ Answers("transition")
    /\ IF session.transition = ""
       THEN UNCHANGED <<session, commands, worker, recovery, given, lost>>
       ELSE CASE choice = "cancel" ->
                    /\ session' = CancelTransition(session)
                    /\ UNCHANGED <<commands, worker, recovery, given, lost>>
              [] choice = "save" ->
                    /\ Enqueue(session, "save", "transition", 0)
                    /\ UNCHANGED <<worker, recovery, given, lost>>
              [] choice = "discard" ->
                    \/ /\ "marker" \in Events /\ session.opened /\ recovery.marker # Unknown
                       /\ UNCHANGED <<session, commands, worker, recovery, given, lost>>
                    \/ /\ recovery' = IF session.opened THEN [recovery EXCEPT !.marker = Unknown]
                                      ELSE recovery
                       /\ given' = given \union 1..made
                       /\ FinishTransition([session EXCEPT !.dirty = FALSE, !.ready = TRUE,
                                               !.databaseDirty = FALSE], commands, {})
    /\ UNCHANGED <<opener, writer, files, database, made, leaves, saves, acked, saved, others>>

\* Session::resolveDatabaseConflict.
AnswersConflict(replace) ==
    /\ Answers("conflict")
    /\ LET s == [session EXCEPT !.pendingWrites = @ - 1, !.writing = FALSE, !.waiting = Nothing]
       IN IF replace
          THEN /\ session' = WriteDatabase(s, writer.path, TRUE)
               /\ StartWriter(s, writer.path, TRUE)
          ELSE session' = CancelTransition(s) /\ writer' = Idle
    /\ UNCHANGED <<commands, worker, opener, files, recovery, database, ghosts>>

-----------------------------------------------------------------------------
(* The worker.                                                             *)

\* What a commit publishes in its journal, and then writes to the files.
Commits(c) == CASE c.op = "edit" -> {c.edit} [] c.op = "save" -> worker.staged [] OTHER -> {}

\* It runs the first command: what it answers, and what becomes of its
\* staged edits and of the files.  A commit or an open first completes a
\* commit that was interrupted; one that fails may leave its journal.
WorkerRuns ==
    /\ worker.process = "up" /\ commands # <<>> /\ Head(commands).code = ""
    /\ LET c == Head(commands)
           staged == CASE c.op = "note" -> worker.staged \union {c.edit}
                       [] c.op \in {"save", "open"} -> {}
                       [] OTHER -> worker.staged
           answer(code, dirty) ==
               commands' = <<[c EXCEPT !.code = code, !.dirty = dirty]>> \o Tail(commands)
       IN \/ /\ answer("ok", staged # {})
             /\ worker' = [worker EXCEPT !.staged = staged]
             /\ IF c.op = "note" THEN UNCHANGED <<files, recovery>>
                ELSE /\ files' = files \union recovery.journal \union Commits(c)
                     /\ recovery' = [recovery EXCEPT !.journal = {}]
             /\ lost' = IF c.op = "open" THEN lost \union (worker.staged \intersect Due) ELSE lost
          \/ /\ "fails" \in Events
             /\ answer("failed", FALSE)
             /\ \E published \in {{}, Commits(c)} :
                   recovery' = [recovery EXCEPT !.journal = @ \union published]
             /\ UNCHANGED <<worker, files, lost>>
    /\ UNCHANGED <<session, questions, opener, writer, database, made, leaves, saves, acked,
                   saved, given, others>>

\* It crashes, and what it had staged goes with it, unless it was committing
\* it and had published the journal.
Exits ==
    /\ "exit" \in Events
    /\ worker.process = "up" /\ ~session.quit
    /\ worker' = [process |-> "gone", staged |-> {}]
    /\ \E published \in {{}} \union
                        {Commits(c) : c \in {commands[n] : n \in {n \in DOMAIN commands :
                                                    n = 1 /\ commands[n].code = ""}}} :
          recovery' = [recovery EXCEPT !.journal = @ \union published]
    /\ given' = given \union (worker.staged \ recovery'.journal)
    /\ UNCHANGED <<session, questions, commands, opener, writer, files, database, made,
                   leaves, saves, acked, saved, lost, others>>

\* The handler of EngineClient::stopped, and QueryService's new epoch.
Stopped(s) == [s EXCEPT !.connected = FALSE, !.starting = FALSE, !.opening = FALSE,
                        !.loaded = FALSE, !.epoch = @ + 1]

HearsStopped ==
    /\ worker.process = "gone"
    /\ worker' = [worker EXCEPT !.process = "down"]
    /\ session' = Stopped(session)
    /\ commands' = Retired(commands)
    /\ UNCHANGED <<questions, opener, writer, files, recovery, database, ghosts>>

\* hello.  The commands of the last worker were answered by zero timers by
\* then; that the unpacking of an open it took down has ended is a bound on
\* the threads.
HearsHello ==
    /\ worker.process = "starting" /\ opener = Idle /\ commands = <<>>
    /\ worker' = [worker EXCEPT !.process = "up"]
    /\ OpenPending([session EXCEPT !.connected = TRUE, !.starting = FALSE], Idle)
    /\ UNCHANGED <<questions, commands, writer, files, recovery, database, ghosts>>

-----------------------------------------------------------------------------
(* Completions.                                                            *)

\* Slip: only the failure of the database's write calls the transition off.
CommandFailedOn(s, op) == s

\* Nothing is left before it is saved.
CommandFailed(s, op) == IF op = "save" THEN CancelTransition(s) ELSE s

\* The completion of an edit or of a save, with what the save was for.
Completes ==
    /\ commands # <<>> /\ Head(commands).code # "" /\ Head(commands).op # "open"
    /\ LET c == Head(commands)
           ok == c.epoch = session.epoch /\ c.code = "ok"
           told == [session EXCEPT !.pendingWrites = @ - 1]
           done == IF session.opened THEN MarkDatabaseDirty([told EXCEPT !.dirty = c.dirty])
                   ELSE [told EXCEPT !.dirty = c.dirty]
           path == IF c.then = "pack" THEN "packed" ELSE "database"
           writes == ok /\ (c.then = "pack" \/ (c.then # "" /\ session.opened))
           written == IF writes THEN WriteDatabase(done, path, FALSE) ELSE done
           after == CASE ok -> [written EXCEPT !.ready = @ \/ c.then = "transition"]
                      [] c.epoch = session.epoch /\ c.code # "ok" -> CommandFailed(told, c.op)
                      [] OTHER -> told
       IN /\ FinishTransition(after, Tail(commands),
                              Missed(IF ok THEN acked \union {c.edit} ELSE acked))
          /\ IF writes THEN StartWriter(done, path, FALSE) ELSE UNCHANGED writer
          /\ acked' = IF ok /\ c.edit # 0 THEN acked \union {c.edit} ELSE acked
    /\ UNCHANGED <<questions, opener, files, recovery, database, made, leaves, saves, saved, given,
                   others>>

\* The completion of an open, which ends the session of the commands behind.
\* The edits a recovery shows are the user's again, unless to leave them was
\* decided.
CompletesOpen ==
    /\ commands # <<>> /\ Head(commands).code # "" /\ Head(commands).op = "open"
    /\ LET c == Head(commands)
       IN IF c.code = "ok"
          THEN /\ OpenPending([ResetState(session) EXCEPT
                      !.loaded = TRUE, !.opened = TRUE, !.opening = FALSE, !.epoch = @ + 1,
                      !.identity = c.identity, !.databaseDirty = c.recovered], opener)
               /\ commands' = Retired(Tail(commands))
               /\ acked' = IF c.recovered THEN acked \union files ELSE acked
               /\ given' = IF c.recovered /\ ~session.ready THEN given \ files ELSE given
          ELSE /\ OpenPending([session EXCEPT !.opening = FALSE], opener)
               /\ commands' = Tail(commands)
               /\ UNCHANGED <<acked, given>>
    /\ UNCHANGED <<questions, worker, writer, files, recovery, database, made, leaves, saves,
                   saved, lost, others>>

-----------------------------------------------------------------------------
(* The threads that unpack and write databases.                            *)

\* The working copy is kept: a journal is pending, or the edits recovered
\* from one were never written to the database it was found with.
Preserves == recovery.journal # {} \/ recovery.marker = database
\* They were found with another database, and are in none.
Refuses == recovery.marker \notin {Unknown, database} /\ files # database

\* ProjectDatabase::unpack.
Unpacks ==
    /\ opener.phase = "unpack"
    /\ \/ /\ ~Refuses
          /\ opener' = [phase |-> "read", recovered |-> Preserves]
          /\ recovery' = [recovery EXCEPT !.marker = IF Preserves THEN database ELSE Unknown]
          /\ files' = IF Preserves THEN files ELSE database
          /\ slipped' = IF Preserves THEN slipped \union ((database \intersect theirs) \ files)
                        ELSE slipped
       \/ /\ Refuses \/ "fails" \in Events
          /\ opener' = [phase |-> "failed"]
          /\ UNCHANGED <<files, recovery, slipped>>
       \/ /\ "fails" \in Events /\ ~Refuses /\ recovery.marker # database
          /\ opener' = [phase |-> "failed"]
          /\ recovery' = [recovery EXCEPT !.marker = Unknown]
          /\ \E mixed \in SUBSET (files \union database) :
                /\ files \intersect database \subseteq mixed
                /\ files' = IF Preserves THEN files ELSE mixed
          /\ UNCHANGED slipped
    /\ lost' = lost \union ((files \ files') \intersect Due)
    /\ UNCHANGED <<session, questions, commands, worker, writer, database, made, leaves, saves,
                   acked, saved, given, theirs, trampled>>

\* The rest of unpackOrRestore: what the database holds by then.
OpenerReads ==
    /\ opener.phase = "read"
    /\ \/ opener' = [phase |-> "unpacked", identity |-> database, recovered |-> opener.recovered]
       \/ "unread" \in Events /\ opener' = [phase |-> "failed"]
    /\ UNCHANGED <<session, questions, commands, worker, writer, files, recovery, database, ghosts>>

\* Session::sendOpen, or the error; an open is no write.
Unpacked ==
    /\ \/ /\ opener.phase = "unpacked"
          /\ commands' = Append(commands, [Command(session, "open", "", 0) EXCEPT
                              !.identity = opener.identity, !.recovered = opener.recovered])
          /\ opener' = Idle
          /\ UNCHANGED session
       \/ /\ opener.phase = "failed"
          /\ OpenPending([session EXCEPT !.opening = FALSE], Idle)
          /\ UNCHANGED commands
    /\ UNCHANGED <<questions, worker, writer, files, recovery, database, ghosts>>

\* writeProjectDatabase: whether the database is as expected, then
\* ProjectDatabase::save, one transaction, and then what the database holds.
WriterChecks ==
    /\ writer.phase = "check"
    /\ \/ /\ writer.expects => database = writer.expected
          /\ writer' = [writer EXCEPT !.phase = "save"]
       \/ /\ writer.expects /\ (database # writer.expected \/ "unread" \in Events)
          /\ writer' = [writer EXCEPT !.phase = "done", !.code = "changed"]
    /\ UNCHANGED <<session, questions, commands, worker, opener, files, recovery, database, ghosts>>

\* A database that holds the recovered edits ends the recovery; when that
\* fails, an error is reported although the database was written.
WriterSaves ==
    /\ writer.phase = "save"
    /\ \/ /\ writer.path = "database"
          /\ database' = files
          /\ saved' = saved \union files
          /\ trampled' = IF writer.replace THEN trampled
                         ELSE trampled \union ((database \intersect theirs) \ files)
          /\ \/ /\ writer' = [writer EXCEPT !.phase = "read"]
                /\ recovery' = [recovery EXCEPT !.marker = Unknown]
             \/ /\ "marker" \in Events /\ recovery.marker # Unknown
                /\ writer' = [writer EXCEPT !.phase = "done", !.code = "error"]
                /\ UNCHANGED recovery
       \/ /\ writer.path = "packed"
          /\ writer' = [writer EXCEPT !.phase = "read"]
          /\ UNCHANGED <<database, saved, trampled, recovery>>
       \/ /\ "unwritten" \in Events
          /\ writer' = [writer EXCEPT !.phase = "done", !.code = "error"]
          /\ UNCHANGED <<database, saved, trampled, recovery>>
    /\ UNCHANGED <<session, questions, commands, worker, opener, files, made, leaves, saves, acked,
                   given, lost, theirs, slipped>>

WriterReads ==
    /\ writer.phase = "read"
    /\ \E identity \in {database} \union (IF "unread" \in Events THEN {Unknown} ELSE {}) :
          writer' = [writer EXCEPT !.phase = "done", !.code = "ok", !.identity = identity]
    /\ UNCHANGED <<session, questions, commands, worker, opener, files, recovery, database, ghosts>>

\* Slip: the write is taken to hold every edit made by the time it ends.
HoldsEveryEditAlways(s) == TRUE

\* An edit made since the write read the files is not in it.
HoldsEveryEdit(s) == ~s.marked

\* The write that waited, if any, and what the writes were for.
WriterGoesOn(s) ==
    LET next == s.waiting
        more == next # Nothing
        s1 == [s EXCEPT !.waiting = Nothing]
    IN /\ FinishTransition(IF more THEN WriteDatabase(s1, next.path, next.replace) ELSE s1,
                           commands, Due)
       /\ writer' = IF more THEN Writer(s1, next.path, next.replace) ELSE Idle

\* The watcher of the write.
WriterEnds ==
    /\ writer.phase = "done"
    /\ LET s == [session EXCEPT !.pendingWrites = @ - 1, !.writing = FALSE]
       IN CASE writer.code = "changed" ->
                  /\ questions' = Append(questions, "conflict")
                  /\ writer' = [writer EXCEPT !.phase = "asking"]
                  /\ UNCHANGED <<session, commands, worker, lost>>
            [] writer.code = "ok" ->
                  /\ WriterGoesOn([s EXCEPT
                         !.identity = IF writer.opened THEN writer.identity ELSE @,
                         !.databaseDirty = @ /\ ~(IF writer.opened THEN HoldsEveryEdit(s)
                                                  ELSE writer.path = "database")])
                  /\ UNCHANGED questions
            [] writer.code = "error" ->
                  /\ WriterGoesOn([CancelTransition(s) EXCEPT !.waiting = Nothing])
                  /\ UNCHANGED questions
    /\ UNCHANGED <<opener, files, recovery, database, made, leaves, saves, acked, saved, given,
                   others>>

\* Where the code does not look, or what it sees becomes what it expects:
\* between the look at the database and its write, between the write or the
\* unpacking and the reading that follows, and while that reading failed.
Unseen ==
    \/ writer.phase \in {"save", "read"} /\ writer.path = "database"
    \/ writer.phase = "check" /\ writer.expected = Unknown
    \/ writer.phase = "done" /\ writer.code = "ok" /\ writer.opened /\ writer.identity = Unknown
    \/ opener.phase = "read"
    \/ session.opened /\ session.identity = Unknown

\* Another workbench packs its own project into the database.
AnotherWrites ==
    /\ "another" \in Events /\ made < MaxEdits /\ ~session.quit
    /\ made' = made + 1
    /\ theirs' = theirs \union {made + 1}
    /\ slipped' = IF Unseen THEN slipped \union {made + 1} ELSE slipped
    /\ database' = {made + 1}
    /\ saved' = saved \union {made + 1}
    /\ UNCHANGED <<session, questions, commands, worker, opener, writer, files, recovery, leaves,
                   saves, acked, given, lost, trampled>>

-----------------------------------------------------------------------------
User ==
    \/ \E op \in {"note", "edit"} : MakesEdit(op)
    \/ Saves \/ Packs \/ Bookmarks
    \/ \E action \in Actions : Leaves(action)
UserAnswers ==
    \/ \E choice \in {"save", "discard", "cancel"} : AnswersTransition(choice)
    \/ \E replace \in BOOLEAN : AnswersConflict(replace)
EventLoop == HearsStopped \/ HearsHello \/ Completes \/ CompletesOpen \/ Unpacked \/ WriterEnds
Threads == Unpacks \/ OpenerReads \/ WriterChecks \/ WriterSaves \/ WriterReads

Next == User \/ UserAnswers \/ EventLoop \/ WorkerRuns \/ Exits \/ Threads \/ AnotherWrites
Spec == Init /\ [][Next]_vars

\* The event loop, the worker and the threads go on, and the user answers
\* what is asked; nobody has to edit, save or leave.
Fairness ==
    /\ WF_vars(UserAnswers) /\ WF_vars(HearsStopped) /\ WF_vars(HearsHello)
    /\ WF_vars(Completes) /\ WF_vars(CompletesOpen) /\ WF_vars(Unpacked) /\ WF_vars(WriterEnds)
    /\ WF_vars(WorkerRuns) /\ WF_vars(Unpacks) /\ WF_vars(WriterChecks) /\ WF_vars(WriterSaves)
    /\ WF_vars(OpenerReads) /\ WF_vars(WriterReads)
LiveSpec == Spec /\ Fairness

-----------------------------------------------------------------------------
(* Properties.                                                             *)

\* Session::pendingWrites_ counts the edits and saves without an answer and
\* the database write that runs or waits for the user, whatever fails, stops
\* or is retired: one too many and no transition ever goes on, one too few
\* and it goes on too early.
PendingWritesExact ==
    session.pendingWrites =
        Cardinality({n \in DOMAIN commands : commands[n].op # "open"})
        + IF session.writing THEN 1 ELSE 0

\* While Session::dirty says no, there is nothing to ask about: every edit
\* the user was told is done, or that a recovery showed, is in the database
\* opened, or was given up.  It is said without edits during an open (the event
\* "opening").
CleanMeansSaved ==
    session.loaded /\ ~session.quit /\ ~Dirty(session) =>
        (worker.staged \union files) \intersect Due = {}

\* Leaving and opening lose no edit that the user was told is done, or shown
\* again by a recovery, and did not discard: through failed saves, writes and
\* unpackings, conflicts, crashes in the middle of a commit and edits in flight
\* when the question comes.  It is said of one request to leave at a time, with
\* no pack or bookmark during it and no edit during an open (the events
\* "overtake", "late" and "opening").
NothingLostUnasked == lost = {}

\* What another workbench put into the database is replaced only after the
\* user said so (databaseConflict), unless it arrived in one of the windows
\* that the code leaves open (Unseen), or was there when a recovered working
\* copy was kept instead (Unpacks).
AnotherKept == trampled \subseteq slipped

\* Edits are paused (Session::acceptsEdit) only while a question, a save or a
\* write is pending.
PausedOnlyWhilePending ==
    session.loaded /\ session.transition # "" =>
        \/ session.ready
        \/ \E n \in DOMAIN questions : questions[n] = "transition"
        \/ \E n \in DOMAIN commands : commands[n].then = "transition"

\* A request to leave that was approved, or whose save was sent, ends: it
\* goes on, or it is called off and edits are accepted again, unless the
\* worker dies or an open replaces the session under it (which may leave it
\* in place: PausedOnlyWhilePending).
TransitionEnds ==
    /\ session.transition # ""
    /\ \/ session.ready
       \/ \E n \in DOMAIN commands :
             commands[n].then = "transition" /\ commands[n].epoch = session.epoch
    ~> session.transition = "" \/ session.opening \/ worker.process # "up"
=============================================================================
