-------------------------- MODULE EditSessionProofs --------------------------
(***************************************************************************)
(* Proofs about EditSession for any tables, addresses, values, binaries,   *)
(* command limits and numbers of faults, failing loads included, where no  *)
(* edit changes the Session before the files (Eager is empty).             *)
(***************************************************************************)
EXTENDS EditSession, ProjectHistoryProofs, SequenceTheorems

-----------------------------------------------------------------------------
(* The inductive invariant.                                                *)

\* Committed tables under the comments a Session shows.
Over(rows, s) == [rows EXCEPT ![Annotations] = s.loaded[Annotations]]

\* A Session shows its history's last commit, save for staged comments and
\* for tables that failed to load; what the history may have to recover
\* differs from that commit in comments at most.
Shows(st, s, dirty) ==
    st.blocked = "no" =>
        /\ \A t \in Table \ s.unloaded :
              t # Annotations \/ ~dirty => s.loaded[t] = st.snap.state[t]
        /\ st.interrupted # NoJournal =>
              \A t \in Table :
                  t # Annotations \/ (~dirty /\ t \notin s.unloaded)
                      => st.interrupted.after[t] = st.snap.state[t]

\* A history describes the last commit under the Session's comments and, when
\* none is staged, the commit itself and what it may have to recover: a
\* Session whose comments failed to load shows others than the commit.
Describes(st, rows) == LineDescribes(st.commands, st.cursor, rows)
Told(st, s, dirty) ==
    st.blocked = "no" /\ ~s.unverified =>
        /\ Describes(st, Over(st.snap.state, s))
        /\ ~dirty => Describes(st, st.snap.state)
        /\ ~dirty /\ st.interrupted # NoJournal => Describes(st, st.interrupted.after)
Faithful(st, s, dirty) == Shows(st, s, dirty) /\ Told(st, s, dirty)

\* A history that has just read, or written, all the files.
Fresh(st) ==
    /\ st.snap.state = tables /\ st.interrupted = NoJournal
    /\ st.blocked = "no" /\ ~session.unverified => Describes(st, tables)

Calls == {"rename", "replay", "save", "history_reset", "sync"}
Builds == {"built", "open_built"}
SessionOK ==
    session \in [open : BOOLEAN, readOnly : BOOLEAN, source : Input, loaded : State,
                 dirty : BOOLEAN, unloaded : SUBSET Table, unverified : BOOLEAN]
SyncOp(kind) ==
    [kind |-> kind, notes |-> op.notes, kept |-> op.kept, was |-> op.was, committed |-> op.committed]
OpOK ==
    \/ op = NoOp
    \/ /\ op.kind \in Calls \union Builds \union {"open_recover", "open_load", "sync_stage"}
       /\ session.open
       /\ op.kind = "rename" => op.table \in Table \ {Annotations}
       /\ op.kind \in {"sync", "sync_stage"} => op.kept \in BOOLEAN /\ op = SyncOp(op.kind)
\* Where a call of the history can be under way.
Underway ==
    /\ ~session.open => op = NoOp /\ store = NoStore
    /\ phase # "idle" => op.kind \in Calls \union Builds
    /\ op.kind \in Calls => store # NoStore /\ (phase # "idle" => next # NoState)
    /\ op.kind \in Builds /\ phase # "idle" => store = NoStore /\ next = NoState
    /\ op.kind = "open_recover" => store = NoStore

\* Between operations, and while the history is built.
Resting == op = NoOp /\ store # NoStore => Faithful(store, session, session.dirty)
Building ==
    op.kind \in Builds \union {"open_load"} /\ phase = "idle" /\ store # NoStore =>
        /\ Fresh(store)
        /\ op.kind = "open_load" /\ store.blocked = "no" /\ ~session.unverified =>
              session.loaded = tables

\* A call under way: what it commits is described, and what it leaves if it
\* fails.
Loads(s, rows, without) == \A t \in Table \ (without \union s.unloaded) : s.loaded[t] = rows[t]
Committing ==
    op.kind \in Calls /\ phase # "idle" =>
        /\ store.blocked = "no"
        /\ ~session.unverified => Describes(store, next) /\ Describes(store, Over(next, session))
        /\ phase \in {"recover", "recover_history", "recover_clean"} => journal = store.interrupted
        /\ phase \in {"check", "sidecars", "history", "clean"} => store.interrupted = NoJournal
        /\ IF op.kind = "save"
           THEN /\ checkpoint = NoStore /\ next = Over(store.snap.state, session)
                /\ Faithful(store, session, session.dirty)
           ELSE /\ checkpoint # NoStore
                /\ Faithful(checkpoint, session, session.dirty)
        /\ op.kind = "rename" => ~session.dirty /\ Loads(session, next, {op.table})
\* A call that has ended.
Answered ==
    op.kind \in Calls /\ phase = "idle" =>
        IF reply # "ok" THEN Faithful(store, session, session.dirty)
        ELSE /\ store.blocked = "no" /\ Fresh(store)
             /\ ~session.unverified => Describes(store, Over(tables, session))
             /\ op.kind = "save" => Loads(session, tables, {})
             /\ op.kind = "rename" => ~session.dirty /\ Loads(session, tables, {op.table})

\* project_sync: the comments it remembers are staged, or to be staged.
Syncing ==
    /\ op.kind = "sync" =>
          /\ op.was = session /\ op.committed \in Rows
          /\ op.notes = {<<k, session.loaded[Annotations][k]>> : k \in {k \in Key : StagedBefore(k)}}
    /\ op.kind = "sync_stage" =>
          /\ store # NoStore /\ store.blocked = "no" /\ store.interrupted = NoJournal
          /\ session.unloaded = {} /\ Faithful(store, session, op.kept)
          /\ op.was.loaded \in State
          /\ \A note \in op.notes :
                note[1] \in Key /\ note[2] = op.was.loaded[Annotations][note[1]]
          /\ \A k \in Key : StagedBefore(k) =>
                \/ \E note \in op.notes : note[1] = k
                \/ session.loaded[Annotations][k] = op.was.loaded[Annotations][k]

SInv ==
    /\ IndInv /\ SessionOK /\ OpOK /\ Underway /\ UndoDescribesFiles
    /\ Resting /\ Building /\ Committing /\ Answered /\ Syncing


-----------------------------------------------------------------------------
(* Rows and lines of commands.                                             *)

\* A table holds rows, a command changes one.
LEMMA Shapes ==
    /\ \A s \in State : s \in [Table -> [Key -> Value]]
    /\ \A c \in Command : c.table \in Table /\ c.key \in Key /\ c.before \in Value /\ c.after \in Value
    /\ Annotations \in Table
    /\ \A t \in Table, k \in Key, v, w \in Value : Change(t, k, v, w) \in Command
BY SessionAssumption DEF State, Change

\* One row is set and no other.
LEMMA SetRowDoes ==
    ASSUME NEW s \in State, NEW t \in Table, NEW k \in Key, NEW v \in Value
    PROVE  /\ SetRow(s, t, k, v) \in State
           /\ Row(SetRow(s, t, k, v), t, k) = v
           /\ \A u \in Table, l \in Key : u # t \/ l # k =>
                  Row(SetRow(s, t, k, v), u, l) = Row(s, u, l)
           /\ \A u \in Table : u # t => SetRow(s, t, k, v)[u] = s[u]
<1>1. s \in [Table -> [Key -> Value]]
  BY Shapes
<1>2. SetRow(s, t, k, v) = [s EXCEPT ![t] = [s[t] EXCEPT ![k] = v]]
  BY <1>1 DEF SetRow
<1>3. [s[t] EXCEPT ![k] = v] \in [Key -> Value]
  BY <1>1
<1>4. SetRow(s, t, k, v) \in [Table -> [Key -> Value]]
  BY <1>1, <1>2, <1>3
<1>5. SetRow(s, t, k, v) \in State
  BY <1>4, SessionAssumption DEF State
<1>6. Row(SetRow(s, t, k, v), t, k) = v
  BY <1>1, <1>2 DEF Row
<1>7. \A u \in Table : u # t => SetRow(s, t, k, v)[u] = s[u]
  BY <1>1, <1>2
<1>8. \A l \in Key : l # k => Row(SetRow(s, t, k, v), t, l) = Row(s, t, l)
  BY <1>1, <1>2 DEF Row
<1> QED BY <1>5, <1>6, <1>7, <1>8 DEF Row

\* The three parts of LineDescribes: commands of a row follow each other, the
\* last one done and the first one undone meet the row.
Chained(line) ==
    \A i, j \in DOMAIN line :
        (i < j /\ SameRow(line[i], line[j])
           /\ \A m \in (i + 1)..(j - 1) : ~SameRow(line[i], line[m]))
        => line[j].before = line[i].after
DoneMeets(line, cursor, rows) ==
    \A i \in 1..cursor :
        (\A m \in (i + 1)..cursor : ~SameRow(line[i], line[m]))
        => Row(rows, line[i].table, line[i].key) = line[i].after
UndoneMeets(line, cursor, rows) ==
    \A i \in (cursor + 1)..Len(line) :
        (\A m \in (cursor + 1)..(i - 1) : ~SameRow(line[i], line[m]))
        => Row(rows, line[i].table, line[i].key) = line[i].before

\* Its parts.
LEMMA LineParts ==
    ASSUME NEW line, NEW cursor, NEW rows
    PROVE  LineDescribes(line, cursor, rows) <=>
               Chained(line) /\ DoneMeets(line, cursor, rows) /\ UndoneMeets(line, cursor, rows)
BY DEF LineDescribes, Chained, DoneMeets, UndoneMeets

\* An empty line describes any tables.
LEMMA EmptyLine ==
    ASSUME NEW rows
    PROVE  LineDescribes(<<>>, 0, rows)
<1>1. Chained(<<>>)
  BY DEF Chained
<1>2. DoneMeets(<<>>, 0, rows)
  BY DEF DoneMeets
<1>3. UndoneMeets(<<>>, 0, rows)
  BY DEF UndoneMeets
<1> QED BY <1>1, <1>2, <1>3, LineParts

\* Redo: the next command is done.
LEMMA RedoDescribes ==
    ASSUME NEW line \in Seq(Command), NEW cursor \in Nat, cursor < Len(line), NEW rows \in State,
           LineDescribes(line, cursor, rows)
    PROVE  LineDescribes(line, cursor + 1,
                         SetRow(rows, line[cursor + 1].table, line[cursor + 1].key,
                                line[cursor + 1].after))
<1> DEFINE c == line[cursor + 1]
           new == SetRow(rows, c.table, c.key, c.after)
<1>1. /\ Len(line) \in Nat /\ DOMAIN line = 1..Len(line) /\ cursor + 1 \in 1..Len(line)
      /\ \A i \in 1..Len(line) : line[i] \in Command
  BY LenProperties
<1>2. /\ Chained(line) /\ DoneMeets(line, cursor, rows) /\ UndoneMeets(line, cursor, rows)
  BY LineParts
<1>3. c \in Command
  BY <1>1
<1>4. /\ Row(new, c.table, c.key) = c.after
      /\ \A i \in 1..Len(line) : ~SameRow(line[i], c) =>
             Row(new, line[i].table, line[i].key) = Row(rows, line[i].table, line[i].key)
  <2>1. c.table \in Table /\ c.key \in Key /\ c.after \in Value
    BY <1>3, Shapes
  <2>2. \A i \in 1..Len(line) : line[i].table \in Table /\ line[i].key \in Key
    BY <1>1, Shapes
  <2> QED BY <2>1, <2>2, SetRowDoes DEF SameRow
<1> HIDE DEF c, new
<1>5. DoneMeets(line, cursor + 1, new)
  <2> SUFFICES ASSUME NEW i \in 1..(cursor + 1),
                      \A m \in (i + 1)..(cursor + 1) : ~SameRow(line[i], line[m])
               PROVE  Row(new, line[i].table, line[i].key) = line[i].after
    BY DEF DoneMeets
  <2>1. CASE i = cursor + 1
    BY <1>4, <2>1 DEF c
  <2>2. CASE i # cursor + 1
    <3>1. i \in 1..cursor /\ cursor + 1 \in (i + 1)..(cursor + 1) /\ i \in 1..Len(line)
      BY <1>1, <2>2
    <3>2. ~SameRow(line[i], c)
      BY <3>1 DEF c
    <3>3. \A m \in (i + 1)..cursor : ~SameRow(line[i], line[m])
      BY <3>1
    <3> QED BY <1>2, <1>4, <3>1, <3>2, <3>3 DEF DoneMeets
  <2> QED BY <2>1, <2>2
<1>6. UndoneMeets(line, cursor + 1, new)
  <2> SUFFICES ASSUME NEW i \in (cursor + 2)..Len(line),
                      \A m \in (cursor + 2)..(i - 1) : ~SameRow(line[i], line[m])
               PROVE  Row(new, line[i].table, line[i].key) = line[i].before
    <3>1. cursor + 1 + 1 = cursor + 2
      OBVIOUS
    <3> QED BY <3>1 DEF UndoneMeets
  <2>0. i \in 1..Len(line) /\ i \in (cursor + 1)..Len(line) /\ cursor + 1 < i
    BY <1>1
  <2>1. CASE SameRow(line[i], c)
    <3>1. \A m \in ((cursor + 1) + 1)..(i - 1) : ~SameRow(c, line[m])
      BY <2>1 DEF SameRow
    <3>2. SameRow(c, line[i])
      BY <2>1 DEF SameRow
    <3>3. line[i].before = c.after
      BY <1>1, <1>2, <2>0, <3>1, <3>2 DEF Chained, c
    <3>4. line[i].table = c.table /\ line[i].key = c.key
      BY <2>1 DEF SameRow
    <3> QED BY <1>4, <3>3, <3>4
  <2>2. CASE ~SameRow(line[i], c)
    <3>1. \A m \in (cursor + 1)..(i - 1) : m = cursor + 1 \/ m \in (cursor + 2)..(i - 1)
      BY <2>0
    <3>2. \A m \in (cursor + 1)..(i - 1) : ~SameRow(line[i], line[m])
      BY <2>2, <3>1 DEF c
    <3> QED BY <1>2, <1>4, <2>0, <2>2, <3>2 DEF UndoneMeets
  <2> QED BY <2>1, <2>2
<1>7. LineDescribes(line, cursor + 1, new)
  BY <1>2, <1>5, <1>6, LineParts
<1> QED BY <1>7 DEF new, c

\* Undo: the last command done is undone.
LEMMA UndoDescribes ==
    ASSUME NEW line \in Seq(Command), NEW cursor \in Nat, cursor > 0, cursor <= Len(line),
           NEW rows \in State, LineDescribes(line, cursor, rows)
    PROVE  LineDescribes(line, cursor - 1,
                         SetRow(rows, line[cursor].table, line[cursor].key, line[cursor].before))
<1> DEFINE c == line[cursor]
           new == SetRow(rows, c.table, c.key, c.before)
<1>1. /\ Len(line) \in Nat /\ DOMAIN line = 1..Len(line) /\ cursor \in 1..Len(line)
      /\ \A i \in 1..Len(line) : line[i] \in Command
  BY LenProperties
<1>2. /\ Chained(line) /\ DoneMeets(line, cursor, rows) /\ UndoneMeets(line, cursor, rows)
  BY LineParts
<1>3. c \in Command
  BY <1>1
<1>4. /\ Row(new, c.table, c.key) = c.before
      /\ \A i \in 1..Len(line) : ~SameRow(line[i], c) =>
             Row(new, line[i].table, line[i].key) = Row(rows, line[i].table, line[i].key)
  <2>1. c.table \in Table /\ c.key \in Key /\ c.before \in Value
    BY <1>3, Shapes
  <2>2. \A i \in 1..Len(line) : line[i].table \in Table /\ line[i].key \in Key
    BY <1>1, Shapes
  <2> QED BY <2>1, <2>2, SetRowDoes DEF SameRow
<1> HIDE DEF c, new
<1>5. DoneMeets(line, cursor - 1, new)
  <2> SUFFICES ASSUME NEW i \in 1..(cursor - 1),
                      \A m \in (i + 1)..(cursor - 1) : ~SameRow(line[i], line[m])
               PROVE  Row(new, line[i].table, line[i].key) = line[i].after
    BY DEF DoneMeets
  <2>0. i \in 1..cursor /\ i \in 1..Len(line) /\ i < cursor
    BY <1>1
  <2>1. CASE SameRow(line[i], c)
    <3>1. c.before = line[i].after
      BY <1>1, <1>2, <2>0, <2>1 DEF Chained, c
    <3>2. line[i].table = c.table /\ line[i].key = c.key
      BY <2>1 DEF SameRow
    <3> QED BY <1>4, <3>1, <3>2
  <2>2. CASE ~SameRow(line[i], c)
    <3>1. \A m \in (i + 1)..cursor : m = cursor \/ m \in (i + 1)..(cursor - 1)
      BY <2>0
    <3>2. \A m \in (i + 1)..cursor : ~SameRow(line[i], line[m])
      BY <2>2, <3>1 DEF c
    <3> QED BY <1>2, <1>4, <2>0, <2>2, <3>2 DEF DoneMeets
  <2> QED BY <2>1, <2>2
<1>6. UndoneMeets(line, cursor - 1, new)
  <2> SUFFICES ASSUME NEW i \in cursor..Len(line),
                      \A m \in cursor..(i - 1) : ~SameRow(line[i], line[m])
               PROVE  Row(new, line[i].table, line[i].key) = line[i].before
    <3>1. cursor - 1 + 1 = cursor
      OBVIOUS
    <3> QED BY <3>1 DEF UndoneMeets
  <2>1. CASE i = cursor
    BY <1>4, <2>1 DEF c
  <2>2. CASE i # cursor
    <3>1. i \in (cursor + 1)..Len(line) /\ i \in 1..Len(line) /\ cursor \in cursor..(i - 1)
      BY <1>1, <2>2
    <3>2. ~SameRow(line[i], c)
      BY <3>1 DEF c
    <3>3. \A m \in (cursor + 1)..(i - 1) : ~SameRow(line[i], line[m])
      BY <3>1
    <3> QED BY <1>2, <1>4, <3>1, <3>2, <3>3 DEF UndoneMeets
  <2> QED BY <2>1, <2>2
<1>7. LineDescribes(line, cursor - 1, new)
  BY <1>2, <1>5, <1>6, LineParts
<1> QED BY <1>7 DEF new, c

\* The commands of a line after stage(): those done, without the oldest
\* `drop', and the new one.
LEMMA StagedLine ==
    ASSUME NEW st \in Store, BoundedLine(st), NEW c \in Command, NEW drop \in Drops(st)
    PROVE  /\ drop \in Nat /\ drop <= st.cursor + 1
           /\ Staged(st, c, drop).cursor = st.cursor + 1 - drop
           /\ Staged(st, c, drop).commands \in Seq(Command)
           /\ Len(Staged(st, c, drop).commands) = st.cursor + 1 - drop
           /\ \A i \in 1..(st.cursor + 1 - drop) :
                 Staged(st, c, drop).commands[i] =
                     IF i + drop <= st.cursor THEN st.commands[i + drop] ELSE c
<1> DEFINE done == SubSeq(st.commands, 1, st.cursor)
           line == Append(done, c)
           kept == SubSeq(line, drop + 1, Len(line))
<1>1. st.commands \in Seq(Command) /\ st.cursor \in Nat /\ st.cursor <= Len(st.commands)
      /\ Len(st.commands) \in Nat
  BY DEF Store, BoundedLine
<1>2. done \in Seq(Command) /\ Len(done) = st.cursor
      /\ \A i \in 1..st.cursor : done[i] = st.commands[i]
  BY <1>1
<1> HIDE DEF done
<1>3. /\ line \in Seq(Command) /\ Len(line) = st.cursor + 1 /\ line[st.cursor + 1] = c
      /\ \A i \in 1..st.cursor : line[i] = st.commands[i]
  BY <1>2
<1>4. drop \in Nat /\ drop <= st.cursor + 1
  BY <1>1 DEF Drops
<1> HIDE DEF line
<1>5. kept \in Seq(Command) /\ Len(kept) = st.cursor + 1 - drop
      /\ \A i \in 1..(st.cursor + 1 - drop) : kept[i] = line[i + drop]
  BY <1>1, <1>3, <1>4
<1>6. \A i \in 1..(st.cursor + 1 - drop) :
          kept[i] = IF i + drop <= st.cursor THEN st.commands[i + drop] ELSE c
  <2> SUFFICES ASSUME NEW i \in 1..(st.cursor + 1 - drop)
               PROVE  kept[i] = IF i + drop <= st.cursor THEN st.commands[i + drop] ELSE c
    OBVIOUS
  <2> HIDE DEF kept
  <2>1. kept[i] = line[i + drop]
    BY <1>5
  <2>2. i + drop \in 1..st.cursor \/ i + drop = st.cursor + 1
    BY <1>1, <1>4
  <2>3. CASE i + drop \in 1..st.cursor
    BY <1>1, <1>3, <2>1, <2>3
  <2>4. CASE i + drop = st.cursor + 1
    <3>1. ~(i + drop <= st.cursor)
      BY <1>1, <2>4
    <3> QED BY <1>3, <2>1, <2>4, <3>1
  <2> QED BY <2>2, <2>3, <2>4
<1>7. /\ Staged(st, c, drop).commands = kept
      /\ Staged(st, c, drop).cursor = st.cursor + 1 - drop
  BY DEF Staged, Store, kept, line, done
<1> HIDE DEF kept
<1> QED BY <1>4, <1>5, <1>6, <1>7

\* A line of commands done, as a function of the place.
LEMMA StagedMeets ==
    ASSUME NEW line \in Seq(Command), NEW cursor \in Nat, cursor <= Len(line), NEW rows \in State,
           LineDescribes(line, cursor, rows),
           NEW c \in Command, c.before = Row(rows, c.table, c.key),
           NEW drop \in Nat, drop <= cursor + 1,
           NEW new \in Seq(Command), Len(new) = cursor + 1 - drop,
           \A i \in 1..(cursor + 1 - drop) :
               new[i] = IF i + drop <= cursor THEN line[i + drop] ELSE c
    PROVE  LineDescribes(new, cursor + 1 - drop, SetRow(rows, c.table, c.key, c.after))
<1> DEFINE after == SetRow(rows, c.table, c.key, c.after)
           last == cursor + 1 - drop
<1>1. /\ Len(line) \in Nat /\ DOMAIN line = 1..Len(line) /\ DOMAIN new = 1..last
      /\ \A i \in 1..Len(line) : line[i] \in Command
  BY LenProperties
<1>2. Chained(line) /\ DoneMeets(line, cursor, rows)
  BY LineParts
<1>3. /\ Row(after, c.table, c.key) = c.after
      /\ \A i \in 1..Len(line) : ~SameRow(line[i], c) =>
             Row(after, line[i].table, line[i].key) = Row(rows, line[i].table, line[i].key)
  <2>1. c.table \in Table /\ c.key \in Key /\ c.after \in Value
    BY Shapes
  <2>2. \A i \in 1..Len(line) : line[i].table \in Table /\ line[i].key \in Key
    BY <1>1, Shapes
  <2> QED BY <2>1, <2>2, SetRowDoes DEF SameRow
<1> HIDE DEF after
<1>4. \A i \in 1..last : i + drop <= cursor =>
          new[i] = line[i + drop] /\ i + drop \in 1..Len(line) /\ i + drop \in 1..cursor
  OBVIOUS
<1>5. \A i \in 1..last : ~(i + drop <= cursor) => new[i] = c /\ i = last
  OBVIOUS
<1>6. Chained(new)
  <2> SUFFICES ASSUME NEW i \in 1..last, NEW j \in 1..last, i < j, SameRow(new[i], new[j]),
                      \A m \in (i + 1)..(j - 1) : ~SameRow(new[i], new[m])
               PROVE  new[j].before = new[i].after
    BY <1>1 DEF Chained
  <2>1. i + drop <= cursor /\ i + drop < j + drop
    OBVIOUS
  <2>2. new[i] = line[i + drop] /\ i + drop \in 1..Len(line) /\ i + drop \in 1..cursor
    BY <1>4, <2>1
  <2>3. ASSUME NEW m \in (i + drop + 1)..cursor, m < j + drop
        PROVE  ~SameRow(line[i + drop], line[m])
    <3>1. m - drop \in (i + 1)..(j - 1) /\ m - drop \in 1..last /\ (m - drop) + drop = m
      BY <2>3
    <3>2. new[m - drop] = line[m]
      BY <1>4, <3>1
    <3> QED BY <2>2, <3>1, <3>2
  <2>4. CASE j + drop <= cursor
    <3>1. new[j] = line[j + drop] /\ j + drop \in 1..Len(line)
      BY <1>4, <2>4
    <3>2. \A m \in (i + drop + 1)..(j + drop - 1) : ~SameRow(line[i + drop], line[m])
      BY <2>3, <2>4
    <3> DEFINE a == i + drop
               b == j + drop
    <3>3. /\ a \in DOMAIN line /\ b \in DOMAIN line /\ a < b /\ SameRow(line[a], line[b])
          /\ \A m \in (a + 1)..(b - 1) : ~SameRow(line[a], line[m])
      BY <1>1, <2>1, <2>2, <3>1, <3>2
    <3> HIDE DEF a, b
    <3>4. line[b].before = line[a].after
      BY <1>2, <3>3 DEF Chained
    <3> QED BY <2>2, <3>1, <3>4 DEF a, b
  <2>5. CASE ~(j + drop <= cursor)
    <3>1. new[j] = c /\ j + drop = cursor + 1
      BY <1>5, <2>5
    <3>2. \A m \in (i + drop + 1)..cursor : ~SameRow(line[i + drop], line[m])
      BY <2>3, <3>1
    <3>3. Row(rows, line[i + drop].table, line[i + drop].key) = line[i + drop].after
      BY <1>2, <2>2, <3>2 DEF DoneMeets
    <3> QED BY <2>2, <3>1, <3>3 DEF SameRow
  <2> QED BY <2>4, <2>5
<1>7. DoneMeets(new, last, after)
  <2> SUFFICES ASSUME NEW i \in 1..last,
                      \A m \in (i + 1)..last : ~SameRow(new[i], new[m])
               PROVE  Row(after, new[i].table, new[i].key) = new[i].after
    BY DEF DoneMeets
  <2>1. CASE i + drop <= cursor
    <3>1. new[i] = line[i + drop] /\ i + drop \in 1..Len(line) /\ i + drop \in 1..cursor
      BY <1>4, <2>1
    <3>2. last \in (i + 1)..last /\ last \in 1..last /\ ~(last + drop <= cursor)
      BY <2>1
    <3>3. ~SameRow(new[i], c)
      BY <1>5, <3>2
    <3>4. ASSUME NEW m \in (i + drop + 1)..cursor PROVE ~SameRow(line[i + drop], line[m])
      <4>1. m - drop \in (i + 1)..last /\ m - drop \in 1..last /\ (m - drop) + drop = m
        BY <3>4
      <4>2. new[m - drop] = line[m]
        BY <1>4, <4>1
      <4> QED BY <3>1, <4>1, <4>2
    <3>5. Row(rows, line[i + drop].table, line[i + drop].key) = line[i + drop].after
      BY <1>2, <3>1, <3>4 DEF DoneMeets
    <3> QED BY <1>3, <3>1, <3>3, <3>5
  <2>2. CASE ~(i + drop <= cursor)
    BY <1>3, <1>5, <2>2
  <2> QED BY <2>1, <2>2
<1>8. UndoneMeets(new, last, after)
  <2>1. \A i \in (last + 1)..Len(new) : FALSE
    OBVIOUS
  <2> QED BY <2>1 DEF UndoneMeets
<1>9. LineDescribes(new, last, after)
  BY <1>6, <1>7, <1>8, LineParts
<1> QED BY <1>9 DEF after

\* stage() of a change of what a row holds.
LEMMA StagedDescribes ==
    ASSUME NEW st \in Store, BoundedLine(st), NEW c \in Command, NEW drop \in Drops(st),
           NEW rows \in State, Describes(st, rows), c.before = Row(rows, c.table, c.key)
    PROVE  Describes(Staged(st, c, drop), SetRow(rows, c.table, c.key, c.after))
<1>1. st.commands \in Seq(Command) /\ st.cursor \in Nat /\ st.cursor <= Len(st.commands)
  BY DEF Store, BoundedLine
<1> DEFINE new == Staged(st, c, drop)
<1>2. /\ drop \in Nat /\ drop <= st.cursor + 1
      /\ new.cursor = st.cursor + 1 - drop
      /\ new.commands \in Seq(Command)
      /\ Len(new.commands) = st.cursor + 1 - drop
      /\ \A i \in 1..(st.cursor + 1 - drop) :
            new.commands[i] = IF i + drop <= st.cursor THEN st.commands[i + drop] ELSE c
  BY StagedLine
<1> HIDE DEF new
<1>3. LineDescribes(new.commands, st.cursor + 1 - drop, SetRow(rows, c.table, c.key, c.after))
  BY <1>1, <1>2, StagedMeets DEF Describes
<1>4. Describes(new, SetRow(rows, c.table, c.key, c.after))
  BY <1>2, <1>3 DEF Describes
<1> QED BY <1>4 DEF new

\* advance() over the command undo or redo takes.
LEMMA AdvancedDescribes ==
    ASSUME NEW st \in Store, BoundedLine(st), NEW redo \in BOOLEAN, CanMove(st, redo),
           NEW rows \in State, Describes(st, rows), NEW c, c = NextCommand(st, redo)
    PROVE  /\ c \in Command
           /\ Describes(Advanced(st, redo),
                        SetRow(rows, c.table, c.key, IF redo THEN c.after ELSE c.before))
<1>1. st.commands \in Seq(Command) /\ st.cursor \in Nat /\ st.cursor <= Len(st.commands)
      /\ Len(st.commands) \in Nat /\ LineDescribes(st.commands, st.cursor, rows)
  BY DEF Store, BoundedLine, Describes
<1>2. /\ Advanced(st, redo).commands = st.commands
      /\ Advanced(st, redo).cursor = IF redo THEN st.cursor + 1 ELSE st.cursor - 1
  BY DEF Advanced, Store
<1>3. CASE redo
  <2>1. st.cursor < Len(st.commands) /\ c = st.commands[st.cursor + 1]
    BY <1>3 DEF CanMove, NextCommand
  <2>2. c \in Command
    BY <1>1, <2>1
  <2>3. LineDescribes(st.commands, st.cursor + 1, SetRow(rows, c.table, c.key, c.after))
    BY <1>1, <2>1, RedoDescribes
  <2> QED BY <1>2, <1>3, <2>2, <2>3 DEF Describes
<1>4. CASE ~redo
  <2>1. st.cursor > 0 /\ c = st.commands[st.cursor]
    BY <1>4 DEF CanMove, NextCommand
  <2>2. c \in Command
    BY <1>1, <2>1
  <2>3. LineDescribes(st.commands, st.cursor - 1, SetRow(rows, c.table, c.key, c.before))
    BY <1>1, <2>1, UndoDescribes
  <2> QED BY <1>2, <1>4, <2>2, <2>3 DEF Describes
<1> QED BY <1>3, <1>4

-----------------------------------------------------------------------------
(* What is to show of a step, by where it leaves the operation.            *)

\* The invariant's parts that are always to show.
Sound == IndInv /\ SessionOK /\ UndoDescribesFiles

\* Between two operations the history is faithful to the Session.
LEMMA Rests ==
    ASSUME Sound', op' = NoOp, phase' = "idle", session'.open \/ store' = NoStore,
           store' # NoStore => Faithful(store', session', session'.dirty)
    PROVE  SInv'
<1>1. op'.kind = "none"
  BY DEF NoOp
<1>2. OpOK' /\ Underway'
  BY <1>1 DEF OpOK, Underway, Calls, Builds
<1>3. Resting'
  BY DEF Resting
<1>4. Building' /\ Committing' /\ Answered' /\ Syncing'
  BY <1>1 DEF Building, Committing, Answered, Syncing, Calls, Builds
<1> QED BY <1>2, <1>3, <1>4 DEF SInv, Sound

\* While the Session opens a history it has is one read from the files.
LEMMA Opens ==
    ASSUME Sound', op'.kind \in Builds \union {"open_recover", "open_load"}, phase' = "idle",
           session'.open,
           op'.kind = "open_recover" => store' = NoStore,
           store' # NoStore => Fresh(store)',
           store' # NoStore /\ op'.kind = "open_load" /\ store'.blocked = "no"
               /\ ~session'.unverified => session'.loaded = tables'
    PROVE  SInv'
<1>1. op' # NoOp /\ op'.kind \notin Calls /\ op'.kind \notin {"sync", "sync_stage", "rename"}
  BY DEF NoOp, Calls, Builds
<1>2. OpOK' /\ Underway'
  BY <1>1 DEF OpOK, Underway, Calls, Builds
<1>3. Resting'
  BY <1>1 DEF Resting
<1>4. Building'
  BY DEF Building
<1>5. Committing' /\ Answered' /\ Syncing'
  BY <1>1 DEF Committing, Answered, Syncing
<1> QED BY <1>2, <1>3, <1>4, <1>5 DEF SInv, Sound

\* A constructor that recovers has no history yet.
LEMMA Recovers ==
    ASSUME Sound', op'.kind \in Builds, phase' # "idle", session'.open,
           store' = NoStore, next' = NoState
    PROVE  SInv'
<1>1. op' # NoOp /\ op'.kind \notin Calls
      /\ op'.kind \notin {"sync", "sync_stage", "rename", "open_recover"}
  BY DEF NoOp, Calls, Builds
<1>2. OpOK' /\ Underway'
  BY <1>1 DEF OpOK, Underway
<1>3. Resting' /\ Building'
  BY <1>1 DEF Resting, Building
<1>4. Committing' /\ Answered' /\ Syncing'
  BY <1>1 DEF Committing, Answered, Syncing
<1> QED BY <1>2, <1>3, <1>4 DEF SInv, Sound

\* A call of the history that has ended.
LEMMA Ends ==
    ASSUME Sound', OpOK', Syncing', op'.kind \in Calls, phase' = "idle", store' # NoStore,
           session'.open, Answered'
    PROVE  SInv'
<1>1. op' # NoOp /\ op'.kind \notin Builds \union {"open_recover", "open_load"}
  BY DEF NoOp, Calls, Builds
<1>2. Underway'
  BY <1>1 DEF Underway
<1>3. Resting' /\ Building' /\ Committing'
  BY <1>1 DEF Resting, Building, Committing
<1> QED BY <1>2, <1>3 DEF SInv, Sound

\* A call of the history under way.
LEMMA Goes ==
    ASSUME Sound', OpOK', Syncing', op'.kind \in Calls, phase' # "idle", store' # NoStore,
           next' # NoState, session'.open, Committing'
    PROVE  SInv'
<1>1. op' # NoOp /\ op'.kind \notin Builds \union {"open_recover", "open_load"}
  BY DEF NoOp, Calls, Builds
<1>2. Underway'
  BY <1>1 DEF Underway
<1>3. Resting' /\ Building' /\ Answered'
  BY <1>1 DEF Resting, Building, Answered
<1> QED BY <1>2, <1>3 DEF SInv, Sound

\* The operation and the Session do not change while the history works.
LEMMA OperationStays ==
    ASSUME SInv, UNCHANGED <<session, op>>, op.kind \in Calls
    PROVE  OpOK' /\ Syncing' /\ SessionOK' /\ session'.open
<1>1. OpOK /\ Syncing /\ SessionOK /\ session.open
  BY DEF SInv, OpOK, NoOp, Calls
<1>2. OpOK'
  BY <1>1 DEF OpOK, SyncOp
<1>3. Syncing'
  <2>1. op.kind # "sync_stage"
    BY DEF Calls
  <2>2. \A k : StagedBefore(k)' <=> StagedBefore(k)
    BY DEF StagedBefore
  <2> QED BY <1>1, <2>1, <2>2 DEF Syncing
<1> QED BY <1>1, <1>2, <1>3 DEF SessionOK

-----------------------------------------------------------------------------
(* Tables under a Session's comments.                                      *)

\* Only the comments are replaced.
LEMMA OverDoes ==
    ASSUME NEW rows \in State, NEW s, s.loaded \in State
    PROVE  /\ Over(rows, s) \in State
           /\ Over(rows, s)[Annotations] = s.loaded[Annotations]
           /\ \A t \in Table : t # Annotations => Over(rows, s)[t] = rows[t]
BY Shapes DEF Over, State

\* Tables are equal when each is.
LEMMA StateEqual ==
    ASSUME NEW a \in State, NEW b \in State, \A t \in Table : a[t] = b[t]
    PROVE  a = b
BY DEF State

\* Tables that have the Session's comments are as they are under them.
LEMMA OverSame ==
    ASSUME NEW rows \in State, NEW s, s.loaded \in State,
           s.loaded[Annotations] = rows[Annotations]
    PROVE  Over(rows, s) = rows
<1>1. /\ Over(rows, s) \in State
      /\ \A t \in Table : Over(rows, s)[t] = rows[t]
  BY OverDoes
<1> QED BY <1>1, StateEqual

\* Under them, tables that differ in comments at most are the same.
LEMMA OverAgree ==
    ASSUME NEW a \in State, NEW b \in State, NEW s, s.loaded \in State,
           \A t \in Table : t # Annotations => a[t] = b[t]
    PROVE  Over(a, s) = Over(b, s)
<1>1. /\ Over(a, s) \in State /\ Over(b, s) \in State
      /\ \A t \in Table : Over(a, s)[t] = Over(b, s)[t]
  BY OverDoes
<1> QED BY <1>1, StateEqual

\* So are tables under the same comments.
LEMMA OverOnly ==
    ASSUME NEW rows, NEW s, NEW r, s.loaded[Annotations] = r.loaded[Annotations]
    PROVE  Over(rows, s) = Over(rows, r)
BY DEF Over

\* A row of another table is set under the comments.
LEMMA OverSetRow ==
    ASSUME NEW rows \in State, NEW s, s.loaded \in State, NEW t \in Table, t # Annotations,
           NEW k \in Key, NEW v \in Value
    PROVE  /\ SetRow(Over(rows, s), t, k, v) = Over(SetRow(rows, t, k, v), s)
           /\ Row(Over(rows, s), t, k) = Row(rows, t, k)
<1> DEFINE a == SetRow(Over(rows, s), t, k, v)
           b == Over(SetRow(rows, t, k, v), s)
<1>1. /\ Over(rows, s) \in State /\ Over(rows, s)[Annotations] = s.loaded[Annotations]
      /\ \A u \in Table : u # Annotations => Over(rows, s)[u] = rows[u]
  BY OverDoes
<1>2. SetRow(rows, t, k, v) \in State
  BY SetRowDoes
<1>3. a \in State /\ b \in State
  BY <1>1, <1>2, SetRowDoes, OverDoes
<1>4. a[Annotations] = b[Annotations]
  <2>1. a[Annotations] = s.loaded[Annotations]
    BY <1>1, SetRowDoes, Shapes
  <2> QED BY <1>2, <2>1, OverDoes
<1>5. ASSUME NEW u \in Table, u # Annotations PROVE a[u] = b[u]
  <2>1. b[u] = SetRow(rows, t, k, v)[u]
    BY <1>2, <1>5, OverDoes
  <2>2. CASE u = t
    <3>1. a[t] = [rows[t] EXCEPT ![k] = v] /\ SetRow(rows, t, k, v)[t] = [rows[t] EXCEPT ![k] = v]
      BY <1>1, Shapes DEF SetRow
    <3> QED BY <2>1, <2>2, <3>1
  <2>3. CASE u # t
    BY <1>1, <1>5, <2>1, <2>3, SetRowDoes
  <2> QED BY <2>2, <2>3
<1>6. a = b
  <2> HIDE DEF a, b
  <2> QED BY <1>3, <1>4, <1>5, StateEqual
<1> QED BY <1>1, <1>6 DEF Row

\* A comment is set in the Session.
LEMMA OverNote ==
    ASSUME NEW rows \in State, NEW s, s.loaded \in State, NEW k \in Key, NEW v \in Value,
           NEW r, r.loaded = SetRow(s.loaded, Annotations, k, v)
    PROVE  /\ SetRow(Over(rows, s), Annotations, k, v) = Over(rows, r)
           /\ Row(Over(rows, s), Annotations, k) = Row(s.loaded, Annotations, k)
<1> DEFINE a == SetRow(Over(rows, s), Annotations, k, v)
           b == Over(rows, r)
<1>1. /\ Over(rows, s) \in State /\ Over(rows, s)[Annotations] = s.loaded[Annotations]
      /\ \A u \in Table : u # Annotations => Over(rows, s)[u] = rows[u]
  BY OverDoes
<1>2. Annotations \in Table /\ r.loaded \in State
  BY SetRowDoes, Shapes
<1>3. a \in State /\ b \in State
  BY <1>1, <1>2, SetRowDoes, OverDoes
<1>4. \A u \in Table : u # Annotations => a[u] = b[u]
  BY <1>1, <1>2, SetRowDoes, OverDoes
<1>5. a[Annotations] = b[Annotations]
  <2>1. b[Annotations] = SetRow(s.loaded, Annotations, k, v)[Annotations]
    BY <1>2, OverDoes
  <2>2. a[Annotations] = [s.loaded[Annotations] EXCEPT ![k] = v]
    BY <1>1, <1>2, Shapes DEF SetRow
  <2>3. SetRow(s.loaded, Annotations, k, v)[Annotations] = [s.loaded[Annotations] EXCEPT ![k] = v]
    BY <1>2, Shapes DEF SetRow
  <2> QED BY <2>1, <2>2, <2>3
<1>6. a = b
  <2> HIDE DEF a, b
  <2> QED BY <1>3, <1>4, <1>5, StateEqual
<1> QED BY <1>1, <1>6 DEF Row

-----------------------------------------------------------------------------
(* Histories just read, verified or faithful.                              *)

SessionType ==
    [open : BOOLEAN, readOnly : BOOLEAN, source : Input, loaded : State, dirty : BOOLEAN,
     unloaded : SUBSET Table, unverified : BOOLEAN]

\* A Session that shows the files a history has just read is described by it.
LEMMA FreshFaithful ==
    ASSUME NEW st, Fresh(st), NEW s, NEW dirty, s.unverified = session.unverified,
           \A t \in Table \ s.unloaded : t # Annotations \/ ~dirty => s.loaded[t] = tables[t],
           st.blocked = "no" /\ ~s.unverified => Describes(st, Over(tables, s))
    PROVE  Faithful(st, s, dirty)
<1>1. Shows(st, s, dirty)
  BY DEF Fresh, Shows
<1>2. Told(st, s, dirty)
  BY DEF Fresh, Told
<1> QED BY <1>1, <1>2 DEF Faithful

\* What the constructor loads.
LEMMA LoadedFresh ==
    ASSUME SInv, NEW ro \in BOOLEAN
    PROVE  Fresh(Loaded(ro))
<1>1. Loaded(ro).snap.state = tables /\ Loaded(ro).interrupted = NoJournal
  BY DEF Loaded
<1>2. ASSUME Loaded(ro).blocked = "no", ~session.unverified PROVE Describes(Loaded(ro), tables)
  <2>1. BlockedReason = "no"
    BY <1>2 DEF Loaded
  <2>2. CASE history = NoDoc
    <3>1. Loaded(ro).commands = <<>> /\ Loaded(ro).cursor = 0
      BY <2>2 DEF Loaded
    <3> QED BY <3>1, EmptyLine DEF Describes
  <2>3. CASE history # NoDoc
    <3>1. Loaded(ro).commands = history.commands /\ Loaded(ro).cursor = history.cursor
      BY <2>1, <2>3 DEF Loaded
    <3>2. history.state = tables
      BY <2>1, <2>3 DEF BlockedReason
    <3>3. LineDescribes(history.commands, history.cursor, history.state)
      BY <1>2, <2>3 DEF SInv, UndoDescribesFiles
    <3> QED BY <3>1, <3>2, <3>3 DEF Describes
  <2> QED BY <2>2, <2>3
<1> QED BY <1>1, <1>2 DEF Fresh

\* verifyLoadedState blocks a history that does not describe the Session.
LEMMA VerifiedDoes ==
    ASSUME NEW st \in Store, BoundedLine(st), Fresh(st), NEW s \in SessionType, NEW dirty,
           s.unverified = session.unverified, tables \in State
    PROVE  /\ Verified(st, s.loaded) \in Store /\ BoundedLine(Verified(st, s.loaded))
           /\ Fresh(Verified(st, s.loaded))
           /\ Faithful(Verified(st, s.loaded), s, dirty)
           /\ Verified(st, s.loaded).blocked = "no" => s.loaded = tables
<1> DEFINE v == Verified(st, s.loaded)
<1>1. CASE st.blocked = "no" /\ s.loaded # st.snap.state
  <2>1. v = [st EXCEPT !.blocked = "foreign_edits"]
    BY <1>1 DEF Verified
  <2>2. /\ v \in Store /\ v.blocked = "foreign_edits"
        /\ v.snap = st.snap /\ v.interrupted = st.interrupted
        /\ v.commands = st.commands /\ v.cursor = st.cursor
    BY <2>1 DEF Store, Blocked
  <2> HIDE DEF v
  <2>3. Fresh(v) /\ BoundedLine(v) /\ Faithful(v, s, dirty)
    BY <2>2 DEF Fresh, Faithful, Shows, Told, BoundedLine
  <2> QED BY <2>2, <2>3 DEF v
<1>2. CASE ~(st.blocked = "no" /\ s.loaded # st.snap.state)
  <2>1. v = st
    BY <1>2 DEF Verified
  <2>2. st.blocked = "no" => s.loaded = tables
    BY <1>2 DEF Fresh
  <2>3. ASSUME st.blocked = "no" PROVE Over(tables, s) = tables
    BY <2>2, <2>3, OverSame
  <2>4. Faithful(st, s, dirty)
    <3>1. CASE st.blocked = "no"
      <4>1. Describes(st, tables) \/ s.unverified
        BY <3>1, Zenon DEF Fresh
      <4>2. \A t \in Table \ s.unloaded : t # Annotations \/ ~dirty => s.loaded[t] = tables[t]
        BY <2>2, <3>1
      <4> QED BY <2>3, <3>1, <4>1, <4>2, FreshFaithful
    <3>2. CASE st.blocked # "no"
      BY <3>2 DEF Faithful, Shows, Told
    <3> QED BY <3>1, <3>2
  <2> QED BY <2>1, <2>2, <2>4
<1> QED BY <1>1, <1>2

\* stage() moves neither the snapshot nor what is to recover.
LEMMA StagedKeeps ==
    ASSUME NEW st \in Store, NEW c, NEW drop
    PROVE  /\ Staged(st, c, drop).snap = st.snap
           /\ Staged(st, c, drop).interrupted = st.interrupted
           /\ Staged(st, c, drop).blocked = st.blocked
BY DEF Staged, Store

\* Nor does advance().
LEMMA AdvancedKeeps ==
    ASSUME NEW st \in Store, NEW redo
    PROVE  /\ Advanced(st, redo).snap = st.snap
           /\ Advanced(st, redo).interrupted = st.interrupted
           /\ Advanced(st, redo).blocked = st.blocked
BY DEF Advanced, Store

\* A comment staged over a faithful history leaves it faithful.
LEMMA NoteFaithful ==
    ASSUME NEW st, NEW new, NEW s, NEW r, s.loaded \in State, NEW dirty, st.blocked = "no",
           Faithful(st, s, dirty), NEW k \in Key, NEW v \in Value,
           r.loaded = SetRow(s.loaded, Annotations, k, v), r.unloaded = s.unloaded,
           new.snap = st.snap, new.interrupted = st.interrupted,
           ~r.unverified => Describes(new, Over(st.snap.state, r))
    PROVE  Faithful(new, r, TRUE)
<1>1. Shows(st, s, dirty)
  BY DEF Faithful
<1>2. \A u \in Table : u # Annotations => r.loaded[u] = s.loaded[u]
  BY Shapes, SetRowDoes
<1>3. Shows(new, r, TRUE)
  BY <1>1, <1>2 DEF Shows
<1>4. Told(new, r, TRUE)
  BY DEF Told
<1> QED BY <1>3, <1>4 DEF Faithful

-----------------------------------------------------------------------------
(* Steps between the calls of the history.                                 *)

\* What the documents describe does not change with them.
LEMMA FilesStay ==
    ASSUME SInv, UNCHANGED <<history, journal>>, session.unverified => session'.unverified
    PROVE  UndoDescribesFiles'
BY DEF SInv, UndoDescribesFiles

\* A step of the Session and the history object alone.
LEMMA LocalSound ==
    ASSUME SInv, phase = "idle", NEW st, GoodStore(st), NEW s \in SessionType, Local(st, s),
           faults' \in Nat, session.unverified => s.unverified
    PROVE  /\ Sound' /\ phase' = "idle" /\ tables' = tables
           /\ store' = st /\ session' = s
<1>1. IndInv'
  <2>1. IndInv /\ store' = st /\ UNCHANGED <<disk, input, call, reply, touched>>
    BY DEF SInv, Local
  <2>2. TypeOK'
    BY <2>1 DEF IndInv, TypeOK, disk, call, GoodStore
  <2>3. CursorInBounds'
    BY <2>1 DEF IndInv, CursorInBounds, disk, call, GoodStore, BoundedLine
  <2>4. CallShape' /\ FilesInFlight'
    BY <2>1 DEF IndInv, CallShape, FilesInFlight, call
  <2>5. FilesConsistent'
    BY <2>1 DEF IndInv, FilesConsistent, RecoverAllowed, disk
  <2> QED BY <2>2, <2>3, <2>4, <2>5 DEF IndInv
<1>2. session' = s /\ UNCHANGED <<history, journal>>
  BY DEF Local, disk
<1>3. UndoDescribesFiles'
  BY <1>2, FilesStay
<1>4. SessionOK'
  BY DEF Local, SessionOK, SessionType
<1> QED BY <1>1, <1>3, <1>4 DEF Local, Sound, disk, call

\* The objects of the invariant.
LEMMA SObjects ==
    ASSUME SInv
    PROVE  /\ GoodStore(store) /\ GoodStore(NoStore) /\ tables \in State /\ input \in Input
           /\ session \in SessionType /\ session.loaded \in State /\ session.dirty \in BOOLEAN
           /\ session.unloaded \in SUBSET Table /\ session.unverified \in BOOLEAN
           /\ store # NoStore => store \in Store /\ BoundedLine(store)
           /\ IndInv
<1>1. IndInv /\ SessionOK
  BY DEF SInv
<1>2. GoodStore(store) /\ tables \in State /\ input \in Input
  BY <1>1, GoodFromIndInv
<1>3. session \in SessionType
  BY <1>1 DEF SessionOK, SessionType
<1>4. /\ session.loaded \in State /\ session.dirty \in BOOLEAN
      /\ session.unloaded \in SUBSET Table /\ session.unverified \in BOOLEAN
  BY <1>3 DEF SessionType
<1> QED BY <1>1, <1>2, <1>3, <1>4 DEF GoodStore

\* A step may fail, or not.
LEMMA Outcomes ==
    ASSUME SInv
    PROVE  /\ NoFault => faults' \in Nat
           /\ \A failed : LoadOutcome(failed) => faults' \in Nat
<1>1. faults \in Nat
  BY SObjects, GoodFromIndInv
<1> QED BY <1>1 DEF NoFault, Fault, LoadOutcome

\* What loading tables does.
IsLoaded(s, ts, failed) ==
    /\ s \in SessionType /\ s.open = session.open /\ s.dirty = session.dirty
    /\ s.unverified = session.unverified
    /\ s.unloaded = (session.unloaded \ ts) \union failed
    /\ \A t \in ts \ failed : s.loaded[t] = tables[t]
    /\ \A t \in Table : t \notin ts \ failed => s.loaded[t] = session.loaded[t]
LEMMA LoadDoes ==
    ASSUME SInv, NEW ts, ts \subseteq Table, NEW failed, failed \subseteq ts
    PROVE  IsLoaded(LoadTables(session, ts, failed), ts, failed)
<1> DEFINE s == LoadTables(session, ts, failed)
<1> DEFINE rows == [t \in Table |-> IF t \in ts \ failed THEN tables[t] ELSE session.loaded[t]]
           un == (session.unloaded \ ts) \union failed
<1>1. tables \in [Table -> Rows] /\ session.loaded \in [Table -> Rows]
      /\ session.unloaded \in SUBSET Table
  BY SObjects DEF State
<1>2. rows \in State
  BY <1>1 DEF State
<1>3. un \in SUBSET Table
  BY <1>1
<1>4. /\ \A t \in ts \ failed : rows[t] = tables[t]
      /\ \A t \in Table : t \notin ts \ failed => rows[t] = session.loaded[t]
  OBVIOUS
<1>5. s = [session EXCEPT !.loaded = rows, !.unloaded = un]
  BY DEF LoadTables
<1> HIDE DEF rows, un
<1>6. /\ s \in SessionType /\ s.open = session.open /\ s.dirty = session.dirty
      /\ s.unverified = session.unverified /\ s.unloaded = un /\ s.loaded = rows
  BY <1>2, <1>3, <1>5, SObjects DEF SessionType
<1> QED BY <1>4, <1>6 DEF un, IsLoaded

\* Every table has been loaded.
LEMMA AllLoaded ==
    ASSUME SInv, NEW s, s = LoadTables(session, Table, {})
    PROVE  s.loaded = tables /\ s.unloaded = {}
<1>1. /\ s \in SessionType /\ s.unloaded = (session.unloaded \ Table) \union {}
      /\ \A t \in Table \ {} : s.loaded[t] = tables[t]
  <2>1. IsLoaded(s, Table, {})
    BY LoadDoes
  <2> QED BY <2>1 DEF IsLoaded
<1>2. s.loaded \in State /\ tables \in State /\ session.unloaded \in SUBSET Table
  BY <1>1, SObjects DEF SessionType
<1> QED BY <1>1, <1>2, StateEqual

\* No rows are rows.
LEMMA EmptyIsState == EmptyTables \in State
BY SessionAssumption DEF EmptyTables, State

\* A closed Session.
LEMMA ClosedType ==
    ASSUME SInv
    PROVE  /\ Closed \in SessionType /\ Closed.unverified = session.unverified
           /\ \A ro \in BOOLEAN :
                 /\ [Closed EXCEPT !.open = TRUE, !.readOnly = ro] \in SessionType
                 /\ [Closed EXCEPT !.open = TRUE, !.readOnly = ro].open
                 /\ [Closed EXCEPT !.open = TRUE, !.readOnly = ro].unverified = session.unverified
BY SObjects, EmptyIsState DEF SessionType, Closed, NewSession

\* open keeps the invariant.
LEMMA OpenSessionKeeps ==
    ASSUME SInv, NEW ro \in BOOLEAN, OpenSession(ro)
    PROVE  SInv'
<1> DEFINE s == [Closed EXCEPT !.open = TRUE, !.readOnly = ro]
<1>1. s \in SessionType /\ s.open /\ s.unverified = session.unverified
  BY ClosedType
<1>2. phase = "idle" /\ Local(NoStore, s) /\ faults' \in Nat
      /\ op' = [kind |-> IF journal # NoJournal THEN "open_recover" ELSE "open_load"]
  BY Outcomes DEF OpenSession
<1> HIDE DEF s
<1>3. Sound' /\ phase' = "idle" /\ store' = NoStore /\ session' = s
  BY <1>1, <1>2, LocalSound, SObjects
<1>4. op'.kind \in Builds \union {"open_recover", "open_load"}
  BY <1>2
<1> QED BY <1>1, <1>3, <1>4, Opens

\* So does the lazily built history.
LEMMA ConstructorKeeps ==
    ASSUME SInv, session.open, CallConstructor, op'.kind \in Builds, UNCHANGED session
    PROVE  SInv'
<1>1. session.readOnly \in BOOLEAN /\ IndInv
  BY SObjects DEF SessionType
<1>2. SessionOK' /\ op'.kind # "open_load"
  BY DEF SInv, SessionOK, Builds
<1>3. CASE Construct(session.readOnly)
  <2>1. IndInv'
    BY <1>1, <1>3, ConstructPreserves
  <2>2. UndoDescribesFiles'
    BY <1>3, FilesStay DEF Construct, disk
  <2>3. phase' = "idle" /\ store' = Loaded(session.readOnly) /\ tables' = tables
    BY <1>3 DEF Construct, EndCall, disk
  <2>4. Fresh(Loaded(session.readOnly))
    BY <1>1, LoadedFresh
  <2>5. Fresh(store)'
    BY <2>3, <2>4 DEF Fresh
  <2> QED BY <1>2, <2>1, <2>2, <2>3, <2>5, Opens DEF Sound, Builds
<1>4. CASE ConstructRefused(session.readOnly)
  <2>1. IndInv'
    BY <1>1, <1>4, ConstructRefusedPreserves
  <2>2. UndoDescribesFiles'
    BY <1>4, FilesStay DEF ConstructRefused, disk
  <2>3. phase' = "idle" /\ store' = NoStore
    BY <1>4 DEF ConstructRefused, EndCall
  <2> QED BY <1>2, <2>1, <2>2, <2>3, Opens DEF Sound, Builds
<1>5. CASE ConstructRecover
  <2>1. IndInv'
    BY <1>1, <1>5, ConstructRecoverPreserves
  <2>2. UndoDescribesFiles'
    BY <1>5, FilesStay DEF ConstructRecover, disk
  <2>3. phase' # "idle" /\ store' = NoStore /\ next' = NoState
    BY <1>1, <1>5 DEF ConstructRecover, IndInv, CallShape
  <2> QED BY <1>2, <2>1, <2>2, <2>3, Recovers DEF Sound
<1> QED BY <1>3, <1>4, <1>5 DEF CallConstructor

\* The history built inside open.
LEMMA OpenRecoverKeeps ==
    ASSUME SInv, OpenRecover
    PROVE  SInv'
<1>1. session.open
  BY DEF SInv, OpOK, NoOp, OpenRecover
<1> QED BY <1>1, ConstructorKeeps DEF OpenRecover, Builds

\* The history built for the first operation that needs it.
LEMMA BuildHistoryKeeps ==
    ASSUME SInv, BuildHistory
    PROVE  SInv'
BY ConstructorKeeps DEF BuildHistory, Builds, Free

\* A step that ends in rest, or in the rest of open, with a good history.
LEMMA Settles ==
    ASSUME SInv, phase = "idle", NEW st, NEW s, GoodStore(st), s \in SessionType,
           s.open, Local(st, s), faults' \in Nat, session.unverified => s.unverified,
           op' = NoOp \/ op' = [kind |-> "open_load"],
           op' = NoOp /\ st # NoStore => Faithful(st, s, s.dirty),
           op' # NoOp /\ st # NoStore =>
               Fresh(st) /\ (st.blocked = "no" /\ ~s.unverified => s.loaded = tables)
    PROVE  SInv'
<1>1. Sound' /\ phase' = "idle" /\ tables' = tables /\ store' = st /\ session' = s
  BY LocalSound
<1>2. CASE op' = NoOp
  BY <1>1, <1>2, Rests
<1>3. CASE op' = [kind |-> "open_load"]
  <2>1. op'.kind = "open_load" /\ op' # NoOp
    BY <1>3 DEF NoOp
  <2>2. Fresh(st) => Fresh(store)'
    BY <1>1 DEF Fresh
  <2> QED BY <1>1, <2>1, <2>2, Opens
<1> QED BY <1>2, <1>3

\* Loading the files a history has just read leaves it faithful: the tables
\* that load show them, and it is said of the others.
LEMMA LoadFaithful ==
    ASSUME SInv, NEW st, Fresh(st), NEW ts \in SUBSET Table, NEW failed \in SUBSET ts,
           NEW s, s = LoadTables(session, ts, failed), NEW dirty,
           \A t \in Table \ (ts \union session.unloaded) :
               t # Annotations \/ ~dirty => session.loaded[t] = tables[t],
           st.blocked = "no" /\ ~session.unverified => Describes(st, Over(tables, session))
    PROVE  Faithful(st, s, dirty)
<1>1. /\ s \in SessionType /\ s.unverified = session.unverified
      /\ s.unloaded = (session.unloaded \ ts) \union failed
      /\ \A t \in ts \ failed : s.loaded[t] = tables[t]
      /\ \A t \in Table : t \notin ts \ failed => s.loaded[t] = session.loaded[t]
  <2>1. IsLoaded(s, ts, failed)
    BY LoadDoes
  <2> QED BY <2>1 DEF IsLoaded
<1>2. \A t \in Table \ s.unloaded : t # Annotations \/ ~dirty => s.loaded[t] = tables[t]
  BY <1>1
<1>3. ASSUME st.blocked = "no", ~s.unverified PROVE Describes(st, Over(tables, s))
  <2>1. Describes(st, tables) /\ Describes(st, Over(tables, session))
    BY <1>1, <1>3 DEF Fresh
  <2>2. s.loaded[Annotations] = tables[Annotations]
        \/ s.loaded[Annotations] = session.loaded[Annotations]
    BY <1>1, Shapes
  <2>3. s.loaded \in State /\ tables \in State
    BY <1>1, SObjects DEF SessionType
  <2>4. Over(tables, s) = tables \/ Over(tables, s) = Over(tables, session)
    BY <2>2, <2>3, OverSame, OverOnly
  <2> QED BY <2>1, <2>4
<1> QED BY <1>1, <1>2, <1>3, FreshFaithful

\* A history that has been built is verified.
LEMMA AfterBuildKeeps ==
    ASSUME SInv, AfterBuild
    PROVE  SInv'
<1>1. op.kind \in Builds /\ phase = "idle" /\ session.open
  BY DEF AfterBuild, Builds, SInv, OpOK, NoOp
<1>2. op' = NoOp \/ op' = [kind |-> "open_load"]
  BY DEF AfterBuild
<1>3. store # NoStore => store \in Store /\ BoundedLine(store) /\ Fresh(store)
  BY <1>1, SObjects DEF SInv, Building
<1>4. CASE store = NoStore /\ Local(store, session) /\ NoFault
  BY <1>1, <1>2, <1>4, Settles, SObjects, Outcomes
<1>5. CASE store # NoStore /\ Local(Verified(store, session.loaded), session) /\ NoFault
  <2> DEFINE v == Verified(store, session.loaded)
  <2>1. GoodStore(v) /\ Fresh(v) /\ Faithful(v, session, session.dirty)
        /\ (v.blocked = "no" => session.loaded = tables)
    BY <1>3, <1>5, VerifiedDoes, SObjects DEF GoodStore
  <2>2. Local(v, session)
    BY <1>5
  <2> HIDE DEF v
  <2> QED BY <1>1, <1>2, <1>5, <2>1, <2>2, Settles, SObjects, Outcomes
<1>6. ASSUME store # NoStore, NEW failed \in SUBSET Table, LoadOutcome(failed), NEW s,
             s = LoadTables(session, Table, failed),
             IF failed = {}
             THEN Local(Verified(store, s.loaded), [s EXCEPT !.dirty = FALSE])
             ELSE Local(store, [s EXCEPT !.unverified = TRUE])
      PROVE  SInv'
  <2>1. /\ s \in SessionType /\ s.open /\ s.unverified = session.unverified
        /\ s.unloaded = (session.unloaded \ Table) \union failed
        /\ \A t \in Table \ failed : s.loaded[t] = tables[t]
    <3>1. IsLoaded(s, Table, failed)
      BY <1>6, LoadDoes
    <3> QED BY <1>1, <3>1 DEF IsLoaded
  <2>2. faults' \in Nat
    BY <1>6, Outcomes
  <2>3. CASE failed = {}
    <3> DEFINE r == [s EXCEPT !.dirty = FALSE]
               v == Verified(store, r.loaded)
    <3>1. /\ r \in SessionType /\ r.open /\ r.loaded = s.loaded
          /\ r.unverified = session.unverified
      BY <2>1 DEF SessionType
    <3>2. Local(v, r)
      BY <1>6, <2>3, <3>1
    <3> HIDE DEF r
    <3>3. GoodStore(v) /\ Fresh(v) /\ Faithful(v, r, r.dirty) /\ (v.blocked = "no" => r.loaded = tables)
      BY <1>3, <1>6, <3>1, VerifiedDoes, SObjects DEF GoodStore
    <3> HIDE DEF v
    <3> QED BY <1>1, <1>2, <2>2, <3>1, <3>2, <3>3, Settles
  <2>4. CASE failed # {}
    <3> DEFINE r == [s EXCEPT !.unverified = TRUE]
    <3>1. /\ r \in SessionType /\ r.open /\ r.loaded = s.loaded /\ r.unloaded = s.unloaded
          /\ r.unverified
      BY <2>1 DEF SessionType
    <3>2. Local(store, r)
      BY <1>6, <2>4
    <3> HIDE DEF r
    <3>3. Shows(store, r, r.dirty)
      BY <1>3, <1>6, <2>1, <3>1 DEF Shows, Fresh
    <3>4. Faithful(store, r, r.dirty)
      BY <3>1, <3>3 DEF Faithful, Told
    <3> QED BY <1>1, <1>2, <1>3, <1>6, <2>2, <3>1, <3>2, <3>4, Settles, SObjects
  <2> QED BY <2>3, <2>4
<1> QED BY <1>4, <1>5, <1>6 DEF AfterBuild

\* The end of open.
LEMMA OpenLoadKeeps ==
    ASSUME SInv, OpenLoad
    PROVE  SInv'
<1>1. op.kind = "open_load" /\ phase = "idle" /\ session.open /\ op' = NoOp
  BY DEF OpenLoad, SInv, OpOK, NoOp
<1>2. PICK failed \in SUBSET Table :
          LoadOutcome(failed) /\ Local(store, LoadTables(session, Table, failed))
  BY DEF OpenLoad
<1>3. PICK s : s = LoadTables(session, Table, failed)
  OBVIOUS
<1>4. s \in SessionType /\ s.open /\ s.unverified = session.unverified /\ Local(store, s)
      /\ faults' \in Nat
  <2>1. s \in SessionType /\ s.open /\ s.unverified = session.unverified
    <3>1. IsLoaded(s, Table, failed)
      BY <1>3, LoadDoes
    <3> QED BY <1>1, <3>1 DEF IsLoaded
  <2> QED BY <1>2, <1>3, <2>1, Outcomes
<1>5. ASSUME store # NoStore PROVE Faithful(store, s, s.dirty)
  <2>1. Fresh(store) /\ (store.blocked = "no" /\ ~session.unverified => session.loaded = tables)
    BY <1>1, <1>5 DEF SInv, Building
  <2>2. ASSUME store.blocked = "no", ~session.unverified
        PROVE  Describes(store, Over(tables, session))
    <3>1. session.loaded = tables /\ Describes(store, tables)
      BY <2>1, <2>2 DEF Fresh
    <3> QED BY <3>1, SObjects, OverSame
  <2> QED BY <1>2, <1>3, <2>1, <2>2, LoadFaithful
<1> QED BY <1>1, <1>4, <1>5, Settles, SObjects

\* reload drops the history.
LEMMA ReloadKeeps ==
    ASSUME SInv, Reload
    PROVE  SInv'
<1>1. phase = "idle" /\ session.open /\ op' = NoOp
  BY DEF Reload, Free
<1>2. PICK failed \in SUBSET Table :
          /\ LoadOutcome(failed)
          /\ Local(NoStore, [LoadTables(session, Table, failed) EXCEPT !.dirty = @ /\ failed # {}])
  BY DEF Reload
<1>3. PICK s : s = LoadTables(session, Table, failed)
  OBVIOUS
<1>4. s \in SessionType /\ s.open /\ s.unverified = session.unverified
  <2>1. IsLoaded(s, Table, failed)
    BY <1>3, LoadDoes
  <2> QED BY <1>1, <2>1 DEF IsLoaded
<1> DEFINE d == s.dirty /\ failed # {}
           r == [s EXCEPT !.dirty = d]
<1>5. d \in BOOLEAN
  OBVIOUS
<1>6. Local(NoStore, r)
  BY <1>2, <1>3
<1> HIDE DEF d
<1>7. r \in SessionType /\ r.open /\ r.unverified = session.unverified
  BY <1>4, <1>5 DEF SessionType
<1>8. faults' \in Nat
  BY <1>2, Outcomes
<1> HIDE DEF r
<1> QED BY <1>1, <1>6, <1>7, <1>8, Settles, SObjects

\* close drops it with the Session.
LEMMA CloseSessionKeeps ==
    ASSUME SInv, CloseSession
    PROVE  SInv'
<1>1. phase = "idle" /\ op' = NoOp /\ Local(NoStore, Closed) /\ faults' \in Nat
  BY Outcomes DEF CloseSession, Free
<1>2. Sound' /\ phase' = "idle" /\ store' = NoStore
  BY <1>1, LocalSound, SObjects, ClosedType
<1> QED BY <1>1, <1>2, Rests

\* The command undo or redo takes is a command.
LEMMA NextIsCommand ==
    ASSUME NEW st \in Store, BoundedLine(st), NEW redo \in BOOLEAN, CanMove(st, redo)
    PROVE  NextCommand(st, redo) \in Command
<1>1. st.commands \in Seq(Command) /\ st.cursor \in Nat /\ st.cursor <= Len(st.commands)
      /\ Len(st.commands) \in Nat
  BY DEF Store, BoundedLine
<1>2. (IF redo THEN st.cursor + 1 ELSE st.cursor) \in 1..Len(st.commands)
  BY <1>1 DEF CanMove
<1> QED BY <1>1, <1>2 DEF NextCommand

-----------------------------------------------------------------------------
(* Operations that stage, and operations that commit.                      *)

\* What a ready history is.
LEMMA ReadyFaithful ==
    ASSUME SInv, HistoryReady
    PROVE  /\ phase = "idle" /\ op = NoOp /\ session.open /\ store # NoStore
           /\ store \in Store /\ BoundedLine(store)
           /\ Faithful(store, session, session.dirty)
           /\ store.snap.state \in State /\ session.loaded \in State
           /\ Over(store.snap.state, session) \in State
           /\ store.blocked = "no" /\ ~session.dirty => Loads(session, store.snap.state, {})
           /\ store.blocked = "no" /\ ~session.unverified =>
                 /\ Describes(store, Over(store.snap.state, session))
                 /\ ~session.dirty => Describes(store, store.snap.state)
<1>1. phase = "idle" /\ op = NoOp /\ session.open /\ store # NoStore
  BY DEF HistoryReady, Writer, Free
<1>2. store \in Store /\ BoundedLine(store)
  BY <1>1, SObjects
<1>3. Faithful(store, session, session.dirty)
  BY <1>1 DEF SInv, Resting
<1>4. store.snap.state \in State /\ session.loaded \in State
  BY <1>2, SObjects DEF Store, Snapshot
<1>5. Over(store.snap.state, session) \in State
  BY <1>4, OverDoes
<1>6. store.blocked = "no" /\ ~session.dirty => Loads(session, store.snap.state, {})
  BY <1>3 DEF Faithful, Shows, Loads
<1> QED BY <1>1, <1>2, <1>3, <1>4, <1>5, <1>6 DEF Faithful, Told

\* A step that stages a comment, or takes one back.
LEMMA NoteKeeps ==
    ASSUME SInv, HistoryReady, store.blocked = "no", IndInv',
           NEW new, NEW k \in Key, NEW v \in Value,
           store' = new, new.snap = store.snap, new.interrupted = store.interrupted,
           ~session.unverified =>
               Describes(new, SetRow(Over(store.snap.state, session), Annotations, k, v)),
           session' = [session EXCEPT !.loaded = SetRow(@, Annotations, k, v), !.dirty = TRUE],
           UNCHANGED <<op, disk, phase>>
    PROVE  SInv'
<1> DEFINE rows == SetRow(session.loaded, Annotations, k, v)
<1>1. /\ session.loaded \in State /\ store.snap.state \in State
      /\ phase = "idle" /\ op = NoOp /\ session.open
      /\ Faithful(store, session, session.dirty)
  BY ReadyFaithful
<1>2. rows \in State
  BY <1>1, SetRowDoes, Shapes
<1>3. session' = [session EXCEPT !.loaded = rows, !.dirty = TRUE]
  BY SObjects DEF SessionType
<1>4. PICK r : r = session'
  OBVIOUS
<1> HIDE DEF rows
<1>5. /\ session' \in SessionType /\ session'.open /\ session'.loaded = rows /\ session'.dirty
      /\ session'.unloaded = session.unloaded /\ session'.unverified = session.unverified
  BY <1>1, <1>2, <1>3, SObjects DEF SessionType
<1>6. r.loaded = SetRow(session.loaded, Annotations, k, v) /\ r.unloaded = session.unloaded
  BY <1>4, <1>5 DEF rows
<1>7. ~r.unverified => Describes(new, Over(store.snap.state, r))
  <2>1. SetRow(Over(store.snap.state, session), Annotations, k, v) = Over(store.snap.state, r)
    BY <1>1, <1>6, OverNote
  <2> QED BY <1>4, <1>5, <2>1
<1>8. Faithful(new, r, TRUE)
  BY <1>1, <1>6, <1>7, NoteFaithful
<1>9. Faithful(store', session', session'.dirty)
  BY <1>4, <1>5, <1>8 DEF Faithful, Shows, Told
<1>10. UndoDescribesFiles'
  BY <1>5, FilesStay DEF disk
<1>11. Sound'
  BY <1>5, <1>10 DEF Sound, SessionOK, SessionType
<1> QED BY <1>1, <1>5, <1>9, <1>11, Rests

\* annotation_set.
LEMMA AnnotationSetKeeps ==
    ASSUME SInv, NEW k \in Key, NEW v \in Value, AnnotationSet(k, v)
    PROVE  SInv'
<1> DEFINE c == Change(Annotations, k, Row(session.loaded, Annotations, k), v)
           shown == Over(store.snap.state, session)
<1>1. HistoryReady /\ Stage(c) /\ UNCHANGED op /\ store.blocked = "no"
      /\ session' = [session EXCEPT !.loaded = SetRow(@, Annotations, k, v), !.dirty = TRUE]
  BY DEF AnnotationSet, Stage
<1>2. Row(session.loaded, Annotations, k) \in Value
  BY SObjects, Shapes DEF Row
<1>3. c \in Command
  BY <1>2, Shapes
<1>4. /\ store \in Store /\ BoundedLine(store) /\ shown \in State
      /\ store.snap.state \in State /\ session.loaded \in State
      /\ ~session.unverified => Describes(store, shown)
  BY <1>1, ReadyFaithful
<1>5. Row(shown, Annotations, k) = Row(session.loaded, Annotations, k)
  BY <1>4, OverDoes DEF Row
<1>6. c.table = Annotations /\ c.key = k /\ c.after = v /\ c.before = Row(shown, c.table, c.key)
  BY <1>5 DEF Change
<1> HIDE DEF c, shown
<1>7. PICK drop \in Drops(store) : store' = Staged(store, c, drop)
  BY <1>1 DEF Stage
<1>8. IndInv'
  BY <1>1, <1>3, StagePreserves, SObjects
<1> DEFINE new == Staged(store, c, drop)
<1>9. ~session.unverified => Describes(new, SetRow(shown, Annotations, k, v))
  BY <1>3, <1>4, <1>6, StagedDescribes
<1>10. new.snap = store.snap /\ new.interrupted = store.interrupted
  BY <1>4, StagedKeeps
<1>11. UNCHANGED <<op, disk, phase>>
  BY <1>1 DEF Stage, call
<1>12. store' = new
  BY <1>7
<1> HIDE DEF new
<1> QED BY <1>1, <1>8, <1>9, <1>10, <1>11, <1>12, NoteKeeps DEF shown

\* undo and redo of a staged comment.
LEMMA ReplayAnnotationKeeps ==
    ASSUME SInv, NEW redo \in BOOLEAN, ReplayAnnotation(redo)
    PROVE  SInv'
<1> DEFINE c == NextCommand(store, redo)
           v == IF redo THEN c.after ELSE c.before
           shown == Over(store.snap.state, session)
<1>1. HistoryReady /\ Advance(redo) /\ UNCHANGED op /\ store.blocked = "no" /\ CanMove(store, redo)
      /\ c.table = Annotations
      /\ session' = [session EXCEPT !.loaded = SetRow(@, Annotations, c.key, v), !.dirty = TRUE]
  BY DEF ReplayAnnotation
<1>2. store \in Store /\ BoundedLine(store) /\ shown \in State
      /\ (~session.unverified => Describes(store, shown))
  BY <1>1, ReadyFaithful
<1> HIDE DEF shown
<1> DEFINE new == Advanced(store, redo)
<1>3. ~session.unverified => Describes(new, SetRow(shown, c.table, c.key, v))
  BY <1>1, <1>2, AdvancedDescribes
<1>4. new.snap = store.snap /\ new.interrupted = store.interrupted
  BY <1>2, AdvancedKeeps
<1>5. c \in Command
  BY <1>1, <1>2, NextIsCommand
<1>6. c.key \in Key /\ v \in Value
  BY <1>5, Shapes
<1>7. IndInv'
  BY <1>1, AdvancePreserves, SObjects
<1>8. UNCHANGED <<op, disk, phase>> /\ store' = new
  BY <1>1 DEF Advance, call
<1> HIDE DEF new, c, v
<1> QED BY <1>1, <1>3, <1>4, <1>6, <1>7, <1>8, NoteKeeps DEF shown

\* Entering persist(): the parts that depend on the caller.
Enters(st, s, copy) ==
    /\ session.open /\ store # NoStore
    /\ st \in Store /\ s \in State /\ copy \in Store \union {NoStore}
    /\ st.blocked = "no" /\ ~session.unverified => Describes(st, s) /\ Describes(st, Over(s, session))
    /\ IF copy = NoStore
       THEN /\ op'.kind = "save" /\ s = Over(st.snap.state, session)
            /\ Faithful(st, session, session.dirty)
       ELSE op'.kind # "save" /\ Faithful(copy, session, session.dirty)
    /\ op'.kind = "rename" => ~session.dirty /\ Loads(session, s, {op'.table})

\* A reason to refuse is one of the failures.
LEMMA RefusalFails ==
    ASSUME NEW st \in Store
    PROVE  PersistRefusal(st) # "ok"
BY DEF PersistRefusal, RecoverRefusal, Store, Blocked

\* persist() entered, or refused, keeps the invariant.
LEMMA PersistKeeps ==
    ASSUME SInv, IndInv', UNCHANGED session, OpOK', Syncing', op'.kind \in Calls,
           NEW st, NEW s, NEW copy, Persist(st, s, copy), Enters(st, s, copy)
    PROVE  SInv'
<1>1. SessionOK' /\ session'.open
  BY DEF SInv, SessionOK, Enters
<1>2. UndoDescribesFiles'
  BY FilesStay DEF Persist, disk
<1>3. Sound'
  BY <1>1, <1>2 DEF Sound
<1>4. NoStore \notin Store /\ NoState \notin State
  BY ConstantsAssumption
<1>5. CASE PersistRefusal(st) # "none"
  <2>1. /\ phase' = "idle" /\ reply' = PersistRefusal(st)
        /\ store' = IF copy = NoStore THEN st ELSE copy
    BY <1>5 DEF Persist, EndCall
  <2>2. reply' # "ok" /\ store' # NoStore
    BY <1>4, <2>1, RefusalFails DEF Enters
  <2>3. Faithful(store', session', session'.dirty)
    BY <2>1 DEF Enters
  <2>4. Answered'
    BY <2>2, <2>3 DEF Answered
  <2> QED BY <1>1, <1>3, <2>1, <2>2, <2>4, Ends
<1>6. CASE PersistRefusal(st) = "none"
  <2>1. /\ store' = st /\ next' = s /\ checkpoint' = copy /\ journal' = journal
        /\ phase' = IF st.interrupted = NoJournal THEN "check" ELSE "recover"
    BY <1>6 DEF Persist, disk
  <2>2. st.blocked = "no" /\ (st.interrupted # NoJournal => journal = st.interrupted)
    BY <1>6 DEF PersistRefusal, RecoverRefusal, Enters, Store, Blocked
  <2>3. store' # NoStore /\ next' # NoState /\ phase' # "idle"
    BY <1>4, <2>1 DEF Enters
  <2>4. /\ store'.blocked = "no"
        /\ ~session'.unverified => Describes(store', next') /\ Describes(store', Over(next', session'))
    BY <2>1, <2>2 DEF Enters
  <2>5. /\ phase' \in {"recover", "recover_history", "recover_clean"} => journal' = store'.interrupted
        /\ phase' \in {"check", "sidecars", "history", "clean"} => store'.interrupted = NoJournal
    BY <2>1, <2>2
  <2>6. IF op'.kind = "save"
        THEN /\ checkpoint' = NoStore /\ next' = Over(store'.snap.state, session')
             /\ Faithful(store', session', session'.dirty)
        ELSE /\ checkpoint' # NoStore
             /\ Faithful(checkpoint', session', session'.dirty)
    BY <2>1, <2>2 DEF Enters
  <2>7. op'.kind = "rename" => ~session'.dirty /\ Loads(session', next', {op'.table})
    BY <2>1 DEF Enters
  <2>8. Committing'
    BY <2>4, <2>5, <2>6, <2>7 DEF Committing
  <2> QED BY <1>1, <1>3, <2>3, <2>8, Goes
<1> QED BY <1>5, <1>6

\* rename, function edits, code_edit.
LEMMA RenameKeeps ==
    ASSUME SInv, NEW t \in Table \ {Annotations}, NEW k \in Key, NEW v \in Value, Rename(t, k, v)
    PROVE  SInv'
<1> DEFINE rows == store.snap.state
           shown == Over(rows, session)
           c == Change(t, k, Row(rows, t, k), v)
           new == SetRow(rows, t, k, v)
<1>1. HistoryReady /\ ~session.dirty /\ Edit(c, new) /\ UNCHANGED session /\ store.blocked = "no"
      /\ op' = [kind |-> "rename", table |-> t]
  BY DEF Rename, Edit
<1>2. /\ session.open /\ store # NoStore /\ store \in Store /\ BoundedLine(store)
      /\ Faithful(store, session, session.dirty)
      /\ rows \in State /\ shown \in State /\ session.loaded \in State /\ Loads(session, rows, {})
      /\ ~session.unverified => Describes(store, rows) /\ Describes(store, shown)
  BY <1>1, ReadyFaithful
<1> HIDE DEF rows
<1>3. Row(rows, t, k) \in Value
  BY <1>2, Shapes DEF Row
<1>4. c \in Command
  BY <1>3, Shapes
<1>5. c.table = t /\ c.key = k /\ c.after = v /\ c.before = Row(rows, c.table, c.key)
  BY DEF Change
<1>6. new \in State /\ \A u \in Table : u # t => new[u] = rows[u]
  BY <1>2, SetRowDoes
<1>7. /\ SetRow(shown, t, k, v) = Over(new, session)
      /\ Row(shown, t, k) = Row(rows, t, k)
  BY <1>2, OverSetRow
<1>8. PICK drop \in Drops(store) : Persist(Staged(store, c, drop), new, store)
  BY <1>1 DEF Edit
<1> HIDE DEF c, shown
<1> DEFINE st == Staged(store, c, drop)
<1>9. st \in Store
  BY <1>2, <1>4, StagedStore
<1>10. ~session.unverified => Describes(st, new)
  BY <1>2, <1>4, <1>5, StagedDescribes
<1>11. ~session.unverified => Describes(st, Over(new, session))
  <2>1. c.before = Row(shown, c.table, c.key)
    BY <1>5, <1>7
  <2>2. ~session.unverified => Describes(st, SetRow(shown, c.table, c.key, c.after))
    BY <1>2, <1>4, <2>1, StagedDescribes
  <2> QED BY <1>5, <1>7, <2>2
<1>12. IndInv'
  BY <1>1, <1>4, <1>6, EditPreserves, SObjects
<1>13. op'.kind = "rename" /\ op'.table = t
  BY <1>1
<1>14. Loads(session, new, {op'.table})
  BY <1>2, <1>6, <1>13 DEF Loads
<1> HIDE DEF new, st
<1>15. OpOK' /\ Syncing'
  BY <1>1, <1>2, <1>13 DEF OpOK, Syncing, Calls
<1>16. Enters(st, new, store)
  <2>1. store \in Store \union {NoStore} /\ store # NoStore
    BY <1>2
  <2> QED BY <1>1, <1>2, <1>6, <1>9, <1>10, <1>11, <1>13, <1>14, <2>1 DEF Enters
<1>17. Persist(st, new, store)
  BY <1>8 DEF st
<1> QED BY <1>1, <1>12, <1>13, <1>15, <1>16, <1>17, PersistKeeps DEF Calls

\* undo and redo of a committed edit.
LEMMA ReplayEditKeeps ==
    ASSUME SInv, NEW redo \in BOOLEAN, ReplayEdit(redo)
    PROVE  SInv'
<1> DEFINE rows == store.snap.state
           shown == Over(rows, session)
           c == NextCommand(store, redo)
           v == IF redo THEN c.after ELSE c.before
           new == SetRow(rows, c.table, c.key, v)
           st == Advanced(store, redo)
<1>1. HistoryReady /\ ~session.dirty /\ Replay(redo, new) /\ UNCHANGED session
      /\ store.blocked = "no" /\ CanMove(store, redo) /\ op' = [kind |-> "replay"]
      /\ c.table # Annotations
  BY DEF ReplayEdit
<1>2. /\ session.open /\ store # NoStore /\ store \in Store /\ BoundedLine(store)
      /\ Faithful(store, session, session.dirty)
      /\ rows \in State /\ shown \in State /\ session.loaded \in State
      /\ ~session.unverified => Describes(store, rows) /\ Describes(store, shown)
  BY <1>1, ReadyFaithful
<1>3. c \in Command
  BY <1>1, <1>2, NextIsCommand
<1> HIDE DEF shown
<1>4. ~session.unverified => Describes(st, new) /\ Describes(st, SetRow(shown, c.table, c.key, v))
  BY <1>1, <1>2, AdvancedDescribes
<1>5. c.table \in Table /\ c.key \in Key /\ v \in Value
  BY <1>3, Shapes
<1>6. new \in State
  BY <1>2, <1>5, SetRowDoes
<1>7. SetRow(shown, c.table, c.key, v) = Over(new, session)
  <2> HIDE DEF c, v, rows
  <2> QED BY <1>1, <1>2, <1>5, OverSetRow DEF shown
<1>8. st \in Store
  BY <1>1, <1>2, AdvancedStore
<1>9. IndInv'
  BY <1>1, <1>6, ReplayPreserves, SObjects
<1>10. Persist(st, new, store)
  BY <1>1 DEF Replay
<1>11. op'.kind = "replay"
  BY <1>1
<1>12. ~session.unverified => Describes(st, Over(new, session))
  BY <1>4, <1>7
<1> HIDE DEF new, st, c, v, rows
<1>13. OpOK' /\ Syncing'
  BY <1>1, <1>2, <1>11 DEF OpOK, Syncing, Calls
<1>14. Enters(st, new, store)
  BY <1>2, <1>4, <1>6, <1>8, <1>11, <1>12 DEF Enters
<1> QED BY <1>1, <1>9, <1>10, <1>11, <1>13, <1>14, PersistKeeps DEF Calls

\* Save commits the comments the Session shows.
LEMMA SaveAnnotationsKeeps ==
    ASSUME SInv, SaveAnnotations
    PROVE  SInv'
<1> DEFINE new == Over(store.snap.state, session)
<1>1. HistoryReady /\ Save(new) /\ UNCHANGED session /\ op' = [kind |-> "save"]
  BY DEF SaveAnnotations, Over
<1>2. /\ session.open /\ store # NoStore /\ store \in Store
      /\ Faithful(store, session, session.dirty)
      /\ new \in State /\ session.loaded \in State /\ store.snap.state \in State
      /\ store.blocked = "no" /\ ~session.unverified => Describes(store, new)
  BY <1>1, ReadyFaithful
<1>3. Over(new, session) = new
  <2>1. session.loaded[Annotations] = new[Annotations]
    BY <1>2, OverDoes
  <2> HIDE DEF new
  <2> QED BY <1>2, <2>1, OverSame
<1>4. IndInv'
  BY <1>1, <1>2, SavePreserves, SObjects
<1>5. op'.kind = "save" /\ Persist(store, new, NoStore)
  BY <1>1 DEF Save
<1>6. OpOK' /\ Syncing'
  BY <1>1, <1>2, <1>5 DEF OpOK, Syncing, Calls
<1>7. Enters(store, new, NoStore)
  BY <1>2, <1>3, <1>5 DEF Enters
<1> HIDE DEF new
<1> QED BY <1>1, <1>4, <1>5, <1>6, <1>7, PersistKeeps DEF Calls

\* reset(), asked for by itself or by project_sync.
LEMMA ResetKeeps ==
    ASSUME SInv, HistoryReady, Reset \/ ResetRefused, OpOK', Syncing', UNCHANGED session,
           op'.kind \in {"history_reset", "sync"}
    PROVE  SInv'
<1>1. /\ session.open /\ store # NoStore /\ store \in Store
      /\ Faithful(store, session, session.dirty) /\ tables \in State /\ IndInv
      /\ GoodDoc(history)
  BY ReadyFaithful, SObjects, GoodFromIndInv
<1>2. CASE Reset
  <2>1. IndInv'
    BY <1>1, <1>2, ResetPreserves
  <2>2. Persist(ResetStore, tables, store)
    BY <1>2 DEF Reset
  <2>3. ResetStore \in Store /\ ResetStore.commands = <<>> /\ ResetStore.cursor = 0
    <3>1. [state |-> tables, doc |-> history] \in Snapshot
      BY <1>1 DEF Snapshot, GoodDoc
    <3>2. <<>> \in Seq(Command) /\ "no" \in Blocked
      BY DEF Blocked
    <3>3. ResetStore \in Store
      BY <1>1, <3>1, <3>2, ResetGood DEF ResetStore
    <3> QED BY <1>1, <3>3 DEF ResetStore, Store
  <2>4. Describes(ResetStore, tables) /\ Describes(ResetStore, Over(tables, session))
    BY <2>3, EmptyLine DEF Describes
  <2>5. Enters(ResetStore, tables, store)
    BY <1>1, <2>3, <2>4 DEF Enters
  <2> QED BY <2>1, <2>2, <2>5, PersistKeeps DEF Calls
<1>3. CASE ResetRefused
  <2>1. IndInv'
    BY <1>1, <1>3, ResetRefusedPreserves
  <2>2. UndoDescribesFiles'
    BY <1>3, FilesStay DEF ResetRefused, disk
  <2>3. phase' = "idle" /\ store' = store /\ reply' # "ok"
    BY <1>3 DEF ResetRefused, EndCall
  <2>4. Sound'
    BY <2>1, <2>2 DEF Sound, SInv, SessionOK
  <2>5. Answered'
    BY <1>1, <2>3 DEF Answered
  <2> QED BY <1>1, <2>3, <2>4, <2>5, Ends DEF Calls
<1> QED BY <1>2, <1>3

\* history_reset.
LEMMA HistoryResetKeeps ==
    ASSUME SInv, HistoryReset
    PROVE  SInv'
<1>1. /\ HistoryReady /\ (Reset \/ ResetRefused) /\ UNCHANGED session
      /\ op' = [kind |-> "history_reset"]
  BY DEF HistoryReset
<1>2. op'.kind = "history_reset" /\ session'.open
  BY <1>1, ReadyFaithful
<1>3. OpOK' /\ Syncing'
  BY <1>2 DEF OpOK, Syncing, Calls
<1> QED BY <1>1, <1>2, <1>3, ResetKeeps

\* project_sync remembers the comments staged over the last commit.
LEMMA ProjectSyncKeeps ==
    ASSUME SInv, ProjectSync
    PROVE  SInv'
<1> DEFINE o == [kind |-> "sync", notes |-> StagedNotes, kept |-> FALSE,
                 was |-> session, committed |-> store.snap.state[Annotations]]
<1>1. HistoryReady /\ (Reset \/ ResetRefused) /\ UNCHANGED session /\ op' = o
  BY DEF ProjectSync
<1>2. /\ op'.kind = "sync" /\ op'.notes = StagedNotes /\ op'.kept = FALSE /\ op'.was = session
      /\ op'.committed = store.snap.state[Annotations]
  BY <1>1
<1>3. session'.open /\ store.snap.state \in State
  BY <1>1, ReadyFaithful
<1>4. op'.committed \in Rows
  BY <1>2, <1>3, Shapes DEF State
<1>5. op' = SyncOp("sync")'
  BY <1>1 DEF SyncOp
<1> HIDE DEF o
<1>6. OpOK'
  BY <1>2, <1>3, <1>5 DEF OpOK, Calls
<1>7. op'.notes = {<<k, session.loaded[Annotations][k]>> : k \in {k \in Key : StagedBefore(k)'}}
  <2>1. \A k \in Key : StagedBefore(k)' <=>
            session.dirty /\ session.loaded[Annotations][k] # store.snap.state[Annotations][k]
    BY <1>2 DEF StagedBefore, Row
  <2>2. CASE session.dirty
    <3>1. StagedNotes = {<<k, session.loaded[Annotations][k]>> :
              k \in {k \in Key : session.loaded[Annotations][k] # store.snap.state[Annotations][k]}}
      BY <2>2 DEF StagedNotes
    <3>2. {k \in Key : session.loaded[Annotations][k] # store.snap.state[Annotations][k]}
            = {k \in Key : StagedBefore(k)'}
      BY <2>1, <2>2
    <3> QED BY <1>2, <3>1, <3>2
  <2>3. CASE ~session.dirty
    <3>1. StagedNotes = {}
      BY <2>3 DEF StagedNotes
    <3>2. {k \in Key : StagedBefore(k)'} = {}
      BY <2>1, <2>3
    <3> QED BY <1>2, <3>1, <3>2
  <2> QED BY <2>2, <2>3
<1>8. Syncing'
  BY <1>1, <1>2, <1>4, <1>7 DEF Syncing
<1> QED BY <1>1, <1>2, <1>6, <1>8, ResetKeeps

-----------------------------------------------------------------------------
(* What an operation does with the Session once its call has ended.        *)

\* The history after a call that has ended.
LEMMA EndedCall ==
    ASSUME SInv, op.kind \in Calls, phase = "idle"
    PROVE  /\ session.open /\ store # NoStore
           /\ reply # "ok" => Faithful(store, session, session.dirty)
           /\ reply = "ok" =>
                /\ store.blocked = "no" /\ Fresh(store)
                /\ ~session.unverified => Describes(store, Over(tables, session))
                /\ op.kind = "save" => Loads(session, tables, {})
                /\ op.kind = "rename" => ~session.dirty /\ Loads(session, tables, {op.table})
BY DEF SInv, OpOK, NoOp, Calls, Underway, Answered

\* A failure is reported and the Session left as it is.
LEMMA OperationFailsKeeps ==
    ASSUME SInv, OperationFails
    PROVE  SInv'
<1>1. op.kind \in Calls /\ phase = "idle" /\ reply # "ok" /\ op' = NoOp
  BY DEF OperationFails, Ended, SInv, OpOK, NoOp, Calls, Builds
<1>2. Local(store, session) /\ faults' \in Nat
  <2>1. op.kind # "item_define"
    BY <1>1 DEF Calls
  <2> QED BY <2>1, Outcomes DEF OperationFails
<1>3. /\ session.open /\ store # NoStore
      /\ Faithful(store, session, session.dirty)
  BY <1>1, EndedCall
<1> QED BY <1>1, <1>2, <1>3, Settles, SObjects

\* A call that succeeded, once the Session has loaded what the call changed.
LEMMA Succeeds ==
    ASSUME SInv, op.kind \in Calls, phase = "idle", reply = "ok", op' = NoOp,
           NEW ts, ts \subseteq Table, NEW failed, failed \subseteq ts, faults' \in Nat,
           NEW s, s = LoadTables(session, ts, failed), Local(store, s),
           \A t \in Table \ (ts \union session.unloaded) :
               t # Annotations \/ ~session.dirty => session.loaded[t] = tables[t]
    PROVE  SInv'
<1>1. /\ session.open /\ store # NoStore /\ Fresh(store)
      /\ ~session.unverified => Describes(store, Over(tables, session))
  BY EndedCall
<1>2. /\ s \in SessionType /\ s.open /\ s.unverified = session.unverified
      /\ s.dirty = session.dirty
  <2>1. IsLoaded(s, ts, failed)
    BY LoadDoes
  <2> QED BY <1>1, <2>1 DEF IsLoaded
<1>3. Faithful(store, s, session.dirty)
  BY <1>1, LoadFaithful
<1>4. Faithful(store, s, s.dirty)
  BY <1>2, <1>3
<1> QED BY <1>1, <1>2, <1>4, Settles, SObjects

\* rename and its kin load the table they changed.
LEMMA EditSucceedsKeeps ==
    ASSUME SInv, EditSucceeds
    PROVE  SInv'
<1>1. op.kind = "rename" /\ phase = "idle" /\ reply = "ok" /\ op' = NoOp /\ op.table \in Table
  BY DEF EditSucceeds, Ended, SInv, OpOK, NoOp, Calls, Builds
<1>2. op.kind \in Calls
  BY <1>1 DEF Calls
<1>3. Loads(session, tables, {op.table})
  BY <1>1, <1>2, EndedCall
<1>4. PICK failed \in SUBSET {op.table} :
          LoadOutcome(failed) /\ Local(store, LoadTables(session, {op.table}, failed))
  BY <1>1 DEF EditSucceeds
<1>5. PICK ts, s : ts = {op.table} /\ s = LoadTables(session, ts, failed)
  OBVIOUS
<1>6. ts \subseteq Table /\ failed \subseteq ts /\ faults' \in Nat /\ Local(store, s)
  BY <1>1, <1>4, <1>5, Outcomes
<1>7. \A t \in Table \ (ts \union session.unloaded) : session.loaded[t] = tables[t]
  BY <1>3, <1>5 DEF Loads
<1> QED BY <1>1, <1>2, <1>5, <1>6, <1>7, Succeeds

\* Save leaves nothing staged.
LEMMA SaveSucceedsKeeps ==
    ASSUME SInv, SaveSucceeds
    PROVE  SInv'
<1>1. op.kind = "save" /\ phase = "idle" /\ reply = "ok" /\ op' = NoOp /\ faults' \in Nat
  BY Outcomes DEF SaveSucceeds, Ended
<1>2. op.kind \in Calls
  BY <1>1 DEF Calls
<1> DEFINE s == [session EXCEPT !.dirty = FALSE]
<1>3. /\ session.open /\ store # NoStore /\ Fresh(store) /\ Loads(session, tables, {})
      /\ ~session.unverified => Describes(store, Over(tables, session))
  BY <1>1, <1>2, EndedCall
<1>4. /\ s \in SessionType /\ s.open /\ s.loaded = session.loaded /\ s.unloaded = session.unloaded
      /\ s.unverified = session.unverified
  BY <1>3, SObjects DEF SessionType
<1>5. Local(store, s)
  BY DEF SaveSucceeds
<1> HIDE DEF s
<1>6. Faithful(store, s, s.dirty)
  <2>1. \A t \in Table \ s.unloaded : s.loaded[t] = tables[t]
    BY <1>3, <1>4 DEF Loads
  <2>2. Over(tables, s) = Over(tables, session)
    BY <1>4 DEF Over
  <2>3. store.blocked = "no" /\ ~s.unverified => Describes(store, Over(tables, s))
    BY <1>3, <1>4, <2>2
  <2> QED BY <1>3, <1>4, <2>1, <2>3, FreshFaithful
<1> QED BY <1>1, <1>3, <1>4, <1>5, <1>6, Settles, SObjects

\* undo, redo and history_reset load every table.
LEMMA ReloadSucceedsKeeps ==
    ASSUME SInv, ReloadSucceeds
    PROVE  SInv'
<1>1. op.kind \in {"replay", "history_reset"} /\ phase = "idle" /\ reply = "ok" /\ op' = NoOp
  BY DEF ReloadSucceeds, Ended
<1>2. op.kind \in Calls
  BY <1>1 DEF Calls
<1>3. PICK failed \in SUBSET Table :
          LoadOutcome(failed) /\ Local(store, LoadTables(session, Table, failed))
  BY DEF ReloadSucceeds
<1>4. PICK ts, s : ts = Table /\ s = LoadTables(session, ts, failed)
  OBVIOUS
<1>5. ts \subseteq Table /\ failed \subseteq ts /\ faults' \in Nat /\ Local(store, s)
  BY <1>3, <1>4, Outcomes
<1>6. Table \ (ts \union session.unloaded) = {}
  BY <1>4
<1> QED BY <1>1, <1>2, <1>4, <1>5, <1>6, Succeeds

\* While project_sync stages comments again.
LEMMA Stages ==
    ASSUME Sound', OpOK', Syncing', op'.kind = "sync_stage", phase' = "idle", session'.open
    PROVE  SInv'
<1>1. op' # NoOp /\ op'.kind \notin Calls \union Builds \union {"open_recover", "open_load"}
  BY DEF NoOp, Calls, Builds
<1>2. Underway'
  BY <1>1 DEF Underway
<1>3. Resting' /\ Building' /\ Committing' /\ Answered'
  BY <1>1 DEF Resting, Building, Committing, Answered
<1> QED BY <1>2, <1>3 DEF SInv, Sound

\* What project_sync has still to stage.
LEMMA SyncingParts ==
    ASSUME SInv, op.kind = "sync_stage"
    PROVE  /\ session.open /\ op.kept \in BOOLEAN /\ op = SyncOp("sync_stage")
           /\ store # NoStore /\ store.blocked = "no" /\ store.interrupted = NoJournal
           /\ session.unloaded = {} /\ Faithful(store, session, op.kept)
           /\ op.was.loaded \in State
           /\ \A note \in op.notes :
                 note[1] \in Key /\ note[2] = op.was.loaded[Annotations][note[1]]
           /\ \A k \in Key : StagedBefore(k) =>
                 \/ \E note \in op.notes : note[1] = k
                 \/ session.loaded[Annotations][k] = op.was.loaded[Annotations][k]
BY DEF SInv, OpOK, NoOp, Syncing

\* What project_sync remembers, as a record.
SyncRecord(kind, notes, kept, was, committed) ==
    [kind |-> kind, notes |-> notes, kept |-> kept, was |-> was, committed |-> committed]

\* An operation of project_sync that goes on to stage.
LEMMA SyncOpKind ==
    ASSUME NEW kind, op = SyncOp(kind), NEW new
    PROVE  [op EXCEPT !.kind = new] = SyncRecord(new, op.notes, op.kept, op.was, op.committed)
<1> DEFINE n == op.notes
           k == op.kept
           w == op.was
           c == op.committed
<1>1. op = SyncRecord(kind, n, k, w, c)
  BY DEF SyncOp, SyncRecord
<1> HIDE DEF n, k, w, c
<1>2. [op EXCEPT !.kind = new] = SyncRecord(new, n, k, w, c)
  BY <1>1 DEF SyncRecord
<1> QED BY <1>2 DEF n, k, w, c

\* One that has fewer notes to stage.
LEMMA SyncOpNotes ==
    ASSUME NEW kind, op = SyncOp(kind), NEW notes
    PROVE  [op EXCEPT !.notes = notes] = SyncRecord(kind, notes, op.kept, op.was, op.committed)
<1> DEFINE n == op.notes
           k == op.kept
           w == op.was
           c == op.committed
<1>1. op = SyncRecord(kind, n, k, w, c)
  BY DEF SyncOp, SyncRecord
<1> HIDE DEF n, k, w, c
<1>2. [op EXCEPT !.notes = notes] = SyncRecord(kind, notes, k, w, c)
  BY <1>1 DEF SyncRecord
<1> QED BY <1>2 DEF n, k, w, c

\* One that has staged one of them.
LEMMA SyncOpKept ==
    ASSUME NEW kind, op = SyncOp(kind), NEW notes, NEW kept
    PROVE  [op EXCEPT !.notes = notes, !.kept = kept]
               = SyncRecord(kind, notes, kept, op.was, op.committed)
<1> DEFINE o == [op EXCEPT !.notes = notes]
           k == op.kept
           w == op.was
           c == op.committed
<1>1. o = SyncRecord(kind, notes, k, w, c)
  BY SyncOpNotes
<1>2. [op EXCEPT !.notes = notes, !.kept = kept] = [o EXCEPT !.kept = kept]
  BY Zenon
<1> HIDE DEF o, k, w, c
<1>3. [o EXCEPT !.kept = kept] = SyncRecord(kind, notes, kept, w, c)
  BY <1>1 DEF SyncRecord
<1> QED BY <1>2, <1>3 DEF w, c

\* It still stages.
LEMMA SyncOpStays ==
    ASSUME NEW kind, op = SyncOp(kind), NEW notes, NEW kept,
           op' = [op EXCEPT !.notes = notes, !.kept = kept]
    PROVE  op'.kind = kind
<1>1. [op EXCEPT !.notes = notes, !.kept = kept]
          = SyncRecord(kind, notes, kept, op.was, op.committed)
  BY SyncOpKept, Zenon
<1>2. op' = SyncRecord(kind, notes, kept, op.was, op.committed)
  BY <1>1, Zenon
<1>3. SyncRecord(kind, notes, kept, op.was, op.committed).kind = kind
  BY DEF SyncRecord
<1> QED BY <1>2, <1>3, Zenon

\* A step to a state of project_sync that stages.
LEMMA SyncStages ==
    ASSUME Sound', phase' = "idle", session'.open, store' # NoStore,
           store'.blocked = "no", store'.interrupted = NoJournal,
           NEW notes, NEW kept \in BOOLEAN, NEW was, NEW committed,
           op' = SyncRecord("sync_stage", notes, kept, was, committed),
           was.loaded \in State,
           session'.unloaded = {}, Faithful(store', session', kept),
           \A note \in notes : note[1] \in Key /\ note[2] = was.loaded[Annotations][note[1]],
           \A k \in Key : was.dirty /\ Row(was.loaded, Annotations, k) # committed[k] =>
               \/ \E note \in notes : note[1] = k
               \/ session'.loaded[Annotations][k] = was.loaded[Annotations][k]
    PROVE  SInv'
<1>1. /\ op'.kind = "sync_stage" /\ op'.notes = notes /\ op'.kept = kept /\ op'.was = was
      /\ op'.committed = committed
  BY DEF SyncRecord
<1>2. OpOK'
  <2>1. op' = SyncOp("sync_stage")'
    BY DEF SyncOp, SyncRecord
  <2> QED BY <1>1, <2>1 DEF OpOK, Calls, Builds
<1>3. \A k \in Key : StagedBefore(k)' <=> was.dirty /\ Row(was.loaded, Annotations, k) # committed[k]
  BY <1>1 DEF StagedBefore
<1>4. Syncing'
  BY <1>1, <1>3 DEF Syncing
<1> QED BY <1>1, <1>2, <1>4, Stages

\* project_sync takes the files.
LEMMA SyncReloadKeeps ==
    ASSUME SInv, SyncReload
    PROVE  SInv'
<1>1. op.kind = "sync" /\ phase = "idle" /\ reply = "ok"
  BY DEF SyncReload, Ended
<1>2. op.kind \in Calls
  BY <1>1 DEF Calls
<1>3. PICK failed \in SUBSET Table :
          /\ LoadOutcome(failed)
          /\ Local(store, [LoadTables(session, Table, failed) EXCEPT !.dirty = FALSE])
          /\ op' = IF failed = {} THEN [op EXCEPT !.kind = "sync_stage"] ELSE NoOp
  BY DEF SyncReload
<1>4. /\ session.open /\ store # NoStore /\ store.blocked = "no" /\ Fresh(store)
      /\ ~session.unverified => Describes(store, Over(tables, session))
  BY <1>1, <1>2, EndedCall
<1>5. PICK r : r = LoadTables(session, Table, failed)
  OBVIOUS
<1> DEFINE s == [r EXCEPT !.dirty = FALSE]
<1>6. r \in SessionType /\ r.open /\ r.unverified = session.unverified
  <2>1. IsLoaded(r, Table, failed)
    BY <1>5, LoadDoes
  <2> QED BY <1>4, <2>1 DEF IsLoaded
<1>7. /\ s \in SessionType /\ s.open /\ s.loaded = r.loaded /\ s.unloaded = r.unloaded
      /\ s.unverified = session.unverified
  BY <1>6 DEF SessionType
<1>8. Local(store, s) /\ faults' \in Nat
  BY <1>3, <1>5, Outcomes
<1> HIDE DEF s
<1>9. ASSUME NEW dirty PROVE Faithful(store, s, dirty)
  <2>1. Faithful(store, r, dirty)
    <3>1. Table \ (Table \union session.unloaded) = {}
      OBVIOUS
    <3> QED BY <1>4, <1>5, <3>1, LoadFaithful
  <2>2. Over(store.snap.state, s) = Over(store.snap.state, r)
    BY <1>7 DEF Over
  <2>3. Shows(store, s, dirty)
    BY <1>7, <2>1 DEF Faithful, Shows
  <2>4. Told(store, s, dirty)
    BY <1>6, <1>7, <2>1, <2>2 DEF Faithful, Told
  <2> QED BY <2>3, <2>4 DEF Faithful
<1>10. CASE failed # {}
  BY <1>1, <1>3, <1>7, <1>8, <1>9, <1>10, Settles, SObjects
<1>11. CASE failed = {}
  <2>1. s.loaded = tables /\ s.unloaded = {}
    BY <1>5, <1>7, <1>11, AllLoaded
  <2>2. Sound' /\ phase' = "idle" /\ store' = store /\ session' = s
    BY <1>1, <1>7, <1>8, LocalSound, SObjects
  <2>3. op = SyncOp("sync") /\ op.kept \in BOOLEAN /\ op.was = session
        /\ op.notes = {<<k, session.loaded[Annotations][k]>> : k \in {k \in Key : StagedBefore(k)}}
    BY <1>1 DEF SInv, OpOK, NoOp, Syncing
  <2>4. op' = SyncRecord("sync_stage", op.notes, op.kept, op.was, op.committed)
    BY <1>3, <1>11, <2>3, SyncOpKind
  <2>5. Faithful(store', session', op.kept) /\ store'.interrupted = NoJournal
    BY <1>4, <1>9, <2>2 DEF Fresh
  <2>6. \A note \in op.notes : note[1] \in Key /\ note[2] = op.was.loaded[Annotations][note[1]]
    BY <2>3
  <2>7. ASSUME NEW k \in Key, op.was.dirty, Row(op.was.loaded, Annotations, k) # op.committed[k]
        PROVE  \E note \in op.notes : note[1] = k
    <3>1. k \in {l \in Key : StagedBefore(l)}
      BY <2>7 DEF StagedBefore
    <3>2. <<k, session.loaded[Annotations][k]>> \in op.notes
      BY <2>3, <3>1
    <3> QED BY <3>2
  <2>8. op.was.loaded \in State
    BY <2>3, SObjects
  <2> QED BY <1>4, <1>7, <2>1, <2>2, <2>3, <2>4, <2>5, <2>6, <2>7, <2>8, SyncStages
<1> QED BY <1>10, <1>11

\* project_sync stages the comments again.
LEMMA SyncStageKeeps ==
    ASSUME SInv, SyncStage
    PROVE  SInv'
<1>1. op.kind = "sync_stage" /\ phase = "idle"
  BY DEF SyncStage, Ended
<1>2. /\ session.open /\ op.kept \in BOOLEAN /\ op = SyncOp("sync_stage")
      /\ store # NoStore /\ store.blocked = "no" /\ store.interrupted = NoJournal
      /\ session.unloaded = {} /\ Faithful(store, session, op.kept) /\ op.was.loaded \in State
  BY <1>1, SyncingParts
<1>3. /\ \A note \in op.notes :
            note[1] \in Key /\ note[2] = op.was.loaded[Annotations][note[1]]
      /\ \A k \in Key : op.was.dirty /\ Row(op.was.loaded, Annotations, k) # op.committed[k] =>
            \/ \E note \in op.notes : note[1] = k
            \/ session.loaded[Annotations][k] = op.was.loaded[Annotations][k]
  BY <1>1, SyncingParts DEF StagedBefore
<1>4. PICK note \in op.notes :
          LET before == Row(session.loaded, Annotations, note[1])
          IN \/ /\ before = note[2]
                /\ Local(store, session) /\ NoFault
                /\ op' = [op EXCEPT !.notes = @ \ {note}]
             \/ /\ before # note[2]
                /\ Stage(Change(Annotations, note[1], before, note[2]))
                /\ session' = [session EXCEPT
                                  !.loaded = SetRow(@, Annotations, note[1], note[2])]
                /\ op' = [op EXCEPT !.notes = @ \ {note}, !.kept = TRUE]
  BY DEF SyncStage
<1> DEFINE k0 == note[1]
           v0 == note[2]
           before == Row(session.loaded, Annotations, k0)
           rest == op.notes \ {note}
<1>5. k0 \in Key /\ v0 = op.was.loaded[Annotations][k0] /\ v0 \in Value /\ before \in Value
  BY <1>2, <1>3, Shapes, SObjects DEF Row
<1>6. \A other \in rest : other[1] \in Key /\ other[2] = op.was.loaded[Annotations][other[1]]
  BY <1>3
<1>7. CASE /\ before = v0 /\ Local(store, session) /\ NoFault
           /\ op' = [op EXCEPT !.notes = @ \ {note}]
  <2>1. op' = SyncRecord("sync_stage", rest, op.kept, op.was, op.committed)
    BY <1>2, <1>7, SyncOpNotes
  <2>2. Sound' /\ phase' = "idle" /\ store' = store /\ session' = session
    BY <1>1, <1>7, LocalSound, SObjects, Outcomes
  <2>3. \A k \in Key : op.was.dirty /\ Row(op.was.loaded, Annotations, k) # op.committed[k] =>
            \/ \E other \in rest : other[1] = k
            \/ session.loaded[Annotations][k] = op.was.loaded[Annotations][k]
    BY <1>3, <1>5, <1>7 DEF Row
  <2> HIDE DEF rest
  <2> QED BY <1>2, <1>6, <2>1, <2>2, <2>3, SyncStages
<1>8. CASE /\ Stage(Change(Annotations, k0, before, v0))
           /\ session' = [session EXCEPT !.loaded = SetRow(@, Annotations, k0, v0)]
           /\ op' = [op EXCEPT !.notes = @ \ {note}, !.kept = TRUE]
  <2> DEFINE c == Change(Annotations, k0, before, v0)
             rows == SetRow(session.loaded, Annotations, k0, v0)
             shown == Over(store.snap.state, session)
             yes == TRUE
  <2>1. op' = SyncRecord("sync_stage", rest, yes, op.was, op.committed)
    <3>1. [op EXCEPT !.notes = rest, !.kept = yes]
              = SyncRecord("sync_stage", rest, yes, op.was, op.committed)
      <4>1. op = SyncOp("sync_stage")
        BY <1>2
      <4> HIDE DEF yes, rest
      <4> QED BY <4>1, SyncOpKept, Zenon
    <3> QED BY <1>8, <3>1, Zenon
  <2>2. c \in Command /\ c.table = Annotations /\ c.key = k0 /\ c.after = v0
        /\ c.before = Row(session.loaded, c.table, c.key)
    BY <1>5, Shapes DEF Change
  <2>3. PICK drop \in Drops(store) : store' = Staged(store, c, drop)
    BY <1>8 DEF Stage
  <2>4. IndInv'
    BY <1>8, <2>2, StagePreserves, SObjects
  <2>5. store \in Store /\ BoundedLine(store) /\ session.loaded \in State
        /\ store.snap.state \in State /\ shown \in State
        /\ (~session.unverified => Describes(store, shown))
        /\ Row(shown, Annotations, k0) = before
    <3>1. store \in Store /\ BoundedLine(store) /\ session.loaded \in State
      BY <1>2, SObjects
    <3>2. store.snap.state \in State
      BY <3>1 DEF Store, Snapshot
    <3>3. shown \in State /\ shown[Annotations] = session.loaded[Annotations]
      BY <3>1, <3>2, OverDoes
    <3>4. ~session.unverified => Describes(store, shown)
      BY <1>2 DEF Faithful, Told
    <3> QED BY <3>1, <3>2, <3>3, <3>4 DEF Row
  <2> HIDE DEF c, shown
  <2> DEFINE new == Staged(store, c, drop)
  <2>6. ~session.unverified => Describes(new, SetRow(shown, Annotations, k0, v0))
    <3>1. c.before = Row(shown, c.table, c.key)
      BY <2>2, <2>5
    <3> QED BY <2>2, <2>5, <3>1, StagedDescribes
  <2>7. new.snap = store.snap /\ new.interrupted = store.interrupted /\ new.blocked = store.blocked
        /\ new # NoStore
    BY <2>2, <2>5, StagedKeeps, StagedStore, ConstantsAssumption
  <2>8. UNCHANGED <<disk, phase>> /\ store' = new
    BY <1>8, <2>3 DEF Stage, call
  <2> HIDE DEF new
  <2>9. /\ rows \in State /\ Row(rows, Annotations, k0) = v0
         /\ \A k \in Key : k # k0 => Row(rows, Annotations, k) = Row(session.loaded, Annotations, k)
    <3>1. Annotations \in Table
      BY Shapes
    <3> HIDE DEF k0, v0
    <3> QED BY <1>5, <2>5, <3>1, SetRowDoes
  <2>10. session' = [session EXCEPT !.loaded = rows]
    BY <1>8, SObjects DEF SessionType
  <2> HIDE DEF rows
  <2>11. /\ session' \in SessionType /\ session'.open /\ session'.loaded = rows
         /\ session'.unloaded = {} /\ session'.unverified = session.unverified
    BY <1>2, <2>9, <2>10, SObjects DEF SessionType
  <2>12. Faithful(new, session', TRUE)
    <3>1. PICK r : r = session'
      OBVIOUS
    <3>2. r.loaded = SetRow(session.loaded, Annotations, k0, v0) /\ r.unloaded = session.unloaded
      BY <1>2, <2>11, <3>1 DEF rows
    <3> HIDE DEF k0, v0
    <3>3. SetRow(Over(store.snap.state, session), Annotations, k0, v0) = Over(store.snap.state, r)
      BY <1>5, <2>5, <3>2, OverNote
    <3>4. ~r.unverified => Describes(new, Over(store.snap.state, r))
      BY <2>6, <2>11, <3>1, <3>3 DEF shown
    <3>5. Faithful(new, r, TRUE)
      BY <1>2, <1>5, <2>5, <2>7, <3>2, <3>4, NoteFaithful
    <3> QED BY <3>1, <3>5
  <2>13. UndoDescribesFiles'
    BY <2>8, <2>11, FilesStay DEF disk
  <2>14. Sound'
    BY <2>4, <2>11, <2>13 DEF Sound, SessionOK, SessionType
  <2>15. \A k \in Key : op.was.dirty /\ Row(op.was.loaded, Annotations, k) # op.committed[k] =>
            \/ \E other \in rest : other[1] = k
            \/ rows[Annotations][k] = op.was.loaded[Annotations][k]
    BY <1>3, <1>5, <2>9 DEF Row
  <2> HIDE DEF rest, k0, v0, before
  <2>16. yes \in BOOLEAN /\ Faithful(new, session', yes)
    BY <2>12
  <2> HIDE DEF yes
  <2>17. store'.blocked = "no" /\ store'.interrupted = NoJournal /\ store' # NoStore
         /\ Faithful(store', session', yes) /\ phase' = "idle"
    BY <1>1, <1>2, <2>7, <2>8, <2>11, <2>16
  <2>18. \A k \in Key : op.was.dirty /\ Row(op.was.loaded, Annotations, k) # op.committed[k] =>
            \/ \E other \in rest : other[1] = k
            \/ session'.loaded[Annotations][k] = op.was.loaded[Annotations][k]
    BY <2>11, <2>15
  <2> QED BY <1>2, <1>6, <2>1, <2>11, <2>14, <2>16, <2>17, <2>18, SyncStages
<1> QED BY <1>4, <1>7, <1>8

\* project_sync ends and reports whether comments are staged.
LEMMA SyncDoneKeeps ==
    ASSUME SInv, SyncDone
    PROVE  SInv'
<1>1. op.kind = "sync_stage" /\ phase = "idle" /\ op' = NoOp /\ faults' \in Nat
  BY Outcomes DEF SyncDone, Ended
<1> DEFINE s == [session EXCEPT !.dirty = op.kept]
<1>2. /\ session.open /\ op.kept \in BOOLEAN /\ store # NoStore
      /\ Faithful(store, session, op.kept)
  BY <1>1, SyncingParts
<1>3. /\ s \in SessionType /\ s.open /\ s.loaded = session.loaded /\ s.dirty = op.kept
      /\ s.unloaded = session.unloaded /\ s.unverified = session.unverified
  BY <1>2, SObjects DEF SessionType
<1>4. Local(store, s)
  BY DEF SyncDone
<1> HIDE DEF s
<1>5. Faithful(store, s, s.dirty)
  BY <1>2, <1>3 DEF Faithful, Shows, Told, Over
<1> QED BY <1>1, <1>2, <1>3, <1>4, <1>5, Settles, SObjects

-----------------------------------------------------------------------------
(* The steps of the history inside a call.                                 *)

\* The call under way, and what it may still have to give back.
LEMMA CallParts ==
    ASSUME SInv, phase # "idle", op.kind \in Calls
    PROVE  /\ store # NoStore /\ next # NoState
           /\ store \in Store /\ BoundedLine(store) /\ next \in State
           /\ store.blocked = "no"
           /\ ~session.unverified =>
                 Describes(store, next) /\ Describes(store, Over(next, session))
           /\ phase \in {"recover", "recover_history", "recover_clean"} =>
                 journal = store.interrupted
           /\ phase \in {"check", "sidecars", "history", "clean"} => store.interrupted = NoJournal
           /\ op.kind = "save" =>
                 /\ checkpoint = NoStore /\ next = Over(store.snap.state, session)
                 /\ Faithful(store, session, session.dirty)
           /\ op.kind # "save" =>
                 checkpoint # NoStore /\ Faithful(checkpoint, session, session.dirty)
           /\ op.kind = "rename" => ~session.dirty /\ Loads(session, next, {op.table})
           /\ store.snap.state \in State /\ session.loaded \in State
<1>1. Underway /\ Committing /\ IndInv
  BY DEF SInv
<1>2. store # NoStore /\ next # NoState
  BY <1>1 DEF Underway
<1>3. store \in Store /\ BoundedLine(store) /\ next \in State
  BY <1>1, <1>2, SObjects, GoodFromIndInv
<1>4. store.snap.state \in State /\ session.loaded \in State
  BY <1>3, SObjects DEF Store, Snapshot
<1> QED BY <1>1, <1>2, <1>3, <1>4 DEF Committing

\* The constructor under way.
LEMMA BuildParts ==
    ASSUME SInv, phase # "idle"
    PROVE  /\ op.kind \in Calls \/ op.kind \in Builds
           /\ op.kind \in Builds =>
                 store = NoStore /\ next = NoState /\ checkpoint = NoStore /\ session.open
           /\ session.open
<1>1. Underway /\ IndInv /\ OpOK
  BY DEF SInv
<1>2. op.kind \in Calls \/ op.kind \in Builds
  BY <1>1 DEF Underway
<1>3. session.open
  BY <1>1, <1>2 DEF OpOK, NoOp, Calls, Builds
<1>4. op.kind \in Builds => store = NoStore /\ next = NoState
  BY <1>1 DEF Underway
<1>5. phase \in Phase
  BY <1>1, GoodFromIndInv
<1>6. next = NoState /\ store = NoStore => checkpoint = NoStore
  BY <1>1, <1>5 DEF IndInv, CallShape, Phase
<1> QED BY <1>2, <1>3, <1>4, <1>6

\* A step of the history that does not end its call.
LEMMA GoesOn ==
    ASSUME SInv, phase # "idle", phase' # "idle", IndInv', UndoDescribesFiles',
           UNCHANGED <<session, op, store, next, checkpoint>>,
           phase' \in {"recover", "recover_history", "recover_clean"} =>
               journal' = journal /\ phase \in {"recover", "recover_history", "recover_clean"},
           phase' \in {"check", "sidecars", "history", "clean"} =>
               phase \in {"check", "sidecars", "history", "clean"}
    PROVE  SInv'
<1>1. CASE op.kind \in Builds
  <2>1. session'.open /\ store' = NoStore /\ next' = NoState
    BY <1>1, BuildParts
  <2>2. Sound'
    BY DEF Sound, SInv, SessionOK
  <2> QED BY <1>1, <2>1, <2>2, Recovers
<1>2. CASE op.kind \in Calls
  <2>1. OpOK' /\ Syncing' /\ SessionOK' /\ session'.open
    BY <1>2, OperationStays
  <2>2. Sound'
    BY <2>1 DEF Sound
  <2>3. Committing'
    <3>1. Committing
      BY DEF SInv
    <3>2. journal' = store.interrupted \/ phase' \notin {"recover", "recover_history", "recover_clean"}
      BY <1>2, CallParts
    <3>3. store.interrupted = NoJournal \/ phase' \notin {"check", "sidecars", "history", "clean"}
      BY <1>2, CallParts
    <3> QED BY <1>2, <3>1, <3>2, <3>3 DEF Committing
  <2>4. store' # NoStore /\ next' # NoState
    BY <1>2, CallParts
  <2> QED BY <1>2, <2>1, <2>2, <2>3, <2>4, Goes
<1> QED BY <1>1, <1>2, BuildParts

\* A step of the history that fails its call: a caller's checkpoint is
\* restored, a Save keeps the history `st' that the failure left.
LEMMA Fails ==
    ASSUME SInv, phase # "idle", IndInv', UndoDescribesFiles', UNCHANGED <<session, op>>,
           NEW result, result # "ok", NEW st, Throw(result, st),
           op.kind \in Builds => st = NoStore,
           op.kind = "save" => st \in Store /\ Faithful(st, session, session.dirty)
    PROVE  SInv'
<1>1. /\ phase' = "idle" /\ reply' = result
      /\ store' = IF checkpoint = NoStore THEN st ELSE checkpoint
  BY DEF Throw, EndCall
<1>2. CASE op.kind \in Builds
  <2>1. session'.open /\ store' = NoStore
    BY <1>1, <1>2, BuildParts
  <2>2. Sound'
    BY DEF Sound, SInv, SessionOK
  <2>3. op'.kind \in Builds /\ op'.kind # "open_recover" /\ op'.kind # "open_load"
    BY <1>2 DEF Builds
  <2> QED BY <1>1, <2>1, <2>2, <2>3, Opens
<1>3. CASE op.kind \in Calls
  <2>1. OpOK' /\ Syncing' /\ SessionOK' /\ session'.open
    BY <1>3, OperationStays
  <2>2. Sound'
    BY <2>1 DEF Sound
  <2>3. store' # NoStore /\ Faithful(store', session, session.dirty)
    <3>1. CASE op.kind = "save"
      BY <1>1, <1>3, <3>1, CallParts, ConstantsAssumption
    <3>2. CASE op.kind # "save"
      BY <1>1, <1>3, <3>2, CallParts
    <3> QED BY <3>1, <3>2
  <2>4. Answered'
    BY <1>1, <2>3 DEF Answered
  <2> QED BY <1>1, <1>3, <2>1, <2>2, <2>3, <2>4, Ends
<1> QED BY <1>2, <1>3, BuildParts

\* A step of the history that ends its call with success.
LEMMA Acknowledges ==
    ASSUME SInv, phase # "idle", op.kind \in Calls, IndInv', UndoDescribesFiles',
           UNCHANGED <<session, op>>, NEW st \in Store, EndCall("ok", st),
           tables' = next, st.snap.state = next, st.interrupted = NoJournal,
           st.commands = store.commands, st.cursor = store.cursor, st.blocked = store.blocked
    PROVE  SInv'
<1>1. phase' = "idle" /\ reply' = "ok" /\ store' = st
  BY DEF EndCall
<1>2. OpOK' /\ Syncing' /\ SessionOK' /\ session'.open
  BY OperationStays
<1>3. Sound'
  BY <1>2 DEF Sound
<1>4. store' # NoStore
  BY <1>1, ConstantsAssumption
<1>5. /\ st.blocked = "no"
      /\ ~session.unverified => Describes(st, next) /\ Describes(st, Over(next, session))
  BY CallParts DEF Describes
<1>6. Fresh(store)'
  BY <1>1, <1>5 DEF Fresh
<1>7. op.kind = "save" => Loads(session, next, {})
  <2> SUFFICES ASSUME op.kind = "save" PROVE Loads(session, next, {})
    OBVIOUS
  <2>1. /\ next = Over(store.snap.state, session) /\ Faithful(store, session, session.dirty)
        /\ store.blocked = "no" /\ store.snap.state \in State /\ session.loaded \in State
    BY CallParts
  <2>2. \A t \in Table \ session.unloaded : t # Annotations => session.loaded[t] = store.snap.state[t]
    BY <2>1 DEF Faithful, Shows
  <2>3. \A t \in Table \ session.unloaded : session.loaded[t] = Over(store.snap.state, session)[t]
    BY <2>1, <2>2, OverDoes
  <2> QED BY <2>1, <2>3 DEF Loads
<1>8. op.kind = "rename" => ~session.dirty /\ Loads(session, next, {op.table})
  BY CallParts
<1>9. Answered'
  BY <1>1, <1>5, <1>6, <1>7, <1>8 DEF Answered
<1> QED BY <1>1, <1>2, <1>3, <1>4, <1>9, Ends

\* The document a journal installs describes the journal's tables.
LEMMA JournalDescribes ==
    ASSUME SInv, phase \in {"recover", "recover_history", "recover_clean"}
    PROVE  /\ journal # NoJournal
           /\ ~session.unverified =>
              LineDescribes(journal.afterDoc.commands, journal.afterDoc.cursor,
                            journal.afterDoc.state)
<1>1. RecoverAllowed
  BY DEF SInv, IndInv, CallShape
<1> QED BY <1>1 DEF RecoverAllowed, SInv, UndoDescribesFiles

\* So does the document persist() writes.
LEMMA DocumentDescribes ==
    ASSUME SInv, phase # "idle", op.kind \in Calls, ~session.unverified
    PROVE  LET doc == Document(store, next)
           IN LineDescribes(doc.commands, doc.cursor, next) /\ doc.state = next
BY CallParts DEF Document, Describes

\* The phases of persist() belong to a call of an operation.
LEMMA CommitInCall ==
    ASSUME SInv, phase \in {"check", "sidecars", "history", "clean"}
    PROVE  op.kind \in Calls /\ phase # "idle"
<1>1. store # NoStore /\ phase # "idle"
  BY DEF SInv, IndInv, CallShape
<1> QED BY <1>1, BuildParts

\* Loading belongs to the constructor.
LEMMA LoadInBuild ==
    ASSUME SInv, phase = "load"
    PROVE  op.kind \in Builds /\ session.open
<1>1. store = NoStore
  BY DEF SInv, IndInv, CallShape
<1> QED BY <1>1, BuildParts, CallParts

\* recover() keeps the invariant while it replaces the tables.
LEMMA RecoverTableKeeps ==
    ASSUME SInv, RecoverTable, UNCHANGED <<session, op>>
    PROVE  SInv'
<1>1. IndInv'
  BY RecoverTablePreserves DEF SInv
<1>2. /\ phase = "recover" /\ phase' \in {"recover", "recover_history"}
      /\ UNCHANGED <<history, journal, store, next, checkpoint>>
  BY DEF RecoverTable
<1>3. UndoDescribesFiles'
  BY <1>2, FilesStay
<1> QED BY <1>1, <1>2, <1>3, GoesOn

\* And when it replaces the document.
LEMMA RecoverHistoryKeeps ==
    ASSUME SInv, RecoverHistory, UNCHANGED <<session, op>>
    PROVE  SInv'
<1>1. IndInv'
  BY RecoverHistoryPreserves DEF SInv
<1>2. /\ phase = "recover_history" /\ phase' = "recover_clean" /\ history' = journal.afterDoc
      /\ UNCHANGED <<journal, store, next, checkpoint>>
  BY DEF RecoverHistory
<1>3. UndoDescribesFiles'
  BY <1>2, JournalDescribes DEF SInv, UndoDescribesFiles
<1> QED BY <1>1, <1>2, <1>3, GoesOn

\* recover() removes the journal: the constructor goes on to load, persist()
\* has what it was asked for, or goes on to commit it.
LEMMA RecoverCleanKeeps ==
    ASSUME SInv, RecoverClean, UNCHANGED <<session, op>>
    PROVE  SInv'
<1>1. IndInv' /\ IndInv
  BY RecoverCleanPreserves DEF SInv
<1>2. phase = "recover_clean" /\ journal' = NoJournal /\ UNCHANGED <<tables, history>>
  BY DEF RecoverClean
<1>3. UndoDescribesFiles'
  BY <1>2 DEF SInv, UndoDescribesFiles
<1>4. tables = journal.after /\ journal \in Journal
  BY <1>1, <1>2, RecoverCleanFiles, InProgress
<1>5. CASE store = NoStore /\ phase' = "load" /\ UNCHANGED <<store, todo, next, checkpoint, reply>>
  BY <1>1, <1>2, <1>3, <1>5, GoesOn
<1>6. ASSUME store # NoStore
      PROVE  /\ op.kind \in Calls /\ store \in Store /\ Recovered \in Store
             /\ Recovered.snap.state = journal.after /\ Recovered.interrupted = NoJournal
             /\ Recovered.commands = store.commands /\ Recovered.cursor = store.cursor
             /\ Recovered.blocked = store.blocked
  <2>1. op.kind \in Calls
    BY <1>2, <1>6, BuildParts
  <2>2. store \in Store /\ BoundedLine(store)
    BY <1>2, <2>1, CallParts
  <2> QED BY <1>4, <2>1, <2>2, RecoveredGood DEF Recovered, Store
<1>7. CASE store # NoStore /\ next = journal.after /\ EndCall("ok", Recovered)
  <2>1. tables' = next /\ Recovered.snap.state = next
    BY <1>2, <1>4, <1>6, <1>7
  <2> QED BY <1>1, <1>2, <1>3, <1>6, <1>7, <2>1, Acknowledges
<1>8. CASE store # NoStore /\ store' = Recovered /\ phase' = "check"
           /\ UNCHANGED <<todo, next, checkpoint, reply>>
  <2>1. OpOK' /\ Syncing' /\ SessionOK' /\ session'.open
    BY <1>6, <1>8, OperationStays
  <2>2. Sound'
    BY <1>1, <1>3, <2>1 DEF Sound
  <2>3. store' # NoStore /\ next' # NoState
    BY <1>2, <1>6, <1>8, CallParts, ConstantsAssumption
  <2>4. /\ store'.blocked = "no" /\ store'.interrupted = NoJournal
        /\ ~session'.unverified => Describes(store', next') /\ Describes(store', Over(next', session'))
    BY <1>2, <1>6, <1>8, CallParts DEF Describes
  <2>5. op.kind # "save" =>
           checkpoint' # NoStore /\ Faithful(checkpoint', session', session'.dirty)
    BY <1>2, <1>6, <1>8, CallParts
  <2>6. op.kind = "rename" => ~session'.dirty /\ Loads(session', next', {op'.table})
    BY <1>2, <1>6, <1>8, CallParts
  <2>7. ASSUME op.kind = "save"
        PROVE  /\ checkpoint' = NoStore /\ next' = Over(store'.snap.state, session')
               /\ Faithful(store', session', session'.dirty)
    <3>1. /\ checkpoint = NoStore /\ next = Over(store.snap.state, session) /\ store.blocked = "no"
          /\ Faithful(store, session, session.dirty) /\ journal = store.interrupted
          /\ store.snap.state \in State /\ session.loaded \in State /\ journal.after \in State
          /\ ~session.unverified => Describes(store, next)
      BY <1>2, <1>4, <1>6, <1>8, <2>7, CallParts, SObjects
    <3>2. journal # NoJournal
      BY <1>2, JournalDescribes
    <3>3. /\ \A t \in Table \ session.unloaded :
               t # Annotations \/ ~session.dirty => session.loaded[t] = store.snap.state[t]
          /\ \A t \in Table :
               t # Annotations \/ (~session.dirty /\ t \notin session.unloaded)
                   => journal.after[t] = store.snap.state[t]
      BY <3>1, <3>2 DEF Faithful, Shows
    <3>4. Over(journal.after, session) = next
      BY <3>1, <3>3, OverAgree
    <3>5. store'.snap.state = journal.after /\ store'.commands = store.commands
          /\ store'.cursor = store.cursor
      BY <1>6, <1>8
    <3>6. Shows(store', session, session.dirty)
      BY <2>4, <3>3, <3>5 DEF Shows
    <3>7. Told(store', session, session.dirty)
      <4>1. ~session.unverified /\ ~session.dirty => Describes(store, journal.after)
        BY <3>1, <3>2 DEF Faithful, Told
      <4>2. \A rows : Describes(store, rows) => Describes(store', rows)
        BY <3>5 DEF Describes
      <4>3. ~session.unverified => Describes(store', Over(store'.snap.state, session))
        BY <3>1, <3>4, <3>5, <4>2
      <4>4. ~session.unverified /\ ~session.dirty => Describes(store', store'.snap.state)
        BY <3>5, <4>1, <4>2
      <4> QED BY <2>4, <4>3, <4>4 DEF Told
    <3>8. next' = Over(store'.snap.state, session')
      BY <1>8, <3>4, <3>5
    <3> QED BY <1>8, <3>1, <3>6, <3>7, <3>8 DEF Faithful
  <2>8. Committing'
    BY <1>8, <2>4, <2>5, <2>6, <2>7 DEF Committing
  <2> QED BY <1>6, <1>8, <2>1, <2>2, <2>3, <2>8, Goes
<1> QED BY <1>5, <1>7, <1>8 DEF RecoverClean

\* A failed recovery.
LEMMA RecoverFailsKeeps ==
    ASSUME SInv, RecoverFails, UNCHANGED <<session, op>>
    PROVE  SInv'
<1>1. IndInv'
  BY RecoverFailsPreserves DEF SInv
<1>2. phase \in {"recover", "recover_history", "recover_clean"} /\ journal' = journal
      /\ history' \in {history, journal.afterDoc}
  BY DEF RecoverFails
<1>3. UndoDescribesFiles'
  BY <1>2, JournalDescribes DEF SInv, UndoDescribesFiles
<1>4. Throw(IF phase = "recover_clean" THEN "recovery_required" ELSE "save_failed", store)
  BY DEF RecoverFails
<1>5. op.kind \in Builds => store = NoStore
  BY <1>2, BuildParts
<1>6. op.kind = "save" => store \in Store /\ Faithful(store, session, session.dirty)
  BY <1>2, CallParts DEF Calls
<1>7. phase # "idle"
  BY <1>2
<1>8. CASE phase = "recover_clean"
  BY <1>1, <1>3, <1>4, <1>5, <1>6, <1>7, <1>8, Fails
<1>9. CASE phase # "recover_clean"
  BY <1>1, <1>3, <1>4, <1>5, <1>6, <1>7, <1>9, Fails
<1> QED BY <1>8, <1>9

\* The constructor reads what it recovered.
LEMMA LoadKeeps ==
    ASSUME SInv, Load, UNCHANGED <<session, op>>
    PROVE  SInv'
<1>1. IndInv'
  BY LoadPreserves DEF SInv
<1>2. phase = "load" /\ phase' = "idle" /\ store' = Loaded(FALSE) /\ UNCHANGED disk
  BY DEF Load, EndCall
<1>3. UndoDescribesFiles'
  BY <1>2, FilesStay DEF disk
<1>4. op'.kind \in Builds /\ session'.open /\ op'.kind \notin {"open_recover", "open_load"}
  BY <1>2, LoadInBuild DEF Builds
<1>5. Fresh(Loaded(FALSE))
  BY LoadedFresh
<1>6. Fresh(store)'
  BY <1>2, <1>5 DEF Fresh, disk
<1>7. Sound'
  BY <1>1, <1>3 DEF Sound, SInv, SessionOK
<1> QED BY <1>2, <1>4, <1>6, <1>7, Opens

\* persist() stops at its check.
LEMMA CheckStopsKeep ==
    ASSUME SInv, CheckRefused \/ CheckOverBudget, UNCHANGED <<session, op>>
    PROVE  SInv'
<1>1. IndInv'
  BY CheckStopsPreserve DEF SInv
<1>2. phase = "check" /\ UNCHANGED disk
  BY DEF CheckRefused, CheckOverBudget
<1>3. UndoDescribesFiles'
  BY <1>2, FilesStay DEF disk
<1>4. op.kind \in Calls /\ op.kind \notin Builds /\ phase # "idle"
  BY <1>2, CommitInCall DEF Calls, Builds
<1>5. op.kind = "save" => store \in Store /\ Faithful(store, session, session.dirty)
  BY <1>4, CallParts
<1>6. PICK result : result # "ok" /\ Throw(result, store)
  BY DEF CheckRefused, CheckOverBudget
<1> QED BY <1>1, <1>3, <1>4, <1>5, <1>6, Fails

\* The journal persist() publishes describes its tables.
LEMMA PublishedDescribes ==
    ASSUME SInv, phase = "check", journal' \in {NoJournal, Transaction},
           UNCHANGED <<history, session>>
    PROVE  UndoDescribesFiles'
<1>1. op.kind \in Calls /\ phase # "idle"
  BY CommitInCall
<1>2. Transaction.after = next /\ Transaction.afterDoc = Document(store, next)
  BY DEF Transaction
<1>3. ~session.unverified =>
      LineDescribes(Transaction.afterDoc.commands, Transaction.afterDoc.cursor, Transaction.after)
  BY <1>1, <1>2, DocumentDescribes
<1> QED BY <1>3 DEF SInv, UndoDescribesFiles

\* persist() publishes its journal.
LEMMA PublishJournalKeeps ==
    ASSUME SInv, PublishJournal, UNCHANGED <<session, op>>
    PROVE  SInv'
<1>1. IndInv'
  BY PublishJournalPreserves DEF SInv
<1>2. /\ phase = "check" /\ phase' \in {"history", "sidecars"} /\ journal' = Transaction
      /\ UNCHANGED <<history, store, next, checkpoint>>
  BY DEF PublishJournal
<1>3. UndoDescribesFiles'
  BY <1>2, PublishedDescribes
<1> QED BY <1>1, <1>2, <1>3, GoesOn

\* Publishing the journal fails, with or without a journal.
LEMMA PublishFailsKeeps ==
    ASSUME SInv, PublishFails, UNCHANGED <<session, op>>
    PROVE  SInv'
<1>1. IndInv'
  BY PublishFailsPreserves DEF SInv
<1>2. /\ phase = "check" /\ journal' \in {NoJournal, Transaction} /\ UNCHANGED history
      /\ Throw("save_failed", store)
  BY DEF PublishFails
<1>3. UndoDescribesFiles'
  BY <1>2, PublishedDescribes
<1>4. op.kind \in Calls /\ op.kind \notin Builds /\ phase # "idle"
  BY <1>2, CommitInCall DEF Calls, Builds
<1>5. op.kind = "save" => store \in Store /\ Faithful(store, session, session.dirty)
  BY <1>4, CallParts
<1> QED BY <1>1, <1>2, <1>3, <1>4, <1>5, Fails

\* persist() replaces a table.
LEMMA WriteSidecarKeeps ==
    ASSUME SInv, WriteSidecar, UNCHANGED <<session, op>>
    PROVE  SInv'
<1>1. IndInv'
  BY WriteSidecarPreserves DEF SInv
<1>2. /\ phase = "sidecars" /\ phase' \in {"history", "sidecars"}
      /\ UNCHANGED <<history, journal, store, next, checkpoint>>
  BY DEF WriteSidecar
<1>3. UndoDescribesFiles'
  BY <1>2, FilesStay
<1> QED BY <1>1, <1>2, <1>3, GoesOn

\* The document persist() writes describes the tables it committed.
LEMMA WrittenDescribes ==
    ASSUME SInv, phase \in {"sidecars", "history", "clean"},
           history' \in {history, Document(store, next)}, UNCHANGED <<journal, session>>
    PROVE  UndoDescribesFiles'
<1>1. op.kind \in Calls /\ phase # "idle"
  BY CommitInCall
<1>2. ~session.unverified =>
      LET doc == Document(store, next)
      IN LineDescribes(doc.commands, doc.cursor, doc.state)
  BY <1>1, DocumentDescribes
<1> QED BY <1>2 DEF SInv, UndoDescribesFiles

\* persist() replaces the document.
LEMMA WriteHistoryKeeps ==
    ASSUME SInv, WriteHistory, UNCHANGED <<session, op>>
    PROVE  SInv'
<1>1. IndInv'
  BY WriteHistoryPreserves DEF SInv
<1>2. /\ phase = "history" /\ phase' = "clean" /\ history' = Document(store, next)
      /\ UNCHANGED <<journal, store, next, checkpoint>>
  BY DEF WriteHistory
<1>3. UndoDescribesFiles'
  BY <1>2, WrittenDescribes
<1> QED BY <1>1, <1>2, <1>3, GoesOn

\* persist() removes its journal and has committed.
LEMMA RemoveJournalKeeps ==
    ASSUME SInv, RemoveJournal, UNCHANGED <<session, op>>
    PROVE  SInv'
<1>1. IndInv' /\ IndInv
  BY RemoveJournalPreserves DEF SInv
<1> DEFINE snap == [state |-> next, doc |-> Document(store, next)]
           st == [store EXCEPT !.snap = snap]
<1>2. phase = "clean" /\ journal' = NoJournal /\ EndCall("ok", st) /\ UNCHANGED <<tables, history>>
  BY DEF RemoveJournal
<1>3. UndoDescribesFiles'
  BY <1>2 DEF SInv, UndoDescribesFiles
<1>4. op.kind \in Calls /\ phase # "idle"
  BY <1>2, CommitInCall
<1>5. store \in Store /\ next \in State /\ store.interrupted = NoJournal
  BY <1>2, <1>4, CallParts
<1>6. Document(store, next) \in Doc
  BY <1>5, DocumentType
<1>7. snap \in Snapshot /\ snap.state = next
  BY <1>5, <1>6 DEF Snapshot
<1> HIDE DEF snap
<1>8. /\ st \in Store /\ st.snap = snap /\ st.interrupted = NoJournal
      /\ st.commands = store.commands /\ st.cursor = store.cursor /\ st.blocked = store.blocked
  BY <1>5, <1>7 DEF Store
<1>9. tables' = next
  BY <1>1, <1>2, CleanFiles
<1> HIDE DEF st
<1> QED BY <1>1, <1>2, <1>3, <1>4, <1>7, <1>8, <1>9, Acknowledges

\* A failure past the journal: Save keeps an interrupted write, whose target
\* is what the Session shows.
LEMMA CommitFailsKeeps ==
    ASSUME SInv, CommitFails, UNCHANGED <<session, op>>
    PROVE  SInv'
<1>1. IndInv' /\ IndInv
  BY CommitFailsPreserves DEF SInv
<1>2. /\ phase \in {"sidecars", "history", "clean"} /\ journal' = journal
      /\ history' \in {history, Document(store, next)}
  BY DEF CommitFails
<1>3. UndoDescribesFiles'
  BY <1>2, WrittenDescribes
<1>4. op.kind \in Calls /\ op.kind \notin Builds /\ phase # "idle"
  BY <1>2, CommitInCall DEF Calls, Builds
<1>5. store \in Store /\ journal \in Journal /\ journal.after = next
  BY <1>1, <1>2, InProgress
<1>6. /\ Interrupted \in Store /\ Interrupted.snap = store.snap
      /\ Interrupted.interrupted = journal /\ Interrupted.blocked = store.blocked
      /\ Interrupted.commands = store.commands /\ Interrupted.cursor = store.cursor
  BY <1>5 DEF Interrupted, Store
<1>7. ASSUME op.kind = "save" PROVE Faithful(Interrupted, session, session.dirty)
  <2>1. /\ next = Over(store.snap.state, session) /\ Faithful(store, session, session.dirty)
        /\ store.blocked = "no" /\ store.snap.state \in State /\ session.loaded \in State
        /\ ~session.unverified => Describes(store, next)
    BY <1>4, <1>7, CallParts
  <2>2. /\ next[Annotations] = session.loaded[Annotations]
        /\ \A t \in Table : t # Annotations => next[t] = store.snap.state[t]
    BY <2>1, OverDoes
  <2>3. \A t \in Table \ session.unloaded :
            t # Annotations \/ ~session.dirty => session.loaded[t] = store.snap.state[t]
    BY <2>1 DEF Faithful, Shows
  <2>4. Shows(Interrupted, session, session.dirty)
    BY <1>5, <1>6, <2>2, <2>3 DEF Shows
  <2>5. Told(Interrupted, session, session.dirty)
    <3>1. \A rows : Describes(store, rows) => Describes(Interrupted, rows)
      BY <1>6 DEF Describes
    <3>2. ~session.unverified =>
              /\ Describes(store, Over(store.snap.state, session))
              /\ ~session.dirty => Describes(store, store.snap.state)
      BY <2>1 DEF Faithful, Told
    <3> QED BY <1>5, <1>6, <2>1, <3>1, <3>2 DEF Told
  <2> QED BY <2>4, <2>5 DEF Faithful
<1>8. PICK result : result # "ok" /\ Throw(result, Interrupted)
  BY DEF CommitFails
<1> QED BY <1>1, <1>3, <1>4, <1>6, <1>7, <1>8, Fails

\* The worker dies with its Session.
LEMMA WorkerDiesKeeps ==
    ASSUME SInv, WorkerDies
    PROVE  SInv'
<1>1. /\ EndCall("none", NoStore) /\ session' = Closed /\ op' = NoOp
      /\ UNCHANGED <<tables, history, journal, input, touched>> /\ faults' = faults + 1
  BY DEF WorkerDies, Fault, disk
<1>2. /\ GoodStore(NoStore) /\ GoodDoc(history) /\ GoodJournal(journal) /\ tables \in State
      /\ input \in Input /\ touched \in BOOLEAN /\ faults \in Nat /\ IndInv
  BY SObjects, GoodFromIndInv
<1>3. GoodDoc(history') /\ GoodJournal(journal')
  BY <1>1, <1>2 DEF GoodDoc, GoodJournal
<1>4. TypeOK' /\ CursorInBounds' /\ CallShape' /\ FilesInFlight'
  <2>1. "none" \in Reply /\ faults' \in Nat
    BY <1>1, <1>2 DEF Reply
  <2> QED BY <1>1, <1>2, <1>3, <2>1, CallEnded
<1>5. FilesConsistent'
  BY <1>1, <1>2 DEF IndInv, FilesConsistent, RecoverAllowed
<1>6. UndoDescribesFiles'
  BY <1>1, FilesStay, ClosedType
<1>7. Sound'
  BY <1>1, <1>4, <1>5, <1>6, ClosedType DEF Sound, IndInv, SessionOK, SessionType
<1>8. phase' = "idle" /\ store' = NoStore
  BY <1>1 DEF EndCall
<1> QED BY <1>1, <1>7, <1>8, Rests

\* Somebody else changes the files.
LEMMA ForeignEditKeeps ==
    ASSUME SInv, ForeignEdit
    PROVE  SInv'
<1>1. Foreign /\ op = NoOp /\ op' = NoOp /\ UNCHANGED session
  BY DEF ForeignEdit
<1>2. IndInv'
  BY <1>1, ForeignPreserves DEF SInv
<1>3. /\ phase = "idle" /\ phase' = "idle" /\ store' = store
      /\ history' \in {history, NoDoc} /\ journal' \in {journal, NoJournal}
  BY <1>1 DEF Foreign, disk, call
<1>4. UndoDescribesFiles'
  BY <1>1, <1>3 DEF SInv, UndoDescribesFiles
<1>5. Sound'
  BY <1>1, <1>2, <1>4 DEF Sound, SInv, SessionOK
<1>6. session.open \/ store = NoStore
  BY <1>1 DEF SInv, Underway
<1>7. store # NoStore => Faithful(store, session, session.dirty)
  BY <1>1 DEF SInv, Resting
<1> QED BY <1>1, <1>3, <1>5, <1>6, <1>7, Rests

-----------------------------------------------------------------------------
(* Every step.                                                             *)

\* The requests of a client keep the invariant.
LEMMA OperationKeeps ==
    ASSUME SInv, Operation, Eager = {}
    PROVE  SInv'
<1>1. CASE \E ro \in BOOLEAN : OpenSession(ro)
  BY <1>1, OpenSessionKeeps
<1>2. CASE BuildHistory
  BY <1>2, BuildHistoryKeeps
<1>3. CASE Reload
  BY <1>3, ReloadKeeps
<1>4. CASE CloseSession
  BY <1>4, CloseSessionKeeps
<1>5. CASE \E k \in Key, v \in Value : AnnotationSet(k, v)
  BY <1>5, AnnotationSetKeeps
<1>6. CASE \E t \in Table \ {Annotations}, k \in Key, v \in Value : Rename(t, k, v)
  BY <1>6, RenameKeeps
<1>7. CASE \E redo \in BOOLEAN : ReplayAnnotation(redo) \/ ReplayEdit(redo)
  BY <1>7, ReplayAnnotationKeeps, ReplayEditKeeps
<1>8. CASE SaveAnnotations
  BY <1>8, SaveAnnotationsKeeps
<1>9. CASE HistoryReset
  BY <1>9, HistoryResetKeeps
<1>10. CASE ProjectSync
  BY <1>10, ProjectSyncKeeps
<1>11. \/ \E ro \in BOOLEAN : OpenSession(ro)
       \/ BuildHistory \/ Reload \/ CloseSession
       \/ \E k \in Key, v \in Value : AnnotationSet(k, v)
       \/ \E t \in Table \ {Annotations}, k \in Key, v \in Value : Rename(t, k, v)
       \/ \E redo \in BOOLEAN : ReplayAnnotation(redo) \/ ReplayEdit(redo)
       \/ SaveAnnotations \/ HistoryReset \/ ProjectSync
  BY Zenon DEF Operation
<1> QED BY <1>1, <1>2, <1>3, <1>4, <1>5, <1>6, <1>7, <1>8, <1>9, <1>10, <1>11

\* So does what an operation does after its call.
LEMMA ContinueKeeps ==
    ASSUME SInv, Continue
    PROVE  SInv'
BY OpenRecoverKeeps, AfterBuildKeeps, OpenLoadKeeps, OperationFailsKeeps, EditSucceedsKeeps,
   SaveSucceedsKeeps, ReloadSucceedsKeeps, SyncReloadKeeps, SyncStageKeeps, SyncDoneKeeps
DEF Continue

\* And the history inside it.
LEMMA HistoryStepKeeps ==
    ASSUME SInv, HistoryStep
    PROVE  SInv'
<1>1. UNCHANGED <<session, op>> /\ (Progress \/ Failure)
  BY DEF HistoryStep
<1>2. CASE Progress
  BY <1>1, <1>2, RecoverTableKeeps, RecoverHistoryKeeps, RecoverCleanKeeps, LoadKeeps,
     CheckStopsKeep, PublishJournalKeeps, WriteSidecarKeeps, WriteHistoryKeeps,
     RemoveJournalKeeps
  DEF Progress
<1>3. CASE Failure
  BY <1>1, <1>3, RecoverFailsKeeps, CheckStopsKeep, PublishFailsKeeps, CommitFailsKeeps
  DEF Failure
<1> QED BY <1>1, <1>2, <1>3

\* A step that changes nothing keeps the invariant.
LEMMA StutterKeeps ==
    ASSUME SInv, UNCHANGED svars
    PROVE  SInv'
<1>1. UNCHANGED vars /\ UNCHANGED <<session, op>>
  BY DEF svars
<1>2. IndInv'
  BY <1>1, StutterPreserves DEF SInv
<1>3. /\ UNCHANGED <<tables, history, journal, input, store, phase, next, checkpoint, reply>>
  BY <1>1 DEF vars
<1>4. UndoDescribesFiles' /\ SessionOK' /\ Underway'
  BY <1>1, <1>3, FilesStay DEF SInv, SessionOK, Underway
<1>5. OpOK'
  BY <1>1, <1>3 DEF SInv, OpOK, SyncOp
<1>6. Resting' /\ Committing'
  BY <1>1, <1>3 DEF SInv, Resting, Committing
<1>7. Building' /\ Answered'
  BY <1>1, <1>3 DEF SInv, Building, Answered, Fresh
<1>8. Syncing'
  <2>1. \A k : StagedBefore(k)' <=> StagedBefore(k)
    BY <1>1 DEF StagedBefore
  <2> QED BY <1>1, <1>3, <2>1 DEF SInv, Syncing
<1> QED BY <1>2, <1>4, <1>5, <1>6, <1>7, <1>8 DEF SInv

\* A project without edits satisfies the invariant.
LEMMA InitSInv == SessionInit => SInv
<1> SUFFICES ASSUME SessionInit PROVE SInv
  OBVIOUS
<1>1. IndInv
  BY InitIndInv DEF SessionInit
<1>2. /\ history = NoDoc /\ journal = NoJournal /\ input \in Input /\ store = NoStore
      /\ phase = "idle" /\ session = NewSession(FALSE) /\ op = NoOp
  BY DEF SessionInit, Init
<1>3. UndoDescribesFiles
  BY <1>2 DEF UndoDescribesFiles
<1>4. SessionOK
  BY <1>2, EmptyIsState DEF SessionOK, NewSession
<1>5. op.kind = "none"
  BY <1>2 DEF NoOp
<1>6. OpOK /\ Underway
  BY <1>2, <1>5 DEF OpOK, Underway, Calls, Builds
<1>7. Resting /\ Building /\ Committing /\ Answered /\ Syncing
  BY <1>2, <1>5 DEF Resting, Building, Committing, Answered, Syncing, Calls, Builds
<1> QED BY <1>1, <1>3, <1>4, <1>6, <1>7 DEF SInv

\* Every step preserves the invariant.
LEMMA NextSInv ==
    ASSUME Eager = {}, SInv, [SessionNext]_svars
    PROVE  SInv'
BY OperationKeeps, ContinueKeeps, HistoryStepKeeps, WorkerDiesKeeps, ForeignEditKeeps, StutterKeeps
DEF SessionNext

-----------------------------------------------------------------------------
(* The theorems.  They are about edits that commit before they change the  *)
(* Session: the others commit what the Session holds, so that one command  *)
(* may change many rows, where EditSession's commands change one.          *)

\* The invariant behind the other theorems: what a history in memory, a
\* checkpoint, the document and a pending journal describe, through every
\* operation, failed call, recovery, crash and foreign edit.
THEOREM SessionInvariant ==
    ASSUME Eager = {}
    PROVE  SessionSpec => []SInv
<1>1. SInv /\ [SessionNext]_svars => SInv'
  BY NextSInv
<1> QED BY <1>1, InitSInv, PTL DEF SessionSpec

\* The Session and the history keep their types, and a closed Session has no
\* history.
THEOREM SessionTypeCorrect ==
    ASSUME Eager = {}
    PROVE  SessionSpec => []SessionTypeOK
<1>1. SInv => SessionTypeOK
  BY DEF SInv, IndInv, SessionOK, Underway, SessionTypeOK
<1> QED BY <1>1, SessionInvariant, PTL

\* undo and redo never show a row that was never there: the commands in memory
\* describe the rows the Session shows, after any mixture of staged edits,
\* commits, undos, restored checkpoints, recoveries, syncs and failing loads.
THEOREM UndoSessionCorrect ==
    ASSUME Eager = {}
    PROVE  SessionSpec => []UndoDescribesSession
<1>1. SInv => UndoDescribesSession
  BY DEF SInv, UndoDescribesSession, Settled, Resting, Faithful, Told, Describes, Over
<1> QED BY <1>1, SessionInvariant, PTL

\* So do the commands a reopened project will load: the document's, and those
\* a pending journal will install.
THEOREM UndoFilesCorrect ==
    ASSUME Eager = {}
    PROVE  SessionSpec => []UndoDescribesFiles
<1>1. SInv => UndoDescribesFiles
  BY DEF SInv
<1> QED BY <1>1, SessionInvariant, PTL

\* dirty_ tells the truth: a Session that reports nothing to save shows, in
\* every table whose last load did not fail, the rows its history committed.
THEOREM CleanSessionCorrect ==
    ASSUME Eager = {}
    PROVE  SessionSpec => []CleanSessionIsCommitted
<1>1. SInv => CleanSessionIsCommitted
  BY DEF SInv, CleanSessionIsCommitted, Settled, Resting, Faithful, Shows
<1> QED BY <1>1, SessionInvariant, PTL

\* The steps that end project_sync and leave the Session open.
LEMMA SyncEnds ==
    ASSUME SInv, [SessionNext]_svars, Eager = {},
           op.kind = "sync_stage" \/ (op.kind = "sync" /\ reply # "ok"), op' = NoOp, session'.open
    PROVE  OperationFails \/ SyncDone
<1>1. op # NoOp /\ op' # op
  BY DEF NoOp
<1>2. ~UNCHANGED svars /\ ~HistoryStep /\ ~ForeignEdit
  BY <1>1 DEF svars, HistoryStep, ForeignEdit
<1>3. ~WorkerDies
  BY DEF WorkerDies, Closed, NewSession
<1>4. ~Operation
  BY <1>1 DEF Operation, OpenSession, BuildHistory, Reload, CloseSession, AnnotationSet, Rename,
              ItemDefine, ItemDefineRefused, ReplayAnnotation, ReplayEdit, SaveAnnotations,
              HistoryReset, ProjectSync, HistoryReady, Writer, Free
<1>5. ~OpenRecover /\ ~AfterBuild /\ ~OpenLoad /\ ~EditSucceeds /\ ~SaveSucceeds /\ ~ReloadSucceeds
  BY DEF OpenRecover, AfterBuild, OpenLoad, EditSucceeds, SaveSucceeds, ReloadSucceeds, Ended
<1>6. ~SyncReload
  BY DEF SyncReload, Ended
<1>7. ~SyncStage
  <2> SUFFICES ASSUME SyncStage PROVE FALSE
    OBVIOUS
  <2>1. op.kind = "sync_stage"
    BY DEF SyncStage, Ended
  <2>2. op = SyncOp("sync_stage")
    BY <2>1 DEF SInv, OpOK, NoOp
  <2>3. \E notes : op' = [op EXCEPT !.notes = notes] \/ op' = [op EXCEPT !.notes = notes, !.kept = TRUE]
    BY DEF SyncStage
  <2>4. op'.kind = "sync_stage"
    <3> DEFINE yes == TRUE
    <3>1. PICK notes : op' = [op EXCEPT !.notes = notes]
                       \/ op' = [op EXCEPT !.notes = notes, !.kept = yes]
      BY <2>3
    <3> HIDE DEF yes
    <3>2. CASE op' = [op EXCEPT !.notes = notes]
      <4>1. op' = SyncRecord("sync_stage", notes, op.kept, op.was, op.committed)
        BY <2>2, <3>2, SyncOpNotes
      <4> QED BY <4>1 DEF SyncRecord
    <3>3. CASE op' = [op EXCEPT !.notes = notes, !.kept = yes]
      BY <2>2, <3>3, SyncOpStays
    <3> QED BY <3>1, <3>2, <3>3
  <2> QED BY <2>4 DEF NoOp
<1> QED BY <1>2, <1>3, <1>4, <1>5, <1>6, <1>7 DEF SessionNext, Continue

\* project_sync keeps the comments that were staged, on top of the files it
\* takes, and reports them unsaved: when it succeeds, and when its call of the
\* history fails.  Other loads may fail, before it and during it.
THEOREM SyncKeepsNotesHolds ==
    ASSUME Eager = {}
    PROVE  SessionSpec => SyncKeepsNotes
<1>1. ASSUME SInv, [SessionNext]_svars, op.kind = "sync_stage" \/ (op.kind = "sync" /\ reply # "ok"),
             op' = NoOp,
             session'.open, NEW k \in Key, StagedBefore(k)
      PROVE  /\ session'.loaded[Annotations][k] = op.was.loaded[Annotations][k]
             /\ session'.loaded[Annotations][k] # store'.snap.state[Annotations][k]
                   => session'.dirty
  <2>1. OperationFails \/ SyncDone
    BY <1>1, SyncEnds
  <2>2. CASE OperationFails
    <3>1. op.kind = "sync" /\ op.kind # "item_define"
      BY <1>1, <2>2 DEF OperationFails, Ended
    <3>2. session' = session
      BY <2>2, <3>1 DEF OperationFails, Local
    <3>3. op.was = session
      BY <1>1, <3>1 DEF SInv, Syncing
    <3> QED BY <1>1, <3>2, <3>3 DEF StagedBefore
  <2>3. CASE SyncDone
    <3>1. /\ op.kind = "sync_stage" /\ op.notes = {} /\ store' = store
          /\ session' = [session EXCEPT !.dirty = op.kept]
      BY <2>3 DEF SyncDone, Ended, Local
    <3>2. /\ op.kept \in BOOLEAN /\ store.blocked = "no"
          /\ session.unloaded = {} /\ Faithful(store, session, op.kept)
          /\ session.loaded[Annotations][k] = op.was.loaded[Annotations][k]
      BY <1>1, <3>1, SyncingParts
    <3>3. session'.loaded = session.loaded /\ session'.dirty = op.kept
      BY <1>1, <3>1, SObjects DEF SessionType
    <3>4. ~op.kept => session.loaded[Annotations] = store.snap.state[Annotations]
      BY <3>2, Shapes DEF Faithful, Shows
    <3> QED BY <3>1, <3>2, <3>3, <3>4
  <2> QED BY <2>1, <2>2, <2>3
<1>2. SInv /\ [SessionNext]_svars =>
          [(/\ op.kind = "sync_stage" \/ (op.kind = "sync" /\ reply # "ok")
            /\ op' = NoOp /\ session'.open) =>
              \A k \in Key : StagedBefore(k) =>
                  /\ session'.loaded[Annotations][k] = op.was.loaded[Annotations][k]
                  /\ session'.loaded[Annotations][k] # store'.snap.state[Annotations][k]
                        => session'.dirty]_svars
  BY <1>1
<1> QED BY <1>2, SessionInvariant, PTL DEF SessionSpec, SyncKeepsNotes

=============================================================================
