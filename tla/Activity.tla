------------------------------ MODULE Activity ------------------------------
(***************************************************************************)
(* The activity feed of one task, project or section.                      *)
(*                                                                         *)
(* Handlers change the row and write one event per change, but for the     *)
(* rebalance that another row's handler may make of this one's position.   *)
(* The relay and the consumer each deliver the events to the feed's        *)
(* listener, in any order, as often as they like and both at once; the     *)
(* listener looks the subject up and appends one activity per event; and a *)
(* reader walks through the feed page by page meanwhile.                   *)
(*                                                                         *)
(* The emitter logs what a listener throws and goes on: the event counts   *)
(* as delivered.  And a listener runs outside of any request, so it reads  *)
(* through the entity manager its process keeps for as long as it lives: a *)
(* task or a section found once by its id is found again as it was then.   *)
(*                                                                         *)
(* A handler reads the row and later saves it: the save updates the        *)
(* columns that differ from what it read, always touches updated_at and so *)
(* holds the row until the transaction ends.  The event gets its time      *)
(* after the save.  The rules that need other rows, a task's live project  *)
(* or a section's tasks, are Board's.                                      *)
(***************************************************************************)
EXTENDS Integers, FiniteSets, FiniteSetsExt, Sequences, Functions

CONSTANTS
  Requests,   \* handlers that run at the same time
  Paths,      \* the ways an event reaches the listener
  Values,     \* the values of a column
  NoValue,    \* a column that is null
  Scenes,     \* sets of operations that are watched together
  Firsts,     \* page sizes a reader may ask for
  Long,       \* bound: the scenes of MaxCommits commits
  MaxCommits, \* bound: commits of a long scene
  MaxShort,   \* bound: commits of the others
  MaxNow      \* bound: times

Operations ==
  [task    |-> {"createTask", "updateTask", "assignTask", "unassignTask", "changeTaskPriority",
                "setTaskDueDate", "completeTask", "reopenTask", "moveTask", "reorderTask",
                "deleteTask", "rebalanceTasks"},
   project |-> {"createProject", "updateProject", "updateProjectHealth", "updateProjectDates",
                "archiveProject", "restoreProject", "deleteProject", "transferOwnership"},
   section |-> {"createSection", "renameSection", "reorderSection", "deleteSection",
                "restoreSection", "rebalanceSections"}]

Subjects == DOMAIN Operations

ASSUME ActivityAssumption ==
  /\ \A s \in Scenes : \E x \in Subjects : s \ {"listActivity"} \subseteq Operations[x]
  /\ NoValue \notin Values /\ Firsts \subseteq Int
  /\ MaxShort \in 0..MaxCommits /\ MaxCommits \in Nat /\ MaxNow \in Nat

(* Reading the feed is watched in the scenes that name it; there, as a     *)
(* bound, one handler and one listener are at work at a time.              *)
List == "listActivity"

VARIABLES
  scene,      \* the operations watched
  row,        \* the committed row
  txn,        \* what each handler has read, and wants to write
  now,        \* the time
  rebalanced, \* history: the version of the last save without an event
  events,     \* the events of committed handlers, in the order of their commits
  held,       \* the subject as each path's process holds it
  work,       \* what the listener has found on each path
  heard,      \* history: the events a listener has taken in, or had refused
  feed,       \* the table activities
  reader      \* the walk through the feed

rows      == <<row, txn, now, rebalanced, events>>
listeners == <<held, work, heard, feed>>
vars      == <<scene, rows, listeners, reader>>

Subject == CHOOSE x \in Subjects : scene \ {List} \subseteq Operations[x]

(* A new row: the columns of the three tables that some event reports.  A  *)
(* task is closed when completed, a project when archived, a section when  *)
(* deleted; life is deleted_at, and version counts the saves.              *)
Created(v) ==
  [life |-> "LIVE", status |-> "OPEN", name |-> v, about |-> v, owner |-> v, level |-> v,
   message |-> v, date |-> NoValue, place |-> v, position |-> v, version |-> 0]

Absent(v) == [Created(v) EXCEPT !.life = "ABSENT"]

Live(r)   == r.life = "LIVE"
Active(r) == Live(r) /\ r.status = "OPEN"
-----------------------------------------------------------------------------
(* What an operation makes of the row it read.  Deleted rows are not found,*)
(* sections excepted, and an operation that changes nothing has no event.  *)

Both(r, c, v, d, w) == [r EXCEPT ![c] = v, ![d] = w]

CreateTask(r)         == {Created(v) : v \in Values}
UpdateTask(r)         == {Both(r, "name", n, "about", d) : n, d \in Values}
AssignTask(r)         == {[r EXCEPT !.owner = v] : v \in Values}
UnassignTask(r)       == {[r EXCEPT !.owner = NoValue]}
ChangeTaskPriority(r) == {[r EXCEPT !.level = v] : v \in Values}
SetTaskDueDate(r)     == {[r EXCEPT !.date = v] : v \in Values \cup {NoValue}}

CompleteTask(r)       == {[r EXCEPT !.status = "CLOSED"]}
ReopenTask(r)         == {[r EXCEPT !.status = "OPEN"]}
MoveTask(r)           == {Both(r, "place", s, "position", v) : s, v \in Values}
ReorderTask(r)        == {[r EXCEPT !.position = v] : v \in Values}
DeleteTask(r)         == {[r EXCEPT !.life = "DELETED"]}
RebalanceTasks(r)     == {[r EXCEPT !.position = v] : v \in Values}

CreateProject(r) == {Created(v) : v \in Values}
UpdateProject(r) ==
  {x \in {Both(r, "name", n, "about", d) : n, d \in Values} : Active(r)}
UpdateProjectHealth(r) ==
  {x \in {Both(r, "level", h, "message", m) : h, m \in Values} : Active(r)}
UpdateProjectDates(r) ==
  {x \in {[r EXCEPT !.date = v] : v \in Values \cup {NoValue}} : Active(r)}
ArchiveProject(r)    == {[r EXCEPT !.status = "CLOSED"]}
RestoreProject(r)    == {[r EXCEPT !.status = "OPEN"]}

DeleteProject(r)     == {[r EXCEPT !.life = "DELETED"]}
TransferOwnership(r) == {x \in {[r EXCEPT !.owner = v] : v \in Values} : Active(r)}

CreateSection(r)  == {Created(v) : v \in Values}
RenameSection(r)  == {x \in {[r EXCEPT !.name = n] : n \in Values} : Active(r)}
ReorderSection(r) == {x \in {[r EXCEPT !.position = v] : v \in Values} : Active(r)}
DeleteSection(r)  == {x \in {[r EXCEPT !.status = "CLOSED"]} : Active(r)}
RestoreSection(r) ==
  {x \in {Both(r, "status", "OPEN", "position", v) : v \in Values} : r.status = "CLOSED"}
RebalanceSections(r) == {x \in {[r EXCEPT !.position = v] : v \in Values} : Active(r)}

Outcomes(op, r) ==
  CASE op = "createTask" -> CreateTask(r)
    [] op = "createProject" -> CreateProject(r)
    [] op = "createSection" -> CreateSection(r)
    [] op = "updateTask" -> UpdateTask(r)
    [] op = "assignTask" -> AssignTask(r)
    [] op = "unassignTask" -> UnassignTask(r)
    [] op = "changeTaskPriority" -> ChangeTaskPriority(r)
    [] op = "setTaskDueDate" -> SetTaskDueDate(r)
    [] op = "completeTask" -> CompleteTask(r)
    [] op = "reopenTask" -> ReopenTask(r)
    [] op = "moveTask" -> MoveTask(r)
    [] op = "reorderTask" -> ReorderTask(r)
    [] op = "deleteTask" -> DeleteTask(r)
    [] op = "rebalanceTasks" -> RebalanceTasks(r)
    [] op = "updateProject" -> UpdateProject(r)
    [] op = "updateProjectHealth" -> UpdateProjectHealth(r)
    [] op = "updateProjectDates" -> UpdateProjectDates(r)
    [] op = "archiveProject" -> ArchiveProject(r)
    [] op = "restoreProject" -> RestoreProject(r)
    [] op = "deleteProject" -> DeleteProject(r)
    [] op = "transferOwnership" -> TransferOwnership(r)
    [] op = "renameSection" -> RenameSection(r)
    [] op = "reorderSection" -> ReorderSection(r)
    [] op = "deleteSection" -> DeleteSection(r)
    [] op = "restoreSection" -> RestoreSection(r)
    [] op = "rebalanceSections" -> RebalanceSections(r)
    [] OTHER -> {}

Creations == {"createTask", "createProject", "createSection"}

(* A rebalance drops the events of the rows it moves.                      *)
Silent == {"rebalanceTasks", "rebalanceSections"}

NoTxn    == [phase |-> "none"]
NoWork   == [event |-> 0]
NoCopy   == [version |-> -1, from |-> 0]
NoCursor == <<>>
NoReader == [cursor |-> NoCursor, atStart |-> {}, shown |-> {}, twice |-> {}, ended |-> FALSE]

Init ==
  /\ scene \in Scenes
  /\ \E v \in Values :
       row = IF scene \cap Creations = {} THEN Created(v) ELSE Absent(v)
  /\ txn = [t \in Requests |-> NoTxn]
  /\ now = 0
  /\ rebalanced = 0
  /\ events = <<>>
  /\ held = [p \in Paths |-> NoCopy]
  /\ work = [p \in Paths |-> NoWork]
  /\ heard = {}
  /\ feed = {}
  /\ reader = NoReader
-----------------------------------------------------------------------------
(* The handlers.                                                           *)

Writing == {t \in Requests : txn[t] # NoTxn}
Alone(busy) == List \in scene => busy = {}

Read(t, op) ==
  /\ txn[t] = NoTxn
  /\ IF op \in Creations THEN row.life = "ABSENT" /\ Writing = {} ELSE Live(row)
  /\ Alone(Writing)
  /\ row.version + Cardinality(Writing) < IF scene \in Long THEN MaxCommits ELSE MaxShort
  /\ \E new \in Outcomes(op, row) \ {row} :
       txn' = [txn EXCEPT ![t] = [phase |-> "read", op |-> op, seen |-> row, new |-> new]]
  /\ UNCHANGED <<scene, row, now, rebalanced, events, listeners, reader>>

(* The update of the columns that changed.                                 *)
Merge(stored, seen, new) ==
  [c \in DOMAIN stored |-> IF new[c] = seen[c] THEN stored[c] ELSE new[c]]

(* Mutant: the event is stored outside of the transaction. *)
MutantSave(t, at) ==
  LET x == txn[t] IN
  /\ x.phase = "read"
  /\ \A u \in Requests : txn[u].phase # "saved"
  /\ at = now
  /\ txn' = [txn EXCEPT ![t] =
       [phase |-> "saved", op |-> x.op, new |-> Merge(row, x.seen, x.new), said |-> x.new,
        at |-> at, stale |-> FALSE]]
  /\ x.op \notin Silent
  /\ events' = Append(events, [op |-> x.op, said |-> x.new, at |-> at, stale |-> FALSE,
                               version |-> row.version + 1])
  /\ UNCHANGED <<scene, row, now, rebalanced, listeners, reader>>

(* The save takes the row's lock; then the dispatcher stores the event,    *)
(* with the time it is by then.                                            *)
Save(t, at) ==
  LET x == txn[t] IN
  /\ x.phase = "read"
  /\ \A u \in Requests : txn[u].phase # "saved"
  /\ at \in {now, now + 1} /\ at <= MaxNow
  /\ now' = at
  /\ txn' = [txn EXCEPT ![t] =
       [phase |-> "saved", op |-> x.op, new |-> Merge(row, x.seen, x.new), said |-> x.new,
        at |-> at, stale |-> x.seen.version # row.version]]
  /\ UNCHANGED <<scene, row, rebalanced, events, listeners, reader>>

Commit(t) ==
  LET x == txn[t]
      v == row.version + 1
      e == [op |-> x.op, said |-> x.said, at |-> x.at, stale |-> x.stale, version |-> v]
  IN
  /\ x.phase = "saved"
  /\ row' = [x.new EXCEPT !.version = v]
  /\ events' = IF x.op \in Silent THEN events ELSE Append(events, e)
  /\ rebalanced' = IF x.op \in Silent THEN v ELSE rebalanced
  /\ txn' = [txn EXCEPT ![t] = NoTxn]
  /\ UNCHANGED <<scene, now, listeners, reader>>

Abort(t) ==
  /\ txn[t] # NoTxn
  /\ txn' = [txn EXCEPT ![t] = NoTxn]
  /\ UNCHANGED <<scene, row, now, rebalanced, events, listeners, reader>>

Handle(t) ==
  \/ \E op \in scene : Read(t, op)
  \/ \E at \in 0..MaxNow : Save(t, at)
  \/ Commit(t)
  \/ Abort(t)
-----------------------------------------------------------------------------
(* The listeners.                                                          *)

Known == {a.event : a \in feed}

(* The columns the three listeners report with the value the event carries;*)
(* what else they report is read from the row when the event arrives.      *)
TaskReports ==
  [assignTask |-> {"owner"}, unassignTask |-> {"owner"}, changeTaskPriority |-> {"level"},
   setTaskDueDate |-> {"date"}, completeTask |-> {"status"}, reopenTask |-> {"status"},
   moveTask |-> {"place", "position"}, reorderTask |-> {"position"}]

ProjectReports ==
  [updateProjectHealth |-> {"level"}, archiveProject |-> {"status"},
   restoreProject |-> {"status"}, transferOwnership |-> {"owner"}]

SectionReports ==
  [reorderSection |-> {"position"}, deleteSection |-> {"status"}, restoreSection |-> {"status"}]

Reports ==
  CASE Subject = "task" -> TaskReports
    [] Subject = "project" -> ProjectReports
    [] Subject = "section" -> SectionReports

Reported(e) == IF events[e].op \in DOMAIN Reports THEN Reports[events[e].op] ELSE {}

(* A task or a section is found by its id, deleted or not: the copy the    *)
(* process holds, or else the row, which it holds from then on.  A project *)
(* is looked for among those not deleted, which asks the database.         *)
FoundById(p, e) == IF held[p] # NoCopy THEN held[p] ELSE [version |-> row.version, from |-> e]

TaskShown(p, e)    == FoundById(p, e)
SectionShown(p, e) == FoundById(p, e)
ProjectShown(p, e) == [version |-> IF Live(row) THEN row.version ELSE 0, from |-> e]

Shown(p, e) ==
  CASE Subject = "task" -> TaskShown(p, e)
    [] Subject = "project" -> ProjectShown(p, e)
    [] Subject = "section" -> SectionShown(p, e)

(* The listener reads the subject for the metadata, then looks for an      *)
(* activity of the event, which may have come before.                      *)
FindByEventId(p, e) ==
  /\ work[p] = NoWork /\ Alone({q \in Paths : work[q] # NoWork})
  /\ work' = [work EXCEPT ![p] = [event |-> e, found |-> e \in Known, shown |-> Shown(p, e)]]
  /\ held' = [held EXCEPT ![p] = IF Subject = "project" THEN @ ELSE Shown(p, e)]
  /\ UNCHANGED <<scene, rows, heard, feed, reader>>

(* A task's event has its listener look up the section's name.             *)
SectionName(p) ==
  /\ Subject = "section" /\ row.life # "ABSENT"
  /\ held[p] = NoCopy
  /\ held' = [held EXCEPT ![p] = FoundById(p, 0)]
  /\ UNCHANGED <<scene, rows, work, heard, feed, reader>>

(* Mutant: the time of the append is the activity's. *)
MutantAppendTime(e) == Cardinality(feed)

(* The envelope's time comes with the event on both paths.                 *)
OccurredAt(e) == events[e].at

NewActivity(id, w) ==
  [id |-> id, event |-> w.event, at |-> OccurredAt(w.event), shown |-> w.shown,
   said |-> [c \in Reported(w.event) |-> events[w.event].said[c]]]

(* The listener returns to the emitter.                                    *)
Return(p) ==
  /\ heard' = heard \cup {work[p].event}
  /\ work' = [work EXCEPT ![p] = NoWork]

(* Mutant: nothing makes the event id unique. *)
MutantAppend(p) ==
  LET w == work[p] IN
  /\ w # NoWork /\ ~w.found
  /\ \E id \in 1..MaxCommits :
       /\ \A a \in feed : a.id # id
       /\ feed' = feed \cup {NewActivity(id, w)}
  /\ Return(p)
  /\ UNCHANGED <<scene, rows, held, reader>>

(* Ids are random.                                                         *)
AppendActivity(p) ==
  LET w == work[p] IN
  /\ w # NoWork /\ ~w.found /\ w.event \notin Known
  /\ \E id \in 1..MaxCommits :
       /\ \A a \in feed : a.id # id
       /\ feed' = feed \cup {NewActivity(id, w)}
  /\ Return(p)
  /\ UNCHANGED <<scene, rows, held, reader>>

AlreadyAppended(p) ==
  /\ work[p] # NoWork /\ work[p].found
  /\ Return(p)
  /\ UNCHANGED <<scene, rows, held, feed, reader>>

(* The unique event id refuses the second activity.  The error is thrown   *)
(* on and the emitter forgets it, and there is nothing left to do.         *)
AppendRefused(p) ==
  /\ work[p] # NoWork /\ ~work[p].found /\ work[p].event \in Known
  /\ Return(p)
  /\ UNCHANGED <<scene, rows, held, feed, reader>>

(* Any other error of a look-up or of the append, which writes nothing.    *)
(* The emitter forgets it too: the event counts as delivered.              *)
ListenerFails(p) ==
  /\ work[p] # NoWork
  /\ work' = [work EXCEPT ![p] = NoWork]
  /\ UNCHANGED <<scene, rows, held, heard, feed, reader>>

Listen(p) ==
  \/ \E e \in DOMAIN events : FindByEventId(p, e)
  \/ SectionName(p)
  \/ AppendActivity(p)
  \/ AlreadyAppended(p)
  \/ AppendRefused(p)
  \/ ListenerFails(p)

(* A process stops at any time and starts again with nothing in hand.      *)
Restart(p) ==
  /\ work' = [work EXCEPT ![p] = NoWork]
  /\ held' = [held EXCEPT ![p] = NoCopy]
  /\ UNCHANGED <<scene, rows, heard, feed, reader>>
-----------------------------------------------------------------------------
(* The feed, newest first.                                                 *)

Key(a) == <<a.at, a.id>>

Below(k, m) == k[1] < m[1] \/ (k[1] = m[1] /\ k[2] < m[2])

NormalizeFirst(first) == Min({Max({first, 1}), 100})

(* Mutant: a page starts with the row of the cursor. *)
MutantAfter(cursor) == {a \in feed : cursor # NoCursor => ~Below(cursor, Key(a))}

After(cursor) == {a \in feed : cursor # NoCursor => Below(Key(a), cursor)}

Page(found, size) ==
  {a \in found : Cardinality({b \in found : Below(Key(a), Key(b))}) < size}

(* Listing needs a task, or a project, that is not deleted.                *)
ListActivity(first) ==
  LET found == After(reader.cursor)
      page == Page(found, NormalizeFirst(first))
      hasNext == found # page
      least == CHOOSE a \in page : \A b \in page : ~Below(Key(b), Key(a))
  IN
  /\ List \in scene
  /\ ~reader.ended
  /\ Subject # "section" => Live(row)
  /\ reader' =
       [cursor |-> IF page = {} THEN NoCursor ELSE Key(least),
        atStart |-> IF reader.cursor = NoCursor THEN feed ELSE reader.atStart,
        shown |-> reader.shown \cup page,
        twice |-> reader.twice \cup (reader.shown \cap page),
        ended |-> ~hasNext]
  /\ UNCHANGED <<scene, rows, listeners>>

Next ==
  \/ \E t \in Requests : Handle(t)
  \/ \E p \in Paths : Listen(p) \/ Restart(p)
  \/ \E first \in Firsts : ListActivity(first)

Spec == Init /\ [][Next]_vars
-----------------------------------------------------------------------------
(* No event has two activities, and one a listener has taken in has one:   *)
(* though both paths may look for it at the same time and the one refused  *)
(* forget its error.  An event whose listener failed otherwise counts as   *)
(* delivered too, and may be missing from the feed.                        *)
DeliveredAppearsOnce ==
  /\ \A a, b \in feed : a.event = b.event => a = b
  /\ heard \subseteq Known

(* Every operation that writes one of these columns reports it, rebalances *)
(* apart; a restored section moves without saying where.                   *)
Told ==
  {"status", "owner", "level", "place"}
    \cup (IF Subject = "task" THEN {"date", "position"} ELSE {})

(* An event of two columns reports both, and its save wrote those it had   *)
(* not read so.                                                            *)
Unsure(e) == events[e].stale /\ events[e].op \in {"moveTask", "updateProjectHealth"}

(* A rebalance has moved the row since the event.                          *)
Rewritten(c, e) == c = "position" /\ events[e].version < rebalanced

(* When every event of a column has its activity, the feed's newest one    *)
(* says what the row says, in whatever order they were delivered: the row  *)
(* is locked while the time is taken.  Two at the same time are in no      *)
(* order, a move or a health report made on an old read may name a value   *)
(* it did not write, and a position holds until the next rebalance.        *)
FeedTellsTheRow ==
  \A c \in Told :
    LET E == {e \in DOMAIN events : c \in Reported(e)}
        A == {a \in feed : a.event \in E}
    IN E \subseteq Known =>
         \A a \in A : /\ \A b \in A \ {a} : b.at < a.at
                      /\ ~Unsure(a.event) /\ ~Rewritten(c, a.event)
                      => a.said[c] = row[c]

(* What an activity shows of its subject is never older than the event     *)
(* that had its process read it: the activity's own, or an earlier one of  *)
(* the process's life, for then the activity may be older than its event.  *)
(* A section may have been read for a task's event, which says nothing of  *)
(* its age, and a project deleted meanwhile shows nothing.                 *)
ShowsTheChange ==
  \A a \in feed :
    a.shown.from # 0 =>
      \/ a.shown.version >= events[a.shown.from].version
      \/ Subject = "project" /\ a.shown.version = 0

(* The pages of a walk show no activity twice, and a walk that has ended   *)
(* has shown every activity there was when it began, whatever is appended  *)
(* on either side of its cursor.                                           *)
PagesCoverTheFeed ==
  /\ reader.twice = {}
  /\ reader.ended => reader.atStart \subseteq reader.shown
=============================================================================
