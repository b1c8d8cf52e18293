--------------------------- MODULE ActivityProofs ---------------------------
(***************************************************************************)
(* Proofs about the activity feed, for any number of handlers, delivery    *)
(* paths, values and events, and every set of operations watched together. *)
(*                                                                         *)
(* That the feed tells the row rests on what the row's lock orders: one    *)
(* handler at a time has saved, so the times of the events never decrease  *)
(* (Clock), and the column an event reports is the column its save wrote   *)
(* (Intends, Holds).  Hence the last event of a column names the row's     *)
(* value (LastEventTells), and the activity with the greatest time is that *)
(* event's.  That the pages cover the feed rests on the cursor alone:      *)
(* nothing shown is below it, and what was there at the start and is not   *)
(* below it has been shown (Walk).                                         *)
(***************************************************************************)
EXTENDS Activity, FiniteSetTheorems, WellFoundedInduction, TLAPS

Ops ==
  {"createTask", "createProject", "createSection", "updateTask", "assignTask", "unassignTask",
   "changeTaskPriority", "setTaskDueDate", "completeTask", "reopenTask", "moveTask",
   "reorderTask", "deleteTask", "updateProject", "updateProjectHealth", "updateProjectDates",
   "archiveProject", "restoreProject", "deleteProject", "transferOwnership", "renameSection",
   "reorderSection", "deleteSection", "restoreSection", "rebalanceTasks",
   "rebalanceSections", List}

Pairs == {"moveTask", "updateProjectHealth"}

Columns == {"life", "status", "name", "about", "owner", "level", "message", "date", "place",
            "position", "version"}

Cells == Values \cup {NoValue, "ABSENT", "LIVE", "DELETED", "OPEN", "CLOSED"} \cup Nat

(* The rows, and more: what the proofs need of single columns is stated apart. *)
Row == [Columns -> Cells]

Event == [op : Ops, said : Row, at : Nat, stale : BOOLEAN, version : Nat]

Reading == [phase : {"read"}, op : Ops, seen : Row, new : Row]
Saving  == [phase : {"saved"}, op : Ops, new : Row, said : Row, at : Nat, stale : BOOLEAN]

(* What an event of the operation reports. *)
ReportsOf(op) == IF op \in DOMAIN Reports THEN Reports[op] ELSE {}

RowsOK ==
  /\ scene \in Scenes
  /\ row \in Row
  /\ txn \in [Requests -> {NoTxn} \cup Reading \cup Saving]
  /\ \A t \in Requests : txn[t] # NoTxn => txn[t].op \in scene
  /\ now \in Nat
  /\ rebalanced \in Nat
  /\ events \in Seq(Event)
  /\ \A e \in DOMAIN events : events[e].op \in scene

Readers == {t \in Requests : txn[t].phase = "read"}
Savers  == {t \in Requests : txn[t].phase = "saved"}

OneSaver == \A t, u \in Savers : t = u

Clock ==
  /\ \A i, j \in DOMAIN events : i <= j => events[i].at <= events[j].at
  /\ \A i \in DOMAIN events : events[i].at <= now /\ \A t \in Savers : events[i].at <= txn[t].at
  /\ \A t \in Savers : txn[t].at <= now

(* The version tells whether the row is still the one that was read. *)
Versions ==
  /\ rebalanced <= row.version
  /\ row.version \in Nat /\ \A t \in Readers : txn[t].seen.version \in Nat
  /\ \A e \in DOMAIN events : events[e].version <= row.version
  /\ \A t \in Readers : /\ txn[t].seen.version <= row.version
                        /\ txn[t].seen.version = row.version => txn[t].seen = row

(* The row is there before anything else is done with it. *)
Born ==
  /\ row.life = "ABSENT" => events = <<>>
  /\ \A t \in Requests :
       /\ txn[t] # NoTxn /\ txn[t].op \in Creations =>
            row.life = "ABSENT" /\ \A u \in Requests \ {t} : txn[u] = NoTxn
       /\ txn[t] # NoTxn /\ txn[t].op \notin Creations => row.life # "ABSENT"
  /\ \A t \in Savers : txn[t].new.life # "ABSENT"
  /\ \A t \in Readers :
       /\ txn[t].new.life # "ABSENT"
       /\ txn[t].seen.life = IF txn[t].op \in Creations THEN "ABSENT" ELSE "LIVE"

(* What it writes without an event. *)
Hidden(op, c) == op \in Silent /\ c = "position"

(* A handler wants to write a column of the feed just when it reports it,  *)
(* or it is a rebalance and the column the position; one that reports a    *)
(* single column wants another value in it.                                *)
Intends ==
  \A t \in Readers : txn[t].op \notin Creations =>
    \A c \in Told :
      /\ c \notin ReportsOf(txn[t].op) /\ ~Hidden(txn[t].op, c) => txn[t].new[c] = txn[t].seen[c]
      /\ c \in ReportsOf(txn[t].op) /\ txn[t].op \notin Pairs => txn[t].new[c] # txn[t].seen[c]

(* And its save writes just that. *)
Holds ==
  \A t \in Savers : txn[t].op \notin Creations =>
    \A c \in Told :
      /\ c \notin ReportsOf(txn[t].op) /\ ~Hidden(txn[t].op, c) => txn[t].new[c] = row[c]
      /\ c \in ReportsOf(txn[t].op) /\ ~(txn[t].stale /\ txn[t].op \in Pairs)
           => txn[t].new[c] = txn[t].said[c]

(* The last event of a column names the row's value, unless a rebalance    *)
(* has come after it.                                                      *)
LastEventTells ==
  \A c \in Told, e \in DOMAIN events :
    /\ c \in Reported(e)
    /\ \A f \in DOMAIN events : f > e => c \notin Reported(f)
    /\ ~Unsure(e) /\ ~Rewritten(c, e)
    => row[c] = events[e].said[c]

RowsInv ==
  RowsOK /\ OneSaver /\ Clock /\ Versions /\ Born /\ Intends /\ Holds /\ LastEventTells
-----------------------------------------------------------------------------
(* What the feed and the listeners hold. *)
Copy == [version : Int, from : Nat]

Recent(s) ==
  s.from # 0 =>
    /\ s.from \in DOMAIN events
    /\ s.version >= events[s.from].version \/ (Subject = "project" /\ s.version = 0)

Finding == [event : Nat, found : BOOLEAN, shown : Copy]

FeedOK ==
  /\ IsFiniteSet(feed)
  /\ \A a \in feed : /\ a.id \in Nat /\ a.event \in DOMAIN events
                     /\ a.at = events[a.event].at
                     /\ a.said = [c \in Reported(a.event) |-> events[a.event].said[c]]
                     /\ Recent(a.shown)
  /\ \A a, b \in feed : a.id = b.id => a = b

WorkOK ==
  /\ held \in [Paths -> Copy] /\ \A p \in Paths : Recent(held[p])
  /\ work \in [Paths -> {NoWork} \cup Finding]
  /\ \A p \in Paths : work[p] # NoWork =>
       /\ work[p].event \in DOMAIN events
       /\ work[p].found => work[p].event \in Known
       /\ Recent(work[p].shown)

ListenersInv == FeedOK /\ WorkOK /\ DeliveredAppearsOnce

(* What the reader has seen, and where it stands. *)
Walk ==
  /\ reader.cursor \in {NoCursor} \cup (Nat \X Nat)
  /\ reader.ended \in BOOLEAN
  /\ reader.shown \subseteq feed
  /\ reader.atStart \subseteq feed
  /\ reader.cursor = NoCursor => reader.ended \/ reader.shown = {}
  /\ reader.cursor # NoCursor =>
       /\ \A a \in reader.shown : ~Below(Key(a), reader.cursor)
       /\ \A a \in reader.atStart : Below(Key(a), reader.cursor) \/ a \in reader.shown

ReaderInv == Walk /\ PagesCoverTheFeed

IInv == RowsInv /\ ListenersInv /\ ReaderInv
-----------------------------------------------------------------------------
(* The scene is watched of one subject, in every state of a behaviour. *)
LEMMA SubjectOf ==
  ASSUME RowsOK
  PROVE  /\ Subject \in {"task", "project", "section"}
         /\ scene \subseteq Operations[Subject] \cup {List}
<1>1. \E x \in Subjects : scene \ {List} \subseteq Operations[x]
  BY ActivityAssumption DEF RowsOK, List
<1>2. Subject \in Subjects /\ scene \ {List} \subseteq Operations[Subject]
  BY <1>1 DEF Subject
<1> QED BY <1>2 DEF Subjects, Operations

(* What each operation makes of a row, by name. *)
LEMMA OutcomeOf ==
  ASSUME NEW r
  PROVE  /\ Outcomes("createTask", r) = CreateTask(r)
         /\ Outcomes("createProject", r) = CreateProject(r)
         /\ Outcomes("createSection", r) = CreateSection(r)
         /\ Outcomes("updateTask", r) = UpdateTask(r)
         /\ Outcomes("assignTask", r) = AssignTask(r)
         /\ Outcomes("unassignTask", r) = UnassignTask(r)
         /\ Outcomes("changeTaskPriority", r) = ChangeTaskPriority(r)
         /\ Outcomes("setTaskDueDate", r) = SetTaskDueDate(r)
         /\ Outcomes("completeTask", r) = CompleteTask(r)
         /\ Outcomes("reopenTask", r) = ReopenTask(r)
         /\ Outcomes("moveTask", r) = MoveTask(r)
         /\ Outcomes("reorderTask", r) = ReorderTask(r)
         /\ Outcomes("deleteTask", r) = DeleteTask(r)
         /\ Outcomes("updateProject", r) = UpdateProject(r)
         /\ Outcomes("updateProjectHealth", r) = UpdateProjectHealth(r)
         /\ Outcomes("updateProjectDates", r) = UpdateProjectDates(r)
         /\ Outcomes("archiveProject", r) = ArchiveProject(r)
         /\ Outcomes("restoreProject", r) = RestoreProject(r)
         /\ Outcomes("deleteProject", r) = DeleteProject(r)
         /\ Outcomes("transferOwnership", r) = TransferOwnership(r)
         /\ Outcomes("renameSection", r) = RenameSection(r)
         /\ Outcomes("reorderSection", r) = ReorderSection(r)
         /\ Outcomes("deleteSection", r) = DeleteSection(r)
         /\ Outcomes("restoreSection", r) = RestoreSection(r)
         /\ Outcomes("rebalanceTasks", r) = RebalanceTasks(r)
         /\ Outcomes("rebalanceSections", r) = RebalanceSections(r)
         /\ Outcomes(List, r) = {}
  BY Zenon DEF Outcomes, List

(* A row with new values in two columns is a row. *)
LEMMA RowEdits ==
  ASSUME NEW r \in Row, NEW c \in Columns, NEW d \in Columns, NEW v \in Cells, NEW w \in Cells
  PROVE  Both(r, c, v, d, w) \in Row
  BY DEF Both, Row

(* What an operation makes of a row is a row. *)
LEMMA OutcomeTyped ==
  ASSUME NEW op \in Ops, NEW r \in Row, NEW new \in Outcomes(op, r)
  PROVE  new \in Row
<1>0. /\ Values \subseteq Cells /\ {NoValue, "DELETED", "OPEN", "CLOSED"} \subseteq Cells
      /\ \A v \in Values : Created(v) \in Row
  BY DEF Created, Row, Columns, Cells
<1>a. \A c, d \in Columns, v, w \in Cells : Both(r, c, v, d, w) \in Row
  BY RowEdits
<1>1. CASE op \in Creations
  BY <1>0, <1>1, OutcomeOf DEF CreateTask, CreateProject, CreateSection, Creations
<1>2. CASE op \in {"updateTask", "updateProject"}
  <2>1. \E n, d \in Values : new = Both(r, "name", n, "about", d)
    BY <1>2, OutcomeOf DEF UpdateTask, UpdateProject
  <2> QED BY <1>0, <1>a, <2>1 DEF Columns
<1>3. CASE op \in {"moveTask", "updateProjectHealth", "restoreSection"}
  <2>1. \/ \E n, d \in Values : new = Both(r, "place", n, "position", d)
        \/ \E n, d \in Values : new = Both(r, "level", n, "message", d)
        \/ \E d \in Values : new = Both(r, "status", "OPEN", "position", d)
    BY <1>3, OutcomeOf DEF MoveTask, UpdateProjectHealth, RestoreSection
  <2> QED BY <1>0, <1>a, <2>1 DEF Columns
<1>4. CASE op \in {"assignTask", "unassignTask", "changeTaskPriority", "setTaskDueDate",
                   "reorderTask", "completeTask", "reopenTask", "deleteTask"}
  BY <1>0, <1>4, OutcomeOf
  DEF AssignTask, UnassignTask, ChangeTaskPriority, SetTaskDueDate, ReorderTask, CompleteTask,
      ReopenTask, DeleteTask, Row
<1>5. CASE op \in {"updateProjectDates", "archiveProject", "restoreProject", "deleteProject",
                   "transferOwnership", "renameSection", "reorderSection", "deleteSection",
                   "rebalanceTasks", "rebalanceSections", List}
  BY <1>0, <1>5, OutcomeOf
  DEF UpdateProjectDates, ArchiveProject, RestoreProject, DeleteProject, TransferOwnership,
      RenameSection, ReorderSection, DeleteSection, RebalanceTasks, RebalanceSections, Row
<1> QED BY <1>1, <1>2, <1>3, <1>4, <1>5 DEF Ops, Creations

(* A created row is live, and no operation makes a live row absent. *)
LEMMA OutcomeLives ==
  ASSUME NEW op \in Ops, NEW r \in Row, NEW new \in Outcomes(op, r)
  PROVE  /\ op \in Creations => new.life = "LIVE"
         /\ r.life = "LIVE" => new.life # "ABSENT"
<1>1. CASE op \in Creations
  BY <1>1, OutcomeOf DEF CreateTask, CreateProject, CreateSection, Creations, Created
<1>2. CASE op \in {"updateTask", "updateProject", "moveTask", "updateProjectHealth", "restoreSection"}
  <2>1. \E c, d \in Columns \ {"life"}, v, w \in Cells : new = Both(r, c, v, d, w)
    <3>1. \/ \E n, d \in Values : new = Both(r, "name", n, "about", d)
          \/ \E n, d \in Values : new = Both(r, "place", n, "position", d)
          \/ \E n, d \in Values : new = Both(r, "level", n, "message", d)
          \/ \E d \in Values : new = Both(r, "status", "OPEN", "position", d)
      BY <1>2, OutcomeOf
      DEF UpdateTask, UpdateProject, MoveTask, UpdateProjectHealth, RestoreSection
    <3>2. Values \subseteq Cells /\ "OPEN" \in Cells
      BY DEF Cells
    <3> QED BY <3>1, <3>2 DEF Columns
  <2>2. new.life = r.life
    BY <2>1 DEF Both, Row, Columns
  <2> QED BY <1>2, <2>2 DEF Creations
<1>4. CASE op \in {"assignTask", "unassignTask", "changeTaskPriority", "setTaskDueDate",
                   "reorderTask", "completeTask", "reopenTask", "deleteTask"}
  BY <1>4, OutcomeOf
  DEF AssignTask, UnassignTask, ChangeTaskPriority, SetTaskDueDate, ReorderTask, CompleteTask,
      ReopenTask, DeleteTask, Row, Columns, Creations
<1>5. CASE op \in {"updateProjectDates", "archiveProject", "restoreProject", "deleteProject",
                   "transferOwnership", "renameSection", "reorderSection", "deleteSection",
                   "rebalanceTasks", "rebalanceSections", List}
  BY <1>5, OutcomeOf
  DEF UpdateProjectDates, ArchiveProject, RestoreProject, DeleteProject, TransferOwnership,
      RenameSection, ReorderSection, DeleteSection, RebalanceTasks, RebalanceSections, Row,
      Columns, Creations, List
<1> QED BY <1>1, <1>2, <1>4, <1>5 DEF Ops, Creations

(* Writing two columns changes no other. *)
LEMMA TwoColumns ==
  ASSUME NEW r \in Row, NEW x \in Columns, NEW y \in Columns, NEW v, NEW w
  PROVE  \A c \in Columns \ {x, y} : Both(r, x, v, y, w)[c] = r[c]
  BY DEF Row, Both

(* new differs from r in column x, and nowhere else. *)
Only(x, r, new) == new[x] # r[x] /\ \A c \in Columns \ {x} : new[c] = r[c]

(* And what each operation writes. *)
LEMMA OutcomeWrites ==
  ASSUME NEW op \in Ops \ Creations, NEW r \in Row, NEW new \in Outcomes(op, r), new # r
  PROVE  /\ op \in {"assignTask", "unassignTask", "transferOwnership"} => Only("owner", r, new)
         /\ op = "changeTaskPriority" => Only("level", r, new)
         /\ op \in {"setTaskDueDate", "updateProjectDates"} => Only("date", r, new)
         /\ op \in {"completeTask", "reopenTask", "archiveProject", "restoreProject",
                    "deleteSection"} => Only("status", r, new)
         /\ op \in {"reorderTask", "reorderSection", "rebalanceTasks", "rebalanceSections"} =>
              Only("position", r, new)
         /\ op = "renameSection" => Only("name", r, new)
         /\ op \in {"deleteTask", "deleteProject"} => Only("life", r, new)
         /\ op \in {"updateTask", "updateProject"} =>
              \A c \in Columns \ {"name", "about"} : new[c] = r[c]
         /\ op = "moveTask" => \A c \in Columns \ {"place", "position"} : new[c] = r[c]
         /\ op = "updateProjectHealth" => \A c \in Columns \ {"level", "message"} : new[c] = r[c]
         /\ op = "restoreSection" =>
              /\ \A c \in Columns \ {"status", "position"} : new[c] = r[c]
              /\ new["status"] # r["status"]
<1>0. ASSUME NEW x \in Columns, NEW v, new = [r EXCEPT ![x] = v] PROVE Only(x, r, new)
  BY <1>0 DEF Only, Row
<1>1. \A x, y \in Columns : (\E v, w : new = Both(r, x, v, y, w)) =>
                              \A c \in Columns \ {x, y} : new[c] = r[c]
  BY TwoColumns
<1>2. {"owner", "level", "date", "status", "position", "name", "life", "about", "place", "message"}
        \subseteq Columns
  BY DEF Columns
<1>3. ASSUME op \in {"assignTask", "unassignTask", "transferOwnership"}
      PROVE  \E v : new = [r EXCEPT !["owner"] = v]
  BY <1>3, OutcomeOf DEF AssignTask, UnassignTask, TransferOwnership
<1>4. ASSUME op = "changeTaskPriority" PROVE \E v : new = [r EXCEPT !["level"] = v]
  BY <1>4, OutcomeOf DEF ChangeTaskPriority
<1>5. ASSUME op \in {"setTaskDueDate", "updateProjectDates"}
      PROVE  \E v : new = [r EXCEPT !["date"] = v]
  BY <1>5, OutcomeOf DEF SetTaskDueDate, UpdateProjectDates
<1>6. ASSUME op \in {"completeTask", "reopenTask", "archiveProject", "restoreProject", "deleteSection"}
      PROVE  \E v : new = [r EXCEPT !["status"] = v]
  BY <1>6, OutcomeOf DEF CompleteTask, ReopenTask, ArchiveProject, RestoreProject, DeleteSection
<1>7. ASSUME op \in {"reorderTask", "reorderSection", "rebalanceTasks", "rebalanceSections"}
      PROVE  \E v : new = [r EXCEPT !["position"] = v]
  BY <1>7, OutcomeOf DEF ReorderTask, ReorderSection, RebalanceTasks, RebalanceSections
<1>8. ASSUME op = "renameSection" PROVE \E v : new = [r EXCEPT !["name"] = v]
  BY <1>8, OutcomeOf DEF RenameSection
<1>9. ASSUME op \in {"deleteTask", "deleteProject"} PROVE \E v : new = [r EXCEPT !["life"] = v]
  BY <1>9, OutcomeOf DEF DeleteTask, DeleteProject
<1>10. ASSUME op \in {"updateTask", "updateProject"}
       PROVE  \E v, w : new = Both(r, "name", v, "about", w)
  BY <1>10, OutcomeOf DEF UpdateTask, UpdateProject
<1>11. ASSUME op = "moveTask" PROVE \E v, w : new = Both(r, "place", v, "position", w)
  BY <1>11, OutcomeOf DEF MoveTask
<1>12. ASSUME op = "updateProjectHealth" PROVE \E v, w : new = Both(r, "level", v, "message", w)
  BY <1>12, OutcomeOf DEF UpdateProjectHealth
<1>13. ASSUME op = "restoreSection"
       PROVE  /\ \E v, w : new = Both(r, "status", v, "position", w)
              /\ new["status"] # r["status"]
  <2>1. PICK v \in Values : new = Both(r, "status", "OPEN", "position", v) /\ r.status = "CLOSED"
    BY <1>13, OutcomeOf DEF RestoreSection
  <2> QED BY <2>1 DEF Both, Row, Columns
<1> QED
  BY <1>0, <1>1, <1>2, <1>3, <1>4, <1>5, <1>6, <1>7, <1>8, <1>9, <1>10, <1>11, <1>12, <1>13

(* What the scene allows, and what is told of its subject. *)
LEMMA SceneOps ==
  ASSUME RowsOK
  PROVE  /\ scene \subseteq Ops
         /\ Told \subseteq Columns /\ "version" \notin Told /\ "life" \notin Told
  BY SubjectOf DEF Operations, Ops, Told, Columns

(* What the events of each subject report, by name. *)
LEMMA TaskReportsAre ==
  ASSUME Subject = "task"
  PROVE  /\ Told = {"status", "owner", "level", "place", "date", "position"}
         /\ \A op \in {"assignTask", "unassignTask"} : ReportsOf(op) = {"owner"}
         /\ \A op \in {"completeTask", "reopenTask"} : ReportsOf(op) = {"status"}
         /\ ReportsOf("changeTaskPriority") = {"level"}
         /\ ReportsOf("setTaskDueDate") = {"date"}
         /\ ReportsOf("moveTask") = {"place", "position"}
         /\ ReportsOf("reorderTask") = {"position"}
         /\ \A op \in {"createTask", "updateTask", "deleteTask", "rebalanceTasks"} : ReportsOf(op) = {}
<1>1. Reports = TaskReports
  BY DEF Reports
<1> QED BY <1>1 DEF ReportsOf, TaskReports, Told

(* The columns told of a project, and the operations that report them.     *)
LEMMA ProjectReportsAre ==
  ASSUME Subject = "project"
  PROVE  /\ Told = {"status", "owner", "level", "place"}
         /\ \A op \in {"archiveProject", "restoreProject"} : ReportsOf(op) = {"status"}
         /\ ReportsOf("updateProjectHealth") = {"level"}
         /\ ReportsOf("transferOwnership") = {"owner"}
         /\ \A op \in {"createProject", "updateProject", "updateProjectDates", "deleteProject"} :
              ReportsOf(op) = {}
<1>1. Reports = ProjectReports
  BY DEF Reports
<1> QED BY <1>1 DEF ReportsOf, ProjectReports, Told

(* The columns told of a section, and the operations that report them.     *)
LEMMA SectionReportsAre ==
  ASSUME Subject = "section"
  PROVE  /\ Told = {"status", "owner", "level", "place"}
         /\ \A op \in {"deleteSection", "restoreSection"} : ReportsOf(op) = {"status"}
         /\ ReportsOf("reorderSection") = {"position"}
         /\ \A op \in {"createSection", "renameSection", "rebalanceSections"} : ReportsOf(op) = {}
<1>1. Reports = SectionReports
  BY DEF Reports
<1> QED BY <1>1 DEF ReportsOf, SectionReports, Told

(* A column is written, of those told, just by the operations that report  *)
(* it and by the rebalances.                                               *)
LEMMA OutcomeIntends ==
  ASSUME RowsOK, NEW op \in scene \ Creations, NEW r \in Row, NEW new \in Outcomes(op, r), new # r
  PROVE  \A c \in Told :
           /\ c \notin ReportsOf(op) /\ ~Hidden(op, c) => new[c] = r[c]
           /\ c \in ReportsOf(op) /\ op \notin Pairs => new[c] # r[c]
<1>0. op \in Ops \ Creations /\ op # List
  BY SceneOps, OutcomeOf
<1>1. CASE Subject = "task"
  <2>1. op \in Operations["task"]
    BY <1>0, <1>1, SubjectOf
  <2> QED BY <1>0, <1>1, <2>1, TaskReportsAre, OutcomeWrites
          DEF Operations, Only, Columns, Pairs, Creations, Hidden, Silent
<1>2. CASE Subject = "project"
  <2>1. op \in Operations["project"]
    BY <1>0, <1>2, SubjectOf
  <2> QED BY <1>0, <1>2, <2>1, ProjectReportsAre, OutcomeWrites
          DEF Operations, Only, Columns, Pairs, Creations, Hidden, Silent
<1>3. CASE Subject = "section"
  <2>1. op \in Operations["section"]
    BY <1>0, <1>3, SubjectOf
  <2> QED BY <1>0, <1>3, <2>1, SectionReportsAre, OutcomeWrites
          DEF Operations, Only, Columns, Pairs, Creations, Hidden, Silent
<1> QED BY <1>1, <1>2, <1>3, SubjectOf
-----------------------------------------------------------------------------
(* The rows: one lemma for each step of a handler. *)

(* What is told depends on the scene only. *)
LEMMA SceneStays ==
  ASSUME scene' = scene
  PROVE  Subject' = Subject /\ Told' = Told /\ \A op : ReportsOf(op)' = ReportsOf(op)
<1>1. Subject' = Subject
  BY DEF Subject
<1> QED BY <1>1 DEF Told, ReportsOf, Reports

(* So is what the events of a row that stays say of it. *)
LEMMA EventsStay ==
  ASSUME LastEventTells, scene' = scene, row' = row, rebalanced' = rebalanced, events' = events
  PROVE  LastEventTells'
<1>1. Reports' = Reports /\ Told' = Told
  BY SceneStays DEF Reports
<1> QED BY <1>1 DEF LastEventTells, Reported, Unsure, Rewritten

(* The save keeps the columns that were not changed. *)
LEMMA MergeIs ==
  ASSUME NEW stored \in Row, NEW seen \in Row, NEW new \in Row
  PROVE  /\ Merge(stored, seen, new) \in Row
         /\ \A c \in Columns : Merge(stored, seen, new)[c] =
              IF new[c] = seen[c] THEN stored[c] ELSE new[c]
  BY DEF Merge, Row

(* What a handler at work holds. *)
LEMMA TxnTypes ==
  ASSUME RowsOK
  PROVE  /\ \A t \in Requests : txn[t] = NoTxn \/ t \in Readers \/ t \in Savers
         /\ \A t \in Readers : txn[t] # NoTxn /\ txn[t] \in Reading /\ txn[t].op \in Ops
                               /\ txn[t].seen \in Row /\ txn[t].new \in Row
         /\ \A t \in Savers : txn[t] # NoTxn /\ txn[t] \in Saving /\ txn[t].op \in Ops
                              /\ txn[t].new \in Row /\ txn[t].said \in Row
                              /\ txn[t].at \in Nat /\ txn[t].stale \in BOOLEAN
         /\ \A t \in Requests : txn[t] = NoTxn => t \notin Readers /\ t \notin Savers
  BY DEF RowsOK, Readers, Savers, Reading, Saving, NoTxn

(* The events of the outbox are numbered, each with a time and a           *)
(* version.                                                                *)
LEMMA EventTypes ==
  ASSUME RowsOK
  PROVE  /\ Len(events) \in Nat /\ DOMAIN events = 1 .. Len(events)
         /\ \A e \in DOMAIN events : /\ events[e] \in Event
                                     /\ events[e].at \in Nat /\ events[e].version \in Nat
<1>1. /\ Len(events) \in Nat /\ DOMAIN events = 1 .. Len(events)
      /\ \A e \in DOMAIN events : events[e] \in Event
  BY DEF RowsOK
<1> QED BY <1>1 DEF Event

(* A handler reads the row and decides what to make of it. *)
LEMMA ReadInv ==
  ASSUME RowsInv, NEW t \in Requests, NEW op \in scene, Read(t, op)
  PROVE  RowsInv'
<1>0. RowsOK /\ op \in Ops /\ row \in Row /\ row.version \in Nat
  BY SceneOps DEF RowsInv, RowsOK, Versions
<1>1. PICK new \in Outcomes(op, row) : /\ new # row
        /\ txn' = [txn EXCEPT ![t] = [phase |-> "read", op |-> op, seen |-> row, new |-> new]]
  BY DEF Read
<1>2. /\ UNCHANGED <<scene, row, now, rebalanced, events>> /\ txn[t] = NoTxn
      /\ IF op \in Creations THEN row.life = "ABSENT" /\ Writing = {} ELSE Live(row)
  BY DEF Read
<1> DEFINE d == [phase |-> "read", op |-> op, seen |-> row, new |-> new]
<1>3. new \in Row
  BY <1>0, OutcomeTyped
<1>4. d \in Reading
  BY <1>0, <1>3 DEF Reading
<1>5. d.phase = "read" /\ d.op = op /\ d.seen = row /\ d.new = new /\ d # NoTxn
  BY DEF NoTxn
<1>6. txn' = [txn EXCEPT ![t] = d] /\ txn \in [Requests -> {NoTxn} \cup Reading \cup Saving]
  BY <1>1 DEF RowsInv, RowsOK
<1> HIDE DEF d
<1>7. Savers' = Savers /\ Readers' = Readers \cup {t} /\ t \notin Readers \cup Savers
      /\ \A u \in Savers \cup Readers : txn'[u] = txn[u]
  BY <1>0, <1>2, <1>4, <1>5, <1>6, TxnTypes DEF Savers, Readers
<1>8. RowsOK'
  BY <1>0, <1>2, <1>4, <1>5, <1>6 DEF RowsOK
<1>9. OneSaver' /\ Clock'
  BY <1>2, <1>7 DEF RowsInv, OneSaver, Clock
<1>10. Versions'
  BY <1>0, <1>2, <1>5, <1>6, <1>7 DEF RowsInv, Versions
<1>11. Born'
  <2>1. new.life # "ABSENT"
    BY <1>0, <1>2, OutcomeLives DEF Live
  <2>2. \A u \in Requests \ {t} : txn'[u] = txn[u]
    BY <1>6
  <2>3. txn'[t] = d
    BY <1>6
  <2>4. op \in Creations => \A u \in Requests : txn[u] = NoTxn
    BY <1>2 DEF Writing
  <2> QED
    BY <1>2, <1>5, <1>7, <2>1, <2>2, <2>3, <2>4 DEF RowsInv, Born, Live
<1>12. Intends'
  BY <1>0, <1>1, <1>2, <1>5, <1>6, <1>7, OutcomeIntends, SceneStays DEF RowsInv, Intends
<1>13. Holds'
  BY <1>2, <1>7, SceneStays DEF RowsInv, Holds
<1>14. LastEventTells'
  BY <1>2, EventsStay DEF RowsInv
<1> QED BY <1>8, <1>9, <1>10, <1>11, <1>12, <1>13, <1>14 DEF RowsInv

(* The save merges, under the row's lock, and the event gets its time. *)
LEMMA SaveInv ==
  ASSUME RowsInv, NEW t \in Requests, NEW at \in 0 .. MaxNow, Save(t, at)
  PROVE  RowsInv'
<1> DEFINE x == txn[t]
           d == [phase |-> "saved", op |-> x.op, new |-> Merge(row, x.seen, x.new),
                 said |-> x.new, at |-> at, stale |-> x.seen.version # row.version]
<1>0. /\ RowsOK /\ row \in Row /\ row.version \in Nat /\ now \in Nat /\ at \in Nat
      /\ txn \in [Requests -> {NoTxn} \cup Reading \cup Saving]
  BY ActivityAssumption DEF RowsInv, RowsOK, Versions
<1>1. /\ t \in Readers /\ Savers = {} /\ at >= now /\ now' = at
      /\ txn' = [txn EXCEPT ![t] = d] /\ UNCHANGED <<scene, row, rebalanced, events>>
  BY <1>0 DEF Save, Readers, Savers
<1>2. /\ x.op \in Ops /\ x.op \in scene /\ x.seen \in Row /\ x.new \in Row
      /\ x.seen.version \in Nat /\ x # NoTxn
  BY <1>0, <1>1, TxnTypes DEF RowsInv, RowsOK, Versions
<1>3. /\ d.phase = "saved" /\ d.op = x.op /\ d.at = at /\ d.said = x.new
      /\ d.stale = (x.seen.version # row.version) /\ d # NoTxn /\ d \in Saving
      /\ d.new \in Row
      /\ \A c \in Columns : d.new[c] = IF x.new[c] = x.seen[c] THEN row[c] ELSE x.new[c]
  BY <1>0, <1>2, MergeIs DEF NoTxn, Saving
<1> HIDE DEF d
<1>4. /\ txn'[t] = d /\ \A u \in Requests \ {t} : txn'[u] = txn[u]
  BY <1>0, <1>1
<1>5. Savers' = {t} /\ Readers' = Readers \ {t}
  BY <1>1, <1>3, <1>4 DEF Savers, Readers
<1>6. RowsOK'
  BY <1>0, <1>1, <1>2, <1>3, <1>4 DEF RowsOK
<1>7. OneSaver' /\ Clock'
  <2>1. \A e \in DOMAIN events : events[e].at \in Nat
    BY <1>0, EventTypes
  <2> QED BY <1>0, <1>1, <1>3, <1>4, <1>5, <2>1 DEF RowsInv, OneSaver, Clock
<1>8. Versions'
  BY <1>0, <1>1, <1>4, <1>5 DEF RowsInv, Versions
<1>9. Born'
  <2>1. "life" \in Columns
    BY DEF Columns
  <2>2. d.new.life # "ABSENT"
    BY <1>1, <1>2, <1>3, <2>1 DEF RowsInv, Born
  <2> QED BY <1>1, <1>2, <1>3, <1>4, <1>5, <2>2 DEF RowsInv, Born
<1>10. Intends'
  BY <1>0, <1>1, <1>4, <1>5, SceneStays DEF RowsInv, Intends
<1>11. Holds'
  <2> SUFFICES ASSUME x.op \notin Creations, NEW c \in Told
               PROVE  /\ c \notin ReportsOf(x.op) /\ ~Hidden(x.op, c) => d.new[c] = row[c]
                      /\ c \in ReportsOf(x.op) /\ ~(d.stale /\ x.op \in Pairs)
                           => d.new[c] = x.new[c]
    BY <1>1, <1>3, <1>4, <1>5, SceneStays DEF Holds
  <2>1. c \in Columns
    BY <1>0, SceneOps
  <2>2. c \notin ReportsOf(x.op) /\ ~Hidden(x.op, c) => x.new[c] = x.seen[c]
    BY <1>1 DEF RowsInv, Intends
  <2>3. c \in ReportsOf(x.op) /\ x.op \notin Pairs => x.new[c] # x.seen[c]
    BY <1>1 DEF RowsInv, Intends
  <2>4. ~d.stale => x.seen = row
    BY <1>1, <1>3 DEF RowsInv, Versions
  <2> QED BY <1>3, <2>1, <2>2, <2>3, <2>4
<1>12. LastEventTells'
  BY <1>1, EventsStay DEF RowsInv
<1> QED BY <1>6, <1>7, <1>8, <1>9, <1>10, <1>11, <1>12 DEF RowsInv

(* An abort only takes a handler away. *)
LEMMA AbortInv ==
  ASSUME RowsInv, NEW t \in Requests, Abort(t)
  PROVE  RowsInv'
<1>0. RowsOK /\ txn \in [Requests -> {NoTxn} \cup Reading \cup Saving]
  BY DEF RowsInv, RowsOK
<1>1. /\ txn'[t] = NoTxn /\ \A u \in Requests \ {t} : txn'[u] = txn[u]
      /\ txn' \in [Requests -> {NoTxn} \cup Reading \cup Saving]
      /\ UNCHANGED <<scene, row, now, rebalanced, events>>
  BY <1>0 DEF Abort
<1>2. /\ Savers' = Savers \ {t} /\ Readers' = Readers \ {t}
      /\ \A u \in Savers' \cup Readers' : txn'[u] = txn[u]
  BY <1>1 DEF Savers, Readers, NoTxn
<1>3. RowsOK'
  BY <1>0, <1>1 DEF RowsOK
<1>4. OneSaver' /\ Clock' /\ Versions'
  BY <1>1, <1>2 DEF RowsInv, OneSaver, Clock, Versions
<1>5. Born'
  BY <1>1, <1>2 DEF RowsInv, Born
<1>6. Intends' /\ Holds'
  BY <1>1, <1>2, SceneStays DEF RowsInv, Intends, Holds
<1>7. LastEventTells'
  BY <1>1, EventsStay DEF RowsInv
<1> QED BY <1>3, <1>4, <1>5, <1>6, <1>7 DEF RowsInv

(* The others, listeners and readers, leave the rows alone. *)
LEMMA RowsStay ==
  ASSUME RowsInv, UNCHANGED <<scene, rows>>
  PROVE  RowsInv'
<1>1. UNCHANGED <<scene, row, txn, now, rebalanced, events>>
  BY DEF rows
<1>2. Savers' = Savers /\ Readers' = Readers
  BY <1>1 DEF Savers, Readers
<1>3. RowsOK' /\ OneSaver' /\ Clock' /\ Versions' /\ Born'
  BY <1>1, <1>2 DEF RowsInv, RowsOK, OneSaver, Clock, Versions, Born
<1>4. Intends' /\ Holds'
  BY <1>1, <1>2, SceneStays DEF RowsInv, Intends, Holds
<1>5. LastEventTells'
  BY <1>1, EventsStay DEF RowsInv
<1> QED BY <1>3, <1>4, <1>5 DEF RowsInv

(* An operation that creates its subject reports no column of it.          *)
LEMMA CreationsReportNothing ==
  ASSUME RowsOK, NEW op \in Creations
  PROVE  ReportsOf(op) = {}
<1>1. Reports \in {TaskReports, ProjectReports, SectionReports}
  BY SubjectOf DEF Reports
<1> QED BY <1>1 DEF ReportsOf, Creations, TaskReports, ProjectReports, SectionReports

(* Nor does a rebalance. *)
LEMMA SilentReportNothing ==
  ASSUME RowsOK, NEW op \in Silent
  PROVE  ReportsOf(op) = {}
<1>1. Reports \in {TaskReports, ProjectReports, SectionReports}
  BY SubjectOf DEF Reports
<1> QED BY <1>1 DEF ReportsOf, Silent, TaskReports, ProjectReports, SectionReports

(* The commit: the row is the saver's, and its event is the last one. *)
LEMMA CommitInv ==
  ASSUME RowsInv, NEW t \in Requests, Commit(t), txn[t].op \notin Silent
  PROVE  RowsInv'
<1> DEFINE x == txn[t]
           ev == [op |-> x.op, said |-> x.said, at |-> x.at, stale |-> x.stale,
                  version |-> row.version + 1]
<1>0. /\ RowsOK /\ row \in Row /\ row.version \in Nat /\ now \in Nat /\ Len(events) \in Nat
      /\ txn \in [Requests -> {NoTxn} \cup Reading \cup Saving]
      /\ events \in Seq(Event)
  BY EventTypes DEF RowsInv, RowsOK, Versions
<1>1. /\ t \in Savers /\ x.op \in scene
      /\ row' = [x.new EXCEPT !["version"] = row.version + 1]
      /\ events' = Append(events, ev)
      /\ UNCHANGED <<scene, now, rebalanced>>
  BY <1>0, TxnTypes DEF Commit, Savers, RowsOK
<1>2. /\ x.op \in Ops /\ x.new \in Row /\ x.said \in Row /\ x.at \in Nat /\ x.stale \in BOOLEAN
      /\ x # NoTxn
  BY <1>0, <1>1, TxnTypes
<1>3. /\ ev \in Event /\ ev.op = x.op /\ ev.said = x.said /\ ev.at = x.at /\ ev.stale = x.stale
      /\ ev.version = row.version + 1
  BY <1>0, <1>2 DEF Event
<1> HIDE DEF ev
<1>n. PICK n \in Nat : n = Len(events) + 1
  BY <1>0
<1>4. /\ DOMAIN events = 1 .. Len(events) /\ DOMAIN events' = 1 .. n /\ events' \in Seq(Event)
      /\ events'[n] = ev /\ \A i \in DOMAIN events : events'[i] = events[i] /\ i < n
      /\ \A i \in DOMAIN events' : i \in DOMAIN events \/ i = n
  BY <1>0, <1>1, <1>3, <1>n
<1>5. /\ txn'[t] = NoTxn /\ \A u \in Requests \ {t} : txn'[u] = txn[u]
      /\ txn' \in [Requests -> {NoTxn} \cup Reading \cup Saving]
  BY <1>0 DEF Commit
<1>6. Savers = {t} /\ Savers' = {} /\ Readers' = Readers /\ \A u \in Readers : txn'[u] = txn[u]
  BY <1>1, <1>5 DEF RowsInv, OneSaver, Savers, Readers, NoTxn
<1>7. /\ row' \in Row /\ row'.version = row.version + 1
      /\ \A c \in Columns \ {"version"} : row'[c] = x.new[c]
  <2>1. PICK v \in Nat : v = row.version + 1
    BY <1>0
  <2>2. v \in Cells
    BY DEF Cells
  <2> QED BY <1>1, <1>2, <2>1, <2>2 DEF Row, Columns
<1>8. row'.life # "ABSENT"
  BY <1>6, <1>7 DEF RowsInv, Born, Columns
<1>9. RowsOK'
  BY <1>0, <1>1, <1>3, <1>4, <1>5, <1>7 DEF RowsOK
<1>10. OneSaver' /\ Clock'
  <2>1. \A i \in DOMAIN events : events[i].at \in Nat
    BY <1>0, EventTypes
  <2> QED BY <1>0, <1>1, <1>2, <1>3, <1>4, <1>6, <2>1 DEF RowsInv, OneSaver, Clock
<1>11. Versions'
  <2>1. \A i \in DOMAIN events : events[i].version \in Nat
    BY <1>0, EventTypes
  <2>2. \A i \in DOMAIN events' : events'[i].version <= row'.version
    BY <1>0, <1>3, <1>4, <1>7, <2>1 DEF RowsInv, Versions
  <2>3. \A u \in Readers' : /\ txn'[u].seen.version \in Nat
                             /\ txn'[u].seen.version < row'.version
    BY <1>0, <1>6, <1>7 DEF RowsInv, Versions
  <2>4. row'.version \in Nat /\ rebalanced' <= row'.version
    BY <1>0, <1>1, <1>7 DEF RowsInv, Versions, RowsOK
  <2> QED BY <2>2, <2>3, <2>4 DEF Versions
<1>12. Born'
  BY <1>2, <1>5, <1>6, <1>8 DEF RowsInv, Born
<1>13. Intends' /\ Holds'
  BY <1>1, <1>6, SceneStays DEF RowsInv, Intends, Holds
<1>14. LastEventTells'
  <2>1. Reports' = Reports /\ Told' = Told
    BY <1>1, SceneStays DEF Reports
  <2>2. \A e \in DOMAIN events : /\ Reported(e)' = Reported(e) /\ Unsure(e)' = Unsure(e)
                                 /\ \A c \in Told : Rewritten(c, e)' = Rewritten(c, e)
    BY <1>1, <1>4, <2>1 DEF Reported, Unsure, Rewritten
  <2>3. Reported(n)' = ReportsOf(x.op) /\ Unsure(n)' = (x.stale /\ x.op \in Pairs)
    BY <1>3, <1>4, <2>1 DEF Reported, Unsure, ReportsOf, Pairs
  <2> SUFFICES ASSUME NEW c \in Told, NEW e \in DOMAIN events',
                      c \in Reported(e)', \A f \in DOMAIN events' : f > e => c \notin Reported(f)',
                      ~Unsure(e)', ~Rewritten(c, e)'
               PROVE  row'[c] = events'[e].said[c]
    BY <2>1 DEF LastEventTells
  <2>4. x.op \notin Creations
    BY <1>0, <1>1, <1>2, <1>4, <2>3, CreationsReportNothing DEF RowsInv, Born
  <2>5. row'[c] = x.new[c] /\ ~Hidden(x.op, c)
    BY <1>0, <1>7, SceneOps DEF Hidden
  <2>6. CASE e = n
    BY <1>3, <1>4, <1>6, <2>3, <2>4, <2>5, <2>6 DEF RowsInv, Holds
  <2>7. CASE e \in DOMAIN events
    <3>1. x.new[c] = row[c]
      BY <1>0, <1>4, <1>6, <2>3, <2>4, <2>5, <2>7 DEF RowsInv, Holds
    <3>2. \A f \in DOMAIN events : f > e => c \notin Reported(f)
      BY <1>4, <2>2
    <3> QED BY <1>4, <2>2, <2>5, <2>7, <3>1, <3>2 DEF RowsInv, LastEventTells
  <2> QED BY <1>0, <1>4, <2>6, <2>7
<1> QED BY <1>9, <1>10, <1>11, <1>12, <1>13, <1>14 DEF RowsInv

(* The commit of a rebalance: the row is the saver's, no event is added,   *)
(* and every event of a position is from before.                           *)
LEMMA RebalanceInv ==
  ASSUME RowsInv, NEW t \in Requests, Commit(t), txn[t].op \in Silent
  PROVE  RowsInv'
<1> DEFINE x == txn[t]
<1>0. /\ RowsOK /\ row \in Row /\ row.version \in Nat /\ now \in Nat
      /\ txn \in [Requests -> {NoTxn} \cup Reading \cup Saving]
      /\ x.op \notin Creations
  BY DEF RowsInv, RowsOK, Versions, Silent, Creations
<1>1. /\ t \in Savers /\ rebalanced' = row.version + 1
      /\ row' = [x.new EXCEPT !["version"] = row.version + 1]
      /\ UNCHANGED <<scene, now, events>>
  BY <1>0, TxnTypes DEF Commit, Savers, RowsOK
<1>2. x.op \in Ops /\ x.new \in Row /\ x # NoTxn
  BY <1>0, <1>1, TxnTypes
<1>3. /\ txn'[t] = NoTxn /\ \A u \in Requests \ {t} : txn'[u] = txn[u]
      /\ txn' \in [Requests -> {NoTxn} \cup Reading \cup Saving]
  BY <1>0 DEF Commit
<1>4. Savers = {t} /\ Savers' = {} /\ Readers' = Readers /\ \A u \in Readers : txn'[u] = txn[u]
  BY <1>1, <1>3 DEF RowsInv, OneSaver, Savers, Readers, NoTxn
<1>5. /\ row' \in Row /\ row'.version = row.version + 1
      /\ \A c \in Columns \ {"version"} : row'[c] = x.new[c]
  <2>1. PICK v \in Nat : v = row.version + 1
    BY <1>0
  <2>2. v \in Cells
    BY DEF Cells
  <2> QED BY <1>1, <1>2, <2>1, <2>2 DEF Row, Columns
<1>6. RowsOK'
  BY <1>0, <1>1, <1>3, <1>5 DEF RowsOK
<1>7. OneSaver' /\ Clock'
  BY <1>1, <1>4 DEF RowsInv, OneSaver, Clock
<1>8. \A i \in DOMAIN events : events[i].version \in Nat /\ events[i].version <= row.version
  BY <1>0, EventTypes DEF RowsInv, Versions
<1>9. Versions'
  <2>1. \A u \in Readers' : /\ txn'[u].seen.version \in Nat
                             /\ txn'[u].seen.version < row'.version
    BY <1>0, <1>4, <1>5 DEF RowsInv, Versions
  <2> QED BY <1>0, <1>1, <1>5, <1>8, <2>1 DEF Versions
<1>10. Born'
  <2>1. row'.life # "ABSENT" /\ row.life # "ABSENT"
    BY <1>0, <1>1, <1>2, <1>5 DEF RowsInv, Born, Columns
  <2> QED BY <1>1, <1>2, <1>3, <1>4, <2>1 DEF RowsInv, Born
<1>11. Intends' /\ Holds'
  BY <1>1, <1>4, SceneStays DEF RowsInv, Intends, Holds
<1>12. LastEventTells'
  <2>1. Reports' = Reports /\ Told' = Told
    BY <1>1, SceneStays DEF Reports
  <2>2. \A e \in DOMAIN events : Reported(e)' = Reported(e) /\ Unsure(e)' = Unsure(e)
    BY <1>1, <2>1 DEF Reported, Unsure
  <2> SUFFICES ASSUME NEW c \in Told, NEW e \in DOMAIN events,
                      c \in Reported(e), \A f \in DOMAIN events : f > e => c \notin Reported(f),
                      ~Unsure(e), ~Rewritten(c, e)'
               PROVE  row'[c] = events[e].said[c]
    BY <1>1, <2>1, <2>2 DEF LastEventTells
  <2>3. c # "position"
    BY <1>0, <1>1, <1>8 DEF Rewritten
  <2>4. c \notin ReportsOf(x.op) /\ ~Hidden(x.op, c) /\ ~Rewritten(c, e)
    BY <1>0, <1>1, <2>3, SilentReportNothing DEF Hidden, Rewritten
  <2>5. row'[c] = x.new[c] /\ x.new[c] = row[c]
    BY <1>0, <1>4, <1>5, <2>4, SceneOps DEF RowsInv, Holds
  <2> QED BY <2>4, <2>5 DEF RowsInv, LastEventTells
<1> QED BY <1>6, <1>7, <1>9, <1>10, <1>11, <1>12 DEF RowsInv
-----------------------------------------------------------------------------
(* The listeners. *)

(* The handlers only add events: what the listeners know stays true. *)
LEMMA ListenersStay ==
  ASSUME ListenersInv, UNCHANGED <<scene, listeners>>,
         \A e \in DOMAIN events : e \in DOMAIN events' /\ events'[e] = events[e]
  PROVE  ListenersInv'
<1>1. UNCHANGED <<held, work, heard, feed>> /\ Subject' = Subject /\ Reports' = Reports
  BY SceneStays DEF listeners, Reports
<1>2. \A e \in DOMAIN events : Reported(e)' = Reported(e)
  BY <1>1 DEF Reported
<1>3. \A s : Recent(s) => Recent(s)'
  BY <1>1 DEF Recent
<1>4. FeedOK'
  BY <1>1, <1>2, <1>3 DEF ListenersInv, FeedOK
<1>5. Known' = Known
  BY <1>1 DEF Known
<1>6. WorkOK'
  BY <1>1, <1>3, <1>5 DEF ListenersInv, WorkOK
<1>7. DeliveredAppearsOnce'
  BY <1>1, <1>5 DEF ListenersInv, DeliveredAppearsOnce
<1> QED BY <1>4, <1>6, <1>7 DEF ListenersInv

(* While the rows stay, so does what an activity may show. *)
LEMMA RecentStays ==
  ASSUME UNCHANGED <<scene, events>>
  PROVE  /\ \A e : Reported(e)' = Reported(e)
         /\ \A s : Recent(s)' = Recent(s)
<1>1. Subject' = Subject /\ Reports' = Reports
  BY SceneStays DEF Reports
<1> QED BY <1>1 DEF Reported, Recent

(* While the feed stays, so does what is known of it. *)
LEMMA FeedStays ==
  ASSUME ListenersInv, UNCHANGED <<scene, rows, feed>>
  PROVE  FeedOK' /\ Known' = Known /\ UNCHANGED <<scene, events>>
<1>1. UNCHANGED <<scene, events>>
  BY DEF rows
<1> QED BY <1>1, RecentStays DEF ListenersInv, FeedOK, Known

(* What a process finds of the subject is as new as the event that had it  *)
(* look, now or before.                                                    *)
LEMMA FoundIsRecent ==
  ASSUME RowsInv, ListenersInv, NEW p \in Paths, NEW e \in {0} \cup DOMAIN events
  PROVE  /\ FoundById(p, e) \in Copy /\ Recent(FoundById(p, e))
         /\ e # 0 => Shown(p, e) \in Copy /\ Recent(Shown(p, e))
<1>1. /\ e \in Nat /\ row.version \in Nat
      /\ e # 0 => e \in DOMAIN events /\ events[e].version \in Nat /\ events[e].version <= row.version
  BY EventTypes DEF RowsInv, Versions
<1>2. held[p] \in Copy /\ Recent(held[p])
  BY DEF ListenersInv, WorkOK
<1>3. PICK y : y = [version |-> row.version, from |-> e]
  OBVIOUS
<1>4. y \in Copy /\ Recent(y)
  BY <1>1, <1>3 DEF Copy, Recent
<1>5. FoundById(p, e) \in {held[p], y}
  BY <1>3 DEF FoundById
<1>6. FoundById(p, e) \in Copy /\ Recent(FoundById(p, e))
  BY <1>2, <1>4, <1>5
<1>7. ASSUME e # 0, Subject = "project" PROVE Shown(p, e) \in Copy /\ Recent(Shown(p, e))
  <2>1. PICK z : z = ProjectShown(p, e)
    OBVIOUS
  <2>2. z.version \in {row.version, 0} /\ z.from = e /\ z \in Copy
    BY <1>1, <2>1 DEF ProjectShown, Copy
  <2>3. Recent(z)
    BY <1>1, <1>7, <2>2 DEF Recent
  <2> QED BY <1>7, <2>1, <2>2, <2>3 DEF Shown
<1>8. ASSUME Subject \in {"task", "section"} PROVE Shown(p, e) = FoundById(p, e)
  BY <1>8 DEF Shown, TaskShown, SectionShown
<1> QED BY <1>6, <1>7, <1>8, SubjectOf DEF RowsInv

(* What the listener shows of the row is as new as the event that had its  *)
(* process look.                                                           *)
LEMMA FindInv ==
  ASSUME RowsInv, ListenersInv, NEW p \in Paths, NEW e \in DOMAIN events, FindByEventId(p, e)
  PROVE  ListenersInv'
<1>1. PICK s : s = Shown(p, e)
  OBVIOUS
<1> DEFINE w == [event |-> e, found |-> e \in Known, shown |-> s]
<1>3. PICK h : h = IF Subject = "project" THEN held[p] ELSE s
  OBVIOUS
<1>4. /\ work' = [work EXCEPT ![p] = w] /\ held' = [held EXCEPT ![p] = h]
      /\ UNCHANGED <<scene, rows, heard, feed>>
  BY <1>1, <1>3 DEF FindByEventId
<1>5. e \in Nat /\ e # 0
  BY EventTypes DEF RowsInv
<1>6. s \in Copy /\ Recent(s)
  BY <1>1, <1>5, FoundIsRecent
<1>7. h \in Copy /\ Recent(h)
  BY <1>3, <1>6 DEF ListenersInv, WorkOK
<1>8. w \in Finding /\ w.event = e /\ w.found = (e \in Known) /\ w.shown = s
  BY <1>5, <1>6 DEF Finding
<1> HIDE DEF w
<1>9. FeedOK' /\ Known' = Known /\ UNCHANGED <<scene, events>>
  BY <1>4, FeedStays
<1>10. WorkOK'
  <2>1. /\ work' \in [Paths -> {NoWork} \cup Finding] /\ work'[p] = w
        /\ held' \in [Paths -> Copy] /\ held'[p] = h
        /\ \A q \in Paths \ {p} : work'[q] = work[q] /\ held'[q] = held[q]
    BY <1>4, <1>7, <1>8 DEF ListenersInv, WorkOK
  <2> QED BY <1>6, <1>7, <1>8, <1>9, <2>1, RecentStays DEF ListenersInv, WorkOK
<1>11. DeliveredAppearsOnce'
  BY <1>4, <1>9 DEF ListenersInv, DeliveredAppearsOnce
<1> QED BY <1>9, <1>10, <1>11 DEF ListenersInv

(* A process that takes or drops its copy of the subject, and one whose    *)
(* listener ends, leave the feed as it is.                                 *)
LEMMA CopyInv ==
  ASSUME RowsInv, ListenersInv, NEW p \in Paths, NEW h \in Copy, Recent(h),
         held' \in {held, [held EXCEPT ![p] = h]},
         work' \in {work, [work EXCEPT ![p] = NoWork]},
         UNCHANGED <<scene, rows, feed>>, heard' \subseteq Known
  PROVE  ListenersInv'
<1>1. FeedOK' /\ Known' = Known /\ UNCHANGED <<scene, events>>
  BY FeedStays
<1>2. WorkOK'
  <2>1. /\ held' \in [Paths -> Copy] /\ held'[p] \in {held[p], h}
        /\ work' \in [Paths -> {NoWork} \cup Finding] /\ work'[p] \in {work[p], NoWork}
        /\ \A q \in Paths \ {p} : work'[q] = work[q] /\ held'[q] = held[q]
    BY DEF ListenersInv, WorkOK
  <2> QED BY <1>1, <2>1, RecentStays DEF ListenersInv, WorkOK
<1>3. DeliveredAppearsOnce'
  BY <1>1 DEF ListenersInv, DeliveredAppearsOnce
<1> QED BY <1>1, <1>2, <1>3 DEF ListenersInv

(* The unique event id lets an append through only for an event unknown. *)
LEMMA AppendInv ==
  ASSUME RowsInv, ListenersInv, NEW p \in Paths, AppendActivity(p)
  PROVE  ListenersInv' /\ feed \subseteq feed'
<1> DEFINE w == work[p]
<1>1. PICK id \in 1 .. MaxCommits :
        (\A a \in feed : a.id # id) /\ feed' = feed \cup {NewActivity(id, w)}
  BY DEF AppendActivity
<1> DEFINE a == NewActivity(id, w)
<1>2. /\ w # NoWork /\ w.event \notin Known /\ UNCHANGED <<scene, events, held>>
      /\ work' = [work EXCEPT ![p] = NoWork]
      /\ heard' = heard \cup {w.event}
      /\ work \in [Paths -> {NoWork} \cup Finding]
  BY DEF AppendActivity, Return, rows, ListenersInv, WorkOK
<1>3. w.event \in DOMAIN events /\ Recent(w.shown)
  BY <1>2 DEF ListenersInv, WorkOK
<1>4. /\ a.id = id /\ a.event = w.event /\ a.at = events[w.event].at /\ a.shown = w.shown
      /\ a.said = [c \in Reported(w.event) |-> events[w.event].said[c]]
      /\ id \in Nat
  BY DEF NewActivity, OccurredAt
<1> HIDE DEF a
<1>5. feed' = feed \cup {a} /\ Known' = Known \cup {w.event}
  BY <1>1, <1>4 DEF Known, a
<1>6. FeedOK'
  <2>1. IsFiniteSet(feed')
    BY <1>5, FS_AddElement DEF ListenersInv, FeedOK
  <2> QED BY <1>1, <1>2, <1>3, <1>4, <1>5, <2>1, RecentStays DEF ListenersInv, FeedOK
<1>7. WorkOK'
  BY <1>2, <1>5, RecentStays DEF ListenersInv, WorkOK
<1>8. DeliveredAppearsOnce'
  <2>1. \A b \in feed : b.event \in Known
    BY DEF Known
  <2> QED BY <1>2, <1>4, <1>5, <2>1 DEF ListenersInv, DeliveredAppearsOnce
<1> QED BY <1>5, <1>6, <1>7, <1>8 DEF ListenersInv

(* A step of a listener or of its process. *)
LEMMA ListenInv ==
  ASSUME RowsInv, ListenersInv, NEW p \in Paths, Listen(p) \/ Restart(p)
  PROVE  ListenersInv' /\ feed \subseteq feed'
<1>1. NoCopy \in Copy /\ Recent(NoCopy) /\ heard \subseteq Known
  BY DEF NoCopy, Copy, Recent, ListenersInv, DeliveredAppearsOnce
<1>2. CASE \E e \in DOMAIN events : FindByEventId(p, e)
  BY <1>2, FindInv DEF FindByEventId
<1>3. CASE SectionName(p)
  <2>1. FoundById(p, 0) \in Copy /\ Recent(FoundById(p, 0))
    BY FoundIsRecent
  <2> QED BY <1>1, <1>3, <2>1, CopyInv DEF SectionName
<1>4. CASE AlreadyAppended(p) \/ AppendRefused(p)
  <2>1. work[p].event \in Known
    BY <1>4 DEF AlreadyAppended, AppendRefused, ListenersInv, WorkOK
  <2>2. heard' \subseteq Known
    BY <1>1, <1>4, <2>1 DEF AlreadyAppended, AppendRefused, Return
  <2> QED BY <1>1, <1>4, <2>2, CopyInv DEF AlreadyAppended, AppendRefused, Return
<1>5. CASE ListenerFails(p) \/ Restart(p)
  BY <1>1, <1>5, CopyInv DEF ListenerFails, Restart
<1> QED BY <1>2, <1>3, <1>4, <1>5, AppendInv DEF Listen
-----------------------------------------------------------------------------
(* The reader. *)

(* A nonempty set of naturals has a least element. *)
LEMMA LeastNatural ==
  ASSUME NEW T \in SUBSET Nat, T # {}
  PROVE  \E n \in T : \A m \in T : n <= m
<1> DEFINE R == {ss \in Nat \X Nat : ss[1] < ss[2]}
<1>1. IsWellFoundedOn(R, Nat)
  BY NatLessThanWellFounded DEF OpToRel
<1>2. \A m, n \in T : m < n => <<m, n>> \in R
  OBVIOUS
<1> HIDE DEF R
<1>3. \E n \in T : \A m \in T : ~(<<m, n>> \in R)
  BY <1>1, WFMin
<1>4. \A m, n \in T : m < n \/ n <= m
  OBVIOUS
<1> QED BY <1>2, <1>3, <1>4

(* A finite set has a minimal element in an order on it: one with fewest   *)
(* elements before it.                                                     *)
LEMMA FiniteMinimal ==
  ASSUME NEW S, IsFiniteSet(S), S # {}, NEW R,
         \A x \in S : <<x, x>> \notin R,
         \A x, y, z \in S : <<x, y>> \in R /\ <<y, z>> \in R => <<x, z>> \in R
  PROVE  \E x \in S : \A y \in S : <<y, x>> \notin R
<1> DEFINE before(x) == {y \in S : <<y, x>> \in R}
           T == {Cardinality(before(x)) : x \in S}
<1>1. \A x \in S : IsFiniteSet(before(x)) /\ Cardinality(before(x)) \in Nat
  <2> TAKE x \in S
  <2>1. before(x) \in SUBSET S
    OBVIOUS
  <2> HIDE DEF before
  <2> QED BY <2>1, FS_Subset, FS_CardinalityType
<1>2. PICK n \in T : \A m \in T : n <= m
  <2> HIDE DEF before
  <2>1. T \in SUBSET Nat /\ T # {}
    BY <1>1
  <2> HIDE DEF T
  <2> QED BY <2>1, LeastNatural
<1>3. PICK x \in S : n = Cardinality(before(x))
  OBVIOUS
<1>4. ASSUME NEW y \in S, <<y, x>> \in R PROVE FALSE
  <2>1. before(y) \subseteq before(x) /\ y \in before(x) /\ y \notin before(y)
    BY <1>4
  <2>2. Cardinality(before(y)) < Cardinality(before(x))
    <3>1. Cardinality(before(y)) <= Cardinality(before(x))
      BY <1>1, <2>1, FS_Subset
    <3>2. Cardinality(before(y)) # Cardinality(before(x))
      BY <1>1, <2>1, FS_Subset
    <3> HIDE DEF before
    <3> QED BY <1>1, <3>1, <3>2
  <2>3. Cardinality(before(y)) \in T
    OBVIOUS
  <2> HIDE DEF before, T
  <2> QED BY <1>1, <1>2, <1>3, <2>2, <2>3
<1> QED BY <1>4

Keys == Nat \X Nat

(* The order of the keys is a strict total one. *)
LEMMA BelowOrders ==
  /\ \A k \in Keys : ~Below(k, k)
  /\ \A k, m, n \in Keys : Below(k, m) /\ Below(m, n) => Below(k, n)
  /\ \A k, m \in Keys : Below(k, m) \/ Below(m, k) \/ k = m
  BY DEF Keys, Below

(* So is that of a set of activities whose keys differ. *)
Listed(S) == IsFiniteSet(S) /\ \A a, b \in S : Key(a) \in Keys /\ (Key(a) = Key(b) => a = b)

(* In a set of activities whose keys differ there are a first and a last   *)
(* one in the order of the feed.                                           *)
LEMMA LeastOfListed ==
  ASSUME NEW S, Listed(S), S # {}
  PROVE  /\ \E a \in S : \A b \in S : ~Below(Key(b), Key(a))
         /\ \E a \in S : \A b \in S : ~Below(Key(a), Key(b))
<1> DEFINE R == {p \in S \X S : Below(Key(p[1]), Key(p[2]))}
           Q == {p \in S \X S : Below(Key(p[2]), Key(p[1]))}
<1>1. \A x, y \in S : /\ <<x, y>> \in R <=> Below(Key(x), Key(y))
                      /\ <<x, y>> \in Q <=> Below(Key(y), Key(x))
  OBVIOUS
<1> HIDE DEF R, Q
<1>2. \A x \in S : Key(x) \in Keys
  BY DEF Listed
<1>3. /\ \A x \in S : <<x, x>> \notin R /\ <<x, x>> \notin Q
      /\ \A x, y, z \in S : <<x, y>> \in R /\ <<y, z>> \in R => <<x, z>> \in R
      /\ \A x, y, z \in S : <<x, y>> \in Q /\ <<y, z>> \in Q => <<x, z>> \in Q
  BY <1>1, <1>2, BelowOrders
<1>4. \E a \in S : \A b \in S : <<b, a>> \notin R
  BY <1>3, FiniteMinimal DEF Listed
<1>5. \E a \in S : \A b \in S : <<b, a>> \notin Q
  BY <1>3, FiniteMinimal DEF Listed
<1> QED BY <1>1, <1>4, <1>5

(* A page holds the greatest of what is found, and something if there is. *)
LEMMA PageIsOnTop ==
  ASSUME NEW found, Listed(found), NEW size \in Nat, size > 0
  PROVE  /\ Page(found, size) \subseteq found
         /\ Page(found, size) = {} => found = {}
         /\ \A a \in Page(found, size), b \in found :
              ~Below(Key(b), Key(a)) => b \in Page(found, size)
<1> DEFINE above(a) == {b \in found : Below(Key(a), Key(b))}
<1>1. \A a : a \in Page(found, size) <=> a \in found /\ Cardinality(above(a)) < size
  BY DEF Page
<1>2. ASSUME found # {} PROVE Page(found, size) # {}
  <2>1. PICK a \in found : \A b \in found : ~Below(Key(a), Key(b))
    BY <1>2, LeastOfListed
  <2>2. above(a) = {}
    BY <2>1
  <2>3. Cardinality(above(a)) < size
    BY <2>2, FS_EmptySet
  <2> QED BY <1>1, <2>3
<1>3. ASSUME NEW a \in Page(found, size), NEW b \in found, ~Below(Key(b), Key(a))
      PROVE  b \in Page(found, size)
  <2>1. above(b) \subseteq above(a) /\ a \in found
    <3>1. a \in found /\ \A c \in found : Key(c) \in Keys
      BY <1>1 DEF Listed
    <3>2. Below(Key(a), Key(b)) \/ Key(a) = Key(b)
      BY <1>3, <3>1, BelowOrders
    <3>3. \A c \in found : Below(Key(b), Key(c)) => Below(Key(a), Key(c))
      BY <3>1, <3>2, BelowOrders
    <3> QED BY <3>1, <3>3
  <2>2. above(a) \in SUBSET found /\ above(b) \in SUBSET above(a)
    BY <2>1
  <2>3. Cardinality(above(a)) < size
    BY <1>1
  <2> HIDE DEF above
  <2>4. IsFiniteSet(above(a))
    BY <2>2, FS_Subset DEF Listed
  <2>5. /\ Cardinality(above(a)) \in Nat /\ Cardinality(above(b)) \in Nat
        /\ Cardinality(above(b)) <= Cardinality(above(a))
    BY <2>2, <2>4, FS_Subset, FS_CardinalityType
  <2> QED BY <1>1, <2>3, <2>5
<1> QED BY <1>1, <1>2, <1>3

(* The feed and its parts have distinct keys. *)
LEMMA FeedListed ==
  ASSUME RowsOK, FeedOK, NEW S \in SUBSET feed
  PROVE  Listed(S)
<1>1. IsFiniteSet(S)
  BY FS_Subset DEF FeedOK
<1>2. \A a \in feed : a.id \in Nat /\ a.at \in Nat
  BY EventTypes DEF FeedOK
<1> QED BY <1>1, <1>2 DEF Listed, FeedOK, Key, Keys

(* The rows and the feed may grow: the walk stands. *)
LEMMA WalkStays ==
  ASSUME ReaderInv, reader' = reader, feed \subseteq feed'
  PROVE  ReaderInv'
  BY DEF ReaderInv, Walk, PagesCoverTheFeed, Key

(* A page asks for at least one activity. *)
LEMMA FirstsPositive ==
  ASSUME NEW first \in Int
  PROVE  NormalizeFirst(first) \in Nat /\ NormalizeFirst(first) > 0
<1>1. Max({first, 1}) \in {first, 1} /\ Max({first, 1}) >= 1
  <2>1. \E x \in {first, 1} : \A y \in {first, 1} : x >= y
    BY SMT
  <2> QED BY <2>1 DEF Max
<1>2. \A m \in Int : Min({m, 100}) \in {m, 100}
  <2> TAKE m \in Int
  <2>1. \E x \in {m, 100} : \A y \in {m, 100} : x <= y
    BY SMT
  <2> QED BY <2>1 DEF Min
<1> QED BY <1>1, <1>2 DEF NormalizeFirst

(* The next page: what is below the cursor, from the top. *)
LEMMA ListInv ==
  ASSUME RowsInv, ListenersInv, ReaderInv, NEW first \in Firsts, ListActivity(first)
  PROVE  ReaderInv'
<1> DEFINE found == After(reader.cursor)
           page  == Page(found, NormalizeFirst(first))
           least == CHOOSE a \in page : \A b \in page : ~Below(Key(b), Key(a))
<1>1. /\ ~reader.ended /\ feed' = feed
      /\ reader'.cursor = IF page = {} THEN NoCursor ELSE Key(least)
      /\ reader'.atStart = IF reader.cursor = NoCursor THEN feed ELSE reader.atStart
      /\ reader'.shown = reader.shown \cup page
      /\ reader'.twice = reader.twice \cup (reader.shown \cap page)
      /\ reader'.ended = (found = page)
  BY DEF ListActivity, listeners
<1>2. found \in SUBSET feed /\ \A a \in feed :
        a \in found <=> (reader.cursor # NoCursor => Below(Key(a), reader.cursor))
  BY DEF After
<1>3. Listed(found)
  BY <1>2, FeedListed DEF RowsInv, ListenersInv
<1>4. NormalizeFirst(first) \in Nat /\ NormalizeFirst(first) > 0
  BY FirstsPositive, ActivityAssumption
<1>5. /\ page \subseteq found
      /\ page = {} => found = {}
      /\ \A a \in page, b \in found : ~Below(Key(b), Key(a)) => b \in page
  BY <1>3, <1>4, PageIsOnTop
<1> HIDE DEF found
<1> HIDE DEF page
<1>6. page # {} => least \in page /\ \A b \in page : ~Below(Key(b), Key(least))
  <2>1. Listed(page)
    BY <1>3, <1>5, FS_Subset DEF Listed
  <2> QED BY <2>1, LeastOfListed
<1> HIDE DEF least
<1>7. reader.shown \cap page = {}
  BY <1>1, <1>2, <1>5 DEF ReaderInv, Walk
<1>8. \A a \in reader'.atStart : a \in reader.shown \/ a \in found
  BY <1>1, <1>2 DEF ReaderInv, Walk
<1>9. PagesCoverTheFeed'
  BY <1>1, <1>7, <1>8 DEF ReaderInv, PagesCoverTheFeed
<1>10. Walk'
  <2>1. page # {} => Key(least) \in Keys /\ Key(least) # NoCursor
    BY <1>3, <1>5, <1>6 DEF Listed, Keys, NoCursor
  <2>2. /\ reader'.cursor \in {NoCursor} \cup (Nat \X Nat) /\ reader'.ended \in BOOLEAN
        /\ reader'.cursor = NoCursor => reader'.ended
    BY <1>1, <1>5, <2>1 DEF Keys
  <2>3. reader'.shown \subseteq feed' /\ reader'.atStart \subseteq feed'
    BY <1>1, <1>2, <1>5 DEF ReaderInv, Walk
  <2>4. ASSUME page # {}, NEW a \in reader'.shown PROVE ~Below(Key(a), Key(least))
    <3>1. CASE a \in page
      BY <1>6, <2>4, <3>1
    <3>2. CASE a \in reader.shown
      <4>1. a \in feed /\ least \in feed /\ a # least
        BY <1>2, <1>5, <1>6, <1>7, <2>4, <3>2 DEF ReaderInv, Walk
      <4>2. Key(a) \in Keys /\ Key(least) \in Keys /\ reader.cursor \in Keys
            /\ ~Below(Key(a), reader.cursor) /\ Below(Key(least), reader.cursor)
        <5>1. \A b \in feed : Key(b) \in Keys
          BY FeedListed DEF Listed, RowsInv, ListenersInv
        <5> QED BY <1>1, <1>2, <1>5, <1>6, <2>4, <3>2, <4>1, <5>1 DEF ReaderInv, Walk, Keys
      <4> QED BY <4>2, BelowOrders
    <3> QED BY <1>1, <2>4, <3>1, <3>2
  <2>5. ASSUME page # {}, NEW a \in reader'.atStart
        PROVE  Below(Key(a), Key(least)) \/ a \in reader'.shown
    BY <1>1, <1>5, <1>6, <1>8, <2>5
  <2> QED
    BY <1>1, <2>2, <2>3, <2>4, <2>5 DEF Walk, Key
<1> QED BY <1>9, <1>10 DEF ReaderInv
-----------------------------------------------------------------------------
(* The invariant holds throughout. *)
LEMMA InitInv == Init => IInv
<1> SUFFICES ASSUME Init PROVE IInv
  OBVIOUS
<1>1. /\ scene \in Scenes /\ row \in Row /\ row.version = 0
      /\ row.life = IF scene \cap Creations = {} THEN "LIVE" ELSE "ABSENT"
      /\ \A t \in Requests : txn[t] = NoTxn
  BY DEF Init, Created, Absent, Row, Columns, Cells
<1>2. events = <<>> /\ now = 0 /\ rebalanced = 0 /\ txn = [t \in Requests |-> NoTxn]
  BY DEF Init
<1>3. RowsOK
  BY <1>1, <1>2 DEF RowsOK
<1>4. Savers = {} /\ Readers = {}
  BY <1>1 DEF Savers, Readers, NoTxn
<1>5. OneSaver /\ Clock /\ Versions /\ Born /\ Intends /\ Holds /\ LastEventTells
  BY <1>1, <1>2, <1>4 DEF OneSaver, Clock, Versions, Born, Intends, Holds, LastEventTells
<1>6. ListenersInv
  <2>1. NoCopy \in Copy /\ Recent(NoCopy)
    BY DEF NoCopy, Copy, Recent
  <2> QED BY <2>1, FS_EmptySet
          DEF Init, ListenersInv, FeedOK, WorkOK, DeliveredAppearsOnce, Known
<1>7. ReaderInv
  BY DEF Init, NoReader, ReaderInv, Walk, PagesCoverTheFeed
<1> QED BY <1>3, <1>5, <1>6, <1>7 DEF RowsInv, IInv

(* Handlers write rows and events, listeners the feed, and a reader its    *)
(* walk: each keeps its own part of the invariant, and the others' as      *)
(* they read it.                                                           *)
LEMMA StepInv == IInv /\ [Next]_vars => IInv'
<1> SUFFICES ASSUME IInv, [Next]_vars PROVE IInv'
  OBVIOUS
<1>0. RowsInv /\ ListenersInv /\ ReaderInv
  BY DEF IInv
<1>1. ASSUME NEW t \in Requests, Handle(t) PROVE IInv'
  <2>1. RowsInv'
    BY <1>0, <1>1, ReadInv, SaveInv, CommitInv, RebalanceInv, AbortInv DEF Handle
  <2>2. UNCHANGED <<scene, listeners, reader>>
    BY <1>1 DEF Handle, Read, Save, Commit, Abort
  <2>3. \A e \in DOMAIN events : e \in DOMAIN events' /\ events'[e] = events[e]
    <3>1. CASE Commit(t)
      <4>1. events' = events \/ \E ev : events' = Append(events, ev)
        BY <3>1 DEF Commit
      <4>2. DOMAIN events = 1 .. Len(events) /\ Len(events) \in Nat /\ events \in Seq(Event)
        BY <1>0, EventTypes DEF RowsInv, RowsOK
      <4> QED BY <4>1, <4>2
    <3>2. CASE ~Commit(t)
      BY <1>1, <3>2 DEF Handle, Read, Save, Abort
    <3> QED BY <3>1, <3>2
  <2>4. feed' = feed
    BY <2>2 DEF listeners
  <2> QED BY <1>0, <2>1, <2>2, <2>3, <2>4, ListenersStay, WalkStays DEF IInv
<1>2. ASSUME NEW p \in Paths, Listen(p) \/ Restart(p) PROVE IInv'
  <2>1. UNCHANGED <<scene, rows, reader>>
    BY <1>2 DEF Listen, FindByEventId, SectionName, AppendActivity, AlreadyAppended, AppendRefused,
                ListenerFails, Restart
  <2> QED BY <1>0, <1>2, <2>1, RowsStay, ListenInv, WalkStays DEF IInv
<1>3. ASSUME NEW first \in Firsts, ListActivity(first) PROVE IInv'
  <2>1. UNCHANGED <<scene, rows, listeners, events>>
    BY <1>3 DEF ListActivity, rows
  <2> QED BY <1>0, <1>3, <2>1, RowsStay, ListenersStay, ListInv DEF IInv
<1>4. CASE UNCHANGED vars
  <2>1. UNCHANGED <<scene, rows, listeners, reader, events, feed>>
    BY <1>4 DEF vars, rows, listeners
  <2> QED BY <1>0, <2>1, RowsStay, ListenersStay, WalkStays DEF IInv
<1> QED BY <1>1, <1>2, <1>3, <1>4 DEF Next

(* So every reachable state of the feed satisfies the invariant.           *)
LEMMA Invariance == Spec => []IInv
  BY InitInv, StepInv, PTL DEF Spec

(* No event has two activities, and one a listener has taken in, or been   *)
(* refused the append of, has one: though two paths look for it at the     *)
(* same time, and whichever listeners failed or were stopped.              *)
THEOREM EventsAppearOnce == Spec => []DeliveredAppearsOnce
<1>1. IInv => DeliveredAppearsOnce
  BY DEF IInv, ListenersInv
<1> QED BY Invariance, <1>1, PTL

(* An activity never shows its subject older than the event that had its   *)
(* process read it, however long the process has held the copy.            *)
THEOREM ActivitiesAreRecent == Spec => []ShowsTheChange
<1>1. IInv => ShowsTheChange
  BY DEF IInv, ListenersInv, FeedOK, Recent, ShowsTheChange
<1> QED BY Invariance, <1>1, PTL

(* The pages of a walk show nothing twice and miss nothing that was there  *)
(* when it began, whatever is appended meanwhile.                          *)
THEOREM PagesCover == Spec => []PagesCoverTheFeed
<1>1. IInv => PagesCoverTheFeed
  BY DEF IInv, ReaderInv
<1> QED BY Invariance, <1>1, PTL

(* The newest activity of a column says what the row says: its event is    *)
(* the column's last, since the times of the events never decrease; but a  *)
(* position no longer does once a rebalance has moved the row.             *)
THEOREM NewestActivityTells == Spec => []FeedTellsTheRow
<1>1. IInv => FeedTellsTheRow
  <2> SUFFICES ASSUME IInv, NEW c \in Told,
                      {e \in DOMAIN events : c \in Reported(e)} \subseteq Known,
                      NEW a \in feed, a.event \in {e \in DOMAIN events : c \in Reported(e)},
                      \A b \in feed \ {a} :
                        b.event \in {e \in DOMAIN events : c \in Reported(e)} => b.at < a.at,
                      ~Unsure(a.event), ~Rewritten(c, a.event)
               PROVE  a.said[c] = row[c]
    BY DEF FeedTellsTheRow
  <2>1. ASSUME NEW f \in DOMAIN events, f > a.event, c \in Reported(f) PROVE FALSE
    <3>1. PICK b \in feed : b.event = f
      BY <2>1 DEF Known
    <3>2. b # a /\ b.at = events[f].at /\ a.at = events[a.event].at /\ b.at < a.at
      <4>1. f \in Nat /\ a.event \in Nat
        BY EventTypes DEF IInv, RowsInv
      <4>2. b # a
        BY <2>1, <3>1, <4>1
      <4> QED BY <2>1, <3>1, <4>2 DEF IInv, ListenersInv, FeedOK
    <3>3. events[a.event].at <= events[f].at
      BY <2>1, EventTypes DEF IInv, RowsInv, Clock
    <3>4. events[a.event].at \in Nat /\ events[f].at \in Nat
      BY EventTypes DEF IInv, RowsInv
    <3> QED BY <3>2, <3>3, <3>4
  <2>2. row[c] = events[a.event].said[c]
    BY <2>1 DEF IInv, RowsInv, LastEventTells
  <2>3. a.said[c] = events[a.event].said[c]
    BY DEF IInv, ListenersInv, FeedOK
  <2> QED BY <2>2, <2>3
<1> QED BY Invariance, <1>1, PTL
=============================================================================
