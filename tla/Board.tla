------------------------------- MODULE Board -------------------------------
(***************************************************************************)
(* One project of a workspace: its members, its sections and its tasks,    *)
(* and the handlers of the project and task modules that change them.      *)
(*                                                                         *)
(* As in Membership a handler is one READ COMMITTED transaction of reads,  *)
(* rules and writes, rows carry no version, and a flush writes only the    *)
(* columns the handler changed.  A handler that commits on reads older     *)
(* than another one's commit has raced.  Positions are Ordering's, and     *)
(* names, dates and priorities in nobody's rules: a handler that writes    *)
(* only those is here for whom and when it is refused, and commits         *)
(* without a trace; what it writes is in Activity.                         *)
(***************************************************************************)
EXTENDS Integers, Functions

CONSTANTS
  Users,      \* members of the workspace
  Nobody,     \* the assignee of a task without one
  Admins,     \* those who own or administer it
  Creator,    \* the project's first owner
  Sections,
  General,    \* the section every project is created with
  Tasks,
  Requests,   \* handlers that run at the same time
  MaxRows     \* bound: rows there ever are in project_members

ASSUME BoardAssumption ==
  /\ Nobody \notin Users
  /\ Admins \subseteq Users /\ Creator \in Users
  /\ General \in Sections
  /\ MaxRows \in Nat \ {0}

VARIABLES
  project,  \* the row of projects
  member,   \* role of each user's row in project_members, NONE without a row
  rowId,    \* identity of that row: how many rows the user has had
  section,  \* the table project_sections
  task,     \* the table tasks
  txn,      \* what each handler has decided to write
  stale,    \* handlers whose reads are older than another one's commit
  raced     \* history: kinds of handlers that committed on stale reads

tables == <<project, member, rowId, section, task>>
vars   == <<tables, txn, stale, raced>>

Role   == {"OWNER", "MEMBER"}
NoTxn  == [op |-> "none"]

Txn ==
  {NoTxn}
    \cup [op : {"touch", "archive", "restore", "deleteProject"}]
    \cup [op : {"addMember"}, user : Users]
    \cup [op : {"removeMember"}, user : Users, row : Nat]
    \cup [op : {"transfer"}, from : Users, fromRow : Nat, to : Users, toRow : Nat,
          demote : BOOLEAN, promote : BOOLEAN]
    \cup [op : {"createSection", "deleteSection", "restoreSection"}, section : Sections]
    \cup [op : {"createTask"}, task : Tasks, section : Sections, assignee : Users \cup {Nobody}]
    \cup [op : {"moveTask"}, task : Tasks, section : Sections]
    \cup [op : {"assign"}, task : Tasks, assignee : Users \cup {Nobody}]
    \cup [op : {"deleteTask"}, task : Tasks]

(* What a handler is about, as the races are told apart.                   *)
Kind(op) ==
  CASE op \in {"createTask", "moveTask", "deleteSection"} -> {"placement"}
    [] op \in {"addMember", "removeMember", "transfer"} -> {"members"}
    [] OTHER -> {}

Joined(u)   == member[u] # "NONE"
Found       == ~project.deleted
Active      == Found /\ ~project.archived
LiveIn(s)   == {k \in Tasks : task[k].status = "LIVE" /\ task[k].section = s}
Eligible(u) == u # Nobody => Joined(u) \/ u = project.owner

(* CreateProject has committed: the project, its owner's membership and    *)
(* the section General.                                                    *)
Init ==
  /\ project = [owner |-> Creator, archived |-> FALSE, deleted |-> FALSE]
  /\ member = [u \in Users |-> IF u = Creator THEN "OWNER" ELSE "NONE"]
  /\ rowId = [u \in Users |-> IF u = Creator THEN 1 ELSE 0]
  /\ section = [s \in Sections |-> IF s = General THEN "ACTIVE" ELSE "ABSENT"]
  /\ task = [k \in Tasks |-> [status |-> "ABSENT", section |-> General, assignee |-> Nobody]]
  /\ txn = [t \in Requests |-> NoTxn]
  /\ stale = {}
  /\ raced = {}
-----------------------------------------------------------------------------
(* Who may do what: the access services.                                   *)

CanManageProject(a) == a \in Admins \/ a = project.owner \/ member[a] = "OWNER"
CanViewProject(a)   == a \in Admins \/ Joined(a)
CanUpdateTask(a)    == CanManageProject(a) \/ Joined(a)

Manager == {a \in Users : CanManageProject(a)} # {}
Editor  == {a \in Users : CanUpdateTask(a)} # {}
Viewer  == {a \in Users : CanViewProject(a)} # {}

(* The reads and the rules.  A request the rules reject, or that changes   *)
(* nothing, is not a step.                                                 *)
Decide(t, decision) ==
  /\ txn[t] = NoTxn
  /\ txn' = [txn EXCEPT ![t] = decision]
  /\ UNCHANGED <<tables, stale, raced>>

Touch(t) == Decide(t, [op |-> "touch"])

UpdateProjectDetails(t) == Active /\ Manager /\ Touch(t)
UpdateProjectHealth(t)  == Active /\ Manager /\ Touch(t)
UpdateProjectDates(t)   == Active /\ Manager /\ Touch(t)

ArchiveProject(t) == Active /\ Manager /\ Decide(t, [op |-> "archive"])
RestoreProject(t) ==
  Found /\ project.archived /\ Manager /\ Decide(t, [op |-> "restore"])
DeleteProject(t)  == Found /\ Admins # {} /\ Decide(t, [op |-> "deleteProject"])

(* An archived project still gains and loses members.                      *)
AddProjectMember(t, u) ==
  /\ Found /\ Manager
  /\ ~Joined(u)
  /\ Decide(t, [op |-> "addMember", user |-> u])

(* Mutant: the owner can be removed like anyone else. *)
MutantRemoveOwner(t, u) ==
  /\ Found /\ Manager
  /\ Joined(u)
  /\ Decide(t, [op |-> "removeMember", user |-> u, row |-> rowId[u]])

RemoveProjectMember(t, u) ==
  /\ Found /\ Manager
  /\ member[u] = "MEMBER" /\ u # project.owner
  /\ Decide(t, [op |-> "removeMember", user |-> u, row |-> rowId[u]])

(* A target without a row gets one: its row is then 0.                     *)
TransferProjectOwnership(t, u) ==
  /\ Active /\ Manager
  /\ u # project.owner
  /\ Joined(project.owner)
  /\ Decide(t, [op |-> "transfer", from |-> project.owner, fromRow |-> rowId[project.owner],
                to |-> u, toRow |-> IF Joined(u) THEN rowId[u] ELSE 0,
                demote |-> member[project.owner] = "OWNER", promote |-> member[u] # "OWNER"])

CreateProjectSection(t, s) ==
  /\ Active /\ Manager
  /\ section[s] = "ABSENT"
  /\ \A r \in Requests : txn[r] # [op |-> "createSection", section |-> s]
  /\ Decide(t, [op |-> "createSection", section |-> s])

RenameProjectSection(t, s)  == Active /\ Manager /\ section[s] = "ACTIVE" /\ Touch(t)
ReorderProjectSection(t, s) == Active /\ Manager /\ section[s] = "ACTIVE" /\ Touch(t)

(* Mutant: the section's tasks are not counted. *)
MutantDeleteUsedSection(t, s) ==
  /\ Active /\ Manager
  /\ section[s] = "ACTIVE"
  /\ Decide(t, [op |-> "deleteSection", section |-> s])

DeleteProjectSection(t, s) ==
  /\ Active /\ Manager
  /\ section[s] = "ACTIVE"
  /\ LiveIn(s) = {}
  /\ Decide(t, [op |-> "deleteSection", section |-> s])

RestoreProjectSection(t, s) ==
  /\ Active /\ Manager
  /\ section[s] = "DELETED"
  /\ Decide(t, [op |-> "restoreSection", section |-> s])

(* The section asked for, or the first one, must be an active one.         *)
CreateTask(t, k, s, u) ==
  /\ Active /\ Viewer
  /\ section[s] = "ACTIVE"
  /\ Eligible(u)
  /\ task[k].status = "ABSENT"
  /\ \A r \in Requests : txn[r].op = "createTask" => txn[r].task # k
  /\ Decide(t, [op |-> "createTask", task |-> k, section |-> s, assignee |-> u])

FindTask(k) == Active /\ task[k].status = "LIVE"

UpdateTaskDetails(t, k)  == FindTask(k) /\ Editor /\ Touch(t)
ChangeTaskPriority(t, k) == FindTask(k) /\ Editor /\ Touch(t)
SetTaskDueDate(t, k)     == FindTask(k) /\ Editor /\ Touch(t)
CompleteTask(t, k)       == FindTask(k) /\ Editor /\ Touch(t)
ReopenTask(t, k)         == FindTask(k) /\ Editor /\ Touch(t)
ReorderTask(t, k)        == FindTask(k) /\ Editor /\ Touch(t)

MoveTaskToSection(t, k, s) ==
  /\ FindTask(k) /\ Editor
  /\ section[s] = "ACTIVE" /\ s # task[k].section
  /\ Decide(t, [op |-> "moveTask", task |-> k, section |-> s])

(* Mutant: any user of the workspace can be given the task. *)
MutantAssignAnyone(t, k, u) ==
  /\ FindTask(k) /\ Editor
  /\ u # task[k].assignee
  /\ Decide(t, [op |-> "assign", task |-> k, assignee |-> u])

AssignTask(t, k, u) ==
  /\ FindTask(k) /\ Editor
  /\ Eligible(u) /\ u # task[k].assignee
  /\ Decide(t, [op |-> "assign", task |-> k, assignee |-> u])

UnassignTask(t, k) ==
  /\ FindTask(k) /\ Editor
  /\ task[k].assignee # Nobody
  /\ Decide(t, [op |-> "assign", task |-> k, assignee |-> Nobody])

(* Mutant: the project is not asked whether it is archived. *)
MutantDeleteArchivedTask(t, k) ==
  /\ Found /\ task[k].status = "LIVE" /\ Manager
  /\ Decide(t, [op |-> "deleteTask", task |-> k])

DeleteTask(t, k) ==
  FindTask(k) /\ Manager /\ Decide(t, [op |-> "deleteTask", task |-> k])
-----------------------------------------------------------------------------
(* The writes and the commit.  A row is written by its id: when it is gone *)
(* the statement affects no row, and the handler goes on.                  *)

Commit(t) ==
  /\ raced' = IF t \in stale THEN raced \cup Kind(txn[t].op) ELSE raced
  /\ txn' = [txn EXCEPT ![t] = NoTxn]
  /\ stale' = {r \in Requests \ {t} : txn[r] # NoTxn}

RowAt(u, row) == Joined(u) /\ rowId[u] = row

(* Nothing another handler reads has changed.                              *)
CommitTouch(t) ==
  /\ txn[t].op = "touch"
  /\ txn' = [txn EXCEPT ![t] = NoTxn]
  /\ stale' = stale \ {t}
  /\ UNCHANGED <<tables, raced>>

CommitProject(t) ==
  /\ project' = CASE txn[t].op = "archive" -> [project EXCEPT !.archived = TRUE]
                  [] txn[t].op = "restore" -> [project EXCEPT !.archived = FALSE]
                  [] txn[t].op = "deleteProject" -> [project EXCEPT !.deleted = TRUE]
                  [] OTHER -> project
  /\ txn[t].op \in {"archive", "restore", "deleteProject"}
  /\ Commit(t)
  /\ UNCHANGED <<member, rowId, section, task>>

RowsEver == FoldFunction(+, 0, rowId)

(* A second row of the user would violate the unique constraint: the       *)
(* handler can then only abort.                                            *)
Insert(u) ==
  /\ ~Joined(u)
  /\ RowsEver < MaxRows
  /\ rowId' = [rowId EXCEPT ![u] = @ + 1]

(* Mutant: the role of the workspace is given, not the project's. *)
MutantAddAdmin(t) ==
  /\ txn[t].op = "addMember"
  /\ Insert(txn[t].user)
  /\ member' = [member EXCEPT ![txn[t].user] = "ADMIN"]
  /\ Commit(t)
  /\ UNCHANGED <<project, section, task>>

CommitAddMember(t) ==
  /\ txn[t].op = "addMember"
  /\ Insert(txn[t].user)
  /\ member' = [member EXCEPT ![txn[t].user] = "MEMBER"]
  /\ Commit(t)
  /\ UNCHANGED <<project, section, task>>

CommitRemoveMember(t) ==
  /\ txn[t].op = "removeMember"
  /\ member' = IF RowAt(txn[t].user, txn[t].row)
                THEN [member EXCEPT ![txn[t].user] = "NONE"] ELSE member
  /\ Commit(t)
  /\ UNCHANGED <<project, rowId, section, task>>

CommitTransfer(t) ==
  /\ txn[t].op = "transfer"
  /\ IF txn[t].toRow = 0 THEN Insert(txn[t].to) ELSE UNCHANGED rowId
  /\ project' = [project EXCEPT !.owner = txn[t].to]
  /\ member' = [u \in Users |->
       IF u = txn[t].to /\ (txn[t].toRow = 0 \/ (txn[t].promote /\ RowAt(u, txn[t].toRow)))
         THEN "OWNER"
       ELSE IF u = txn[t].from /\ txn[t].demote /\ RowAt(u, txn[t].fromRow) THEN "MEMBER"
       ELSE member[u]]
  /\ Commit(t)
  /\ UNCHANGED <<section, task>>

CommitSection(t) ==
  /\ txn[t].op \in {"createSection", "deleteSection", "restoreSection"}
  /\ section' = [section EXCEPT ![txn[t].section] =
                   IF txn[t].op = "deleteSection" THEN "DELETED" ELSE "ACTIVE"]
  /\ Commit(t)
  /\ UNCHANGED <<project, member, rowId, task>>

WriteTask(t) ==
  LET d == txn[t] IN
  CASE d.op = "createTask" -> [status |-> "LIVE", section |-> d.section, assignee |-> d.assignee]
    [] d.op = "moveTask"   -> [task[d.task] EXCEPT !.section = d.section]
    [] d.op = "assign"     -> [task[d.task] EXCEPT !.assignee = d.assignee]
    [] d.op = "deleteTask" -> [task[d.task] EXCEPT !.status = "DELETED"]

CommitTask(t) ==
  /\ txn[t].op \in {"createTask", "moveTask", "assign", "deleteTask"}
  /\ task' = [task EXCEPT ![txn[t].task] = WriteTask(t)]
  /\ Commit(t)
  /\ UNCHANGED <<project, member, rowId, section>>

(* A failed statement, a deadlock, a lost connection or a crash.           *)
Abort(t) ==
  /\ txn[t] # NoTxn
  /\ txn' = [txn EXCEPT ![t] = NoTxn]
  /\ stale' = stale \ {t}
  /\ UNCHANGED <<tables, raced>>

HandleProject(t) ==
  \/ UpdateProjectDetails(t) \/ UpdateProjectHealth(t) \/ UpdateProjectDates(t)
  \/ ArchiveProject(t) \/ RestoreProject(t) \/ DeleteProject(t)
  \/ \E u \in Users :
       AddProjectMember(t, u) \/ RemoveProjectMember(t, u) \/ TransferProjectOwnership(t, u)
  \/ \E s \in Sections :
       \/ CreateProjectSection(t, s) \/ RenameProjectSection(t, s) \/ ReorderProjectSection(t, s)
       \/ DeleteProjectSection(t, s) \/ RestoreProjectSection(t, s)

HandleTask(t, k) ==
  \/ UpdateTaskDetails(t, k) \/ ChangeTaskPriority(t, k) \/ SetTaskDueDate(t, k)
  \/ CompleteTask(t, k) \/ ReopenTask(t, k) \/ ReorderTask(t, k)
  \/ UnassignTask(t, k) \/ DeleteTask(t, k)
  \/ \E s \in Sections : MoveTaskToSection(t, k, s)
  \/ \E u \in Users : AssignTask(t, k, u)
  \/ \E s \in Sections, u \in Users \cup {Nobody} : CreateTask(t, k, s, u)

Finish(t) ==
  \/ CommitTouch(t) \/ CommitProject(t) \/ CommitAddMember(t) \/ CommitRemoveMember(t)
  \/ CommitTransfer(t) \/ CommitSection(t) \/ CommitTask(t) \/ Abort(t)

Next ==
  \E t \in Requests :
    HandleProject(t) \/ (\E k \in Tasks : HandleTask(t, k)) \/ Finish(t)

Spec == Init /\ [][Next]_vars
-----------------------------------------------------------------------------
TypeOK ==
  /\ project \in [owner : Users, archived : BOOLEAN, deleted : BOOLEAN]
  /\ member \in [Users -> Role \cup {"NONE"}]
  /\ rowId \in [Users -> Nat]
  /\ section \in [Sections -> {"ABSENT", "ACTIVE", "DELETED"}]
  /\ task \in [Tasks -> [status : {"ABSENT", "LIVE", "DELETED"}, section : Sections,
                         assignee : Users \cup {Nobody}]]
  /\ txn \in [Requests -> Txn]
  /\ stale \subseteq Requests
  /\ raced \subseteq {"placement", "members"}

(* A live task is in an active section unless a handler that places tasks  *)
(* raced: creating, moving and deleting tasks, deleting and restoring      *)
(* sections keep to it, whatever happens to the project and its members.   *)
LiveTasksHaveSections ==
  "placement" \notin raced =>
    \A k \in Tasks : task[k].status = "LIVE" => section[task[k].section] = "ACTIVE"

(* The owner named by the project is the one member with the role OWNER,   *)
(* unless two handlers on members raced: the two tables are written by one *)
(* transfer and never drift apart, archived or not.                        *)
OneProjectOwner ==
  "members" \notin raced => {u \in Users : member[u] = "OWNER"} = {project.owner}

(* Nobody is assigned who never was a member of the project, in any race:  *)
(* a former member may keep a task, a stranger never gets one.             *)
AssigneesWereMembers ==
  \A k \in Tasks : task[k].assignee # Nobody => rowId[task[k].assignee] > 0

(* Sections and tasks of an archived or deleted project change only by a   *)
(* handler that had read the project before it was archived or deleted.    *)
FrozenProject ==
  [][~Active /\ (section' # section \/ task' # task) =>
       \E t \in stale : txn[t] # NoTxn /\ txn'[t] = NoTxn]_vars
=============================================================================
