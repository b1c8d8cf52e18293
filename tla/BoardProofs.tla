----------------------------- MODULE BoardProofs -----------------------------
(***************************************************************************)
(* Proofs about the project board, for every set of users, sections, tasks *)
(* and overlapping handlers.                                               *)
(*                                                                         *)
(* A handler's decision rests on what it has read.  Until another handler  *)
(* commits, that is still so (StillTrue); whatever others commit, some of  *)
(* it stays so (Lasting).  The invariants follow from the one for the      *)
(* handlers that have not raced and from the other for all of them.  The   *)
(* list view is put together while these handlers run: what was listed, or *)
(* has joined since, has a place for every task (ViewInv).                 *)
(***************************************************************************)
EXTENDS ListView, TLAPS

Placements == {"createTask", "moveTask", "assign", "deleteTask",
               "createSection", "deleteSection", "restoreSection"}

(* What a decision d rests on, as long as nobody else commits. *)
StillTrue(d) ==
  /\ d.op \in Placements => Active
  /\ d.op \in {"createTask", "moveTask"} => section[d.section] = "ACTIVE"
  /\ d.op = "deleteSection" => LiveIn(d.section) = {}
  /\ "members" \notin raced =>
       /\ d.op = "removeMember" => member[d.user] = "MEMBER"
       /\ d.op = "transfer" =>
            /\ d.from = project.owner /\ d.to # d.from
            /\ d.fromRow = rowId[d.from] /\ d.demote /\ d.promote
            /\ d.toRow # 0 => RowAt(d.to, d.toRow)

(* What it rests on for ever: users who had a row. *)
Lasting(d) ==
  /\ d.op \in {"createTask", "assign"} /\ d.assignee # Nobody => rowId[d.assignee] > 0
  /\ d.op = "transfer" /\ d.toRow # 0 => rowId[d.to] > 0

Decisions ==
  \A t \in Requests : Lasting(txn[t]) /\ (t \notin stale => StillTrue(txn[t]))

(* Members and the owner have, or have had, a row. *)
RowsExist ==
  /\ \A u \in Users : Joined(u) => rowId[u] > 0
  /\ rowId[project.owner] > 0

IInv ==
  /\ TypeOK
  /\ RowsExist
  /\ LiveTasksHaveSections
  /\ OneProjectOwner
  /\ AssigneesWereMembers
  /\ Decisions
-----------------------------------------------------------------------------
(* The board starts with a project and its owner, and nobody has decided   *)
(* anything.                                                               *)
LEMMA InitInv == Init => IInv
<1> SUFFICES ASSUME Init PROVE IInv
  OBVIOUS
<1> USE BoardAssumption DEF Init
<1>1. TypeOK
  BY DEF TypeOK, Role, Txn, NoTxn
<1>2. RowsExist /\ LiveTasksHaveSections /\ OneProjectOwner /\ AssigneesWereMembers
  BY DEF RowsExist, Joined, LiveTasksHaveSections, OneProjectOwner, AssigneesWereMembers
<1>3. Decisions
  BY DEF Decisions, Lasting, StillTrue, NoTxn, Placements
<1> QED BY <1>1, <1>2, <1>3 DEF IInv

(* A handler that decides on what holds now keeps the invariant. *)
LEMMA DecideInv ==
  ASSUME IInv, NEW t \in Requests, NEW d \in Txn, Decide(t, d), Lasting(d), StillTrue(d)
  PROVE  IInv'
<1> USE DEF IInv, Decide, tables
<1>1. TypeOK'
  BY DEF TypeOK
<1>2. RowsExist' /\ LiveTasksHaveSections' /\ OneProjectOwner' /\ AssigneesWereMembers'
  BY DEF RowsExist, Joined, LiveTasksHaveSections, OneProjectOwner, AssigneesWereMembers
<1>3. \A x : Lasting(x)' = Lasting(x) /\ StillTrue(x)' = StillTrue(x)
  BY DEF Lasting, StillTrue, Active, Found, LiveIn, RowAt, Joined
<1>4. Decisions'
  BY <1>3 DEF Decisions, TypeOK
<1> QED BY <1>1, <1>2, <1>4

(* Every handler decides on what holds when it reads.                      *)
LEMMA DecisionsAreSound ==
  ASSUME IInv, NEW t \in Requests, HandleProject(t) \/ \E k \in Tasks : HandleTask(t, k)
  PROVE  \E d \in Txn : Decide(t, d) /\ Lasting(d) /\ StillTrue(d)
<1> DEFINE Sound(d) == d \in Txn /\ Lasting(d) /\ StillTrue(d)
           Goal == \E d \in Txn : Decide(t, d) /\ Lasting(d) /\ StillTrue(d)
<1> HIDE DEF Goal
<1> USE DEF IInv, TypeOK
<1>0. \A d : Sound(d) /\ Decide(t, d) => Goal
  BY DEF Goal
<1>1. \A op \in {"touch", "archive", "restore", "deleteProject"} : Sound([op |-> op])
  BY DEF Txn, Lasting, StillTrue, Placements
<1>2. ASSUME HandleProject(t) PROVE Goal
  <2>1. ASSUME NEW u \in Users, AddProjectMember(t, u) PROVE Goal
    <3> DEFINE d == [op |-> "addMember", user |-> u]
    <3>1. Sound(d)
      BY DEF Txn, Lasting, StillTrue, Placements
    <3> QED BY <1>0, <2>1, <3>1 DEF AddProjectMember
  <2>2. ASSUME NEW u \in Users, RemoveProjectMember(t, u) PROVE Goal
    <3> DEFINE d == [op |-> "removeMember", user |-> u, row |-> rowId[u]]
    <3>1. d \in Txn
      BY DEF Txn
    <3>2. Lasting(d) /\ StillTrue(d)
      BY <2>2 DEF RemoveProjectMember, Lasting, StillTrue, Placements
    <3> QED BY <1>0, <2>2, <3>1, <3>2 DEF RemoveProjectMember
  <2>3. ASSUME NEW u \in Users, TransferProjectOwnership(t, u) PROVE Goal
    <3> DEFINE d == [op |-> "transfer", from |-> project.owner, fromRow |-> rowId[project.owner],
                     to |-> u, toRow |-> IF Joined(u) THEN rowId[u] ELSE 0,
                     demote |-> member[project.owner] = "OWNER",
                     promote |-> member[u] # "OWNER"]
    <3>1. d \in Txn
      BY DEF Txn
    <3>2. Lasting(d)
      BY <2>3 DEF TransferProjectOwnership, RowsExist, Lasting
    <3>3. StillTrue(d)
      <4>1. "members" \notin raced => member[project.owner] = "OWNER" /\ member[u] # "OWNER"
        BY <2>3 DEF TransferProjectOwnership, OneProjectOwner
      <4>2. d.toRow # 0 => RowAt(u, d.toRow)
        BY DEF RowAt
      <4>3. u # project.owner
        BY <2>3 DEF TransferProjectOwnership
      <4> QED BY <4>1, <4>2, <4>3 DEF StillTrue, Placements
    <3> QED BY <1>0, <2>3, <3>1, <3>2, <3>3 DEF TransferProjectOwnership
  <2>4. ASSUME NEW s \in Sections, CreateProjectSection(t, s) PROVE Goal
    <3> DEFINE d == [op |-> "createSection", section |-> s]
    <3>1. Sound(d)
      BY <2>4 DEF CreateProjectSection, Txn, Lasting, StillTrue, Placements
    <3> QED BY <1>0, <2>4, <3>1 DEF CreateProjectSection
  <2>5. ASSUME NEW s \in Sections, DeleteProjectSection(t, s) PROVE Goal
    <3> DEFINE d == [op |-> "deleteSection", section |-> s]
    <3>1. Sound(d)
      BY <2>5 DEF DeleteProjectSection, Txn, Lasting, StillTrue, Placements
    <3> QED BY <1>0, <2>5, <3>1 DEF DeleteProjectSection
  <2>6. ASSUME NEW s \in Sections, RestoreProjectSection(t, s) PROVE Goal
    <3> DEFINE d == [op |-> "restoreSection", section |-> s]
    <3>1. Sound(d)
      BY <2>6 DEF RestoreProjectSection, Txn, Lasting, StillTrue, Placements
    <3> QED BY <1>0, <2>6, <3>1 DEF RestoreProjectSection
  <2>7. ASSUME ArchiveProject(t) \/ RestoreProject(t) \/ DeleteProject(t) PROVE Goal
    BY <1>0, <1>1, <2>7 DEF ArchiveProject, RestoreProject, DeleteProject
  <2>8. ASSUME Touch(t) PROVE Goal
    BY <1>0, <1>1, <2>8 DEF Touch
  <2> QED
    BY <1>2, <2>1, <2>2, <2>3, <2>4, <2>5, <2>6, <2>7, <2>8
    DEF HandleProject, UpdateProjectDetails, UpdateProjectHealth, UpdateProjectDates,
        RenameProjectSection, ReorderProjectSection
<1>3. ASSUME NEW k \in Tasks, HandleTask(t, k) PROVE Goal
  <2>1. ASSUME NEW s \in Sections, NEW u \in Users \cup {Nobody}, CreateTask(t, k, s, u)
        PROVE  Goal
    <3> DEFINE d == [op |-> "createTask", task |-> k, section |-> s, assignee |-> u]
    <3>1. d \in Txn
      BY DEF Txn
    <3>2. Lasting(d) /\ StillTrue(d)
      BY <2>1 DEF CreateTask, Lasting, StillTrue, Placements, Eligible, RowsExist
    <3> QED BY <1>0, <2>1, <3>1, <3>2 DEF CreateTask
  <2>2. ASSUME NEW s \in Sections, MoveTaskToSection(t, k, s) PROVE Goal
    <3> DEFINE d == [op |-> "moveTask", task |-> k, section |-> s]
    <3>1. Sound(d)
      BY <2>2 DEF MoveTaskToSection, FindTask, Txn, Lasting, StillTrue, Placements
    <3> QED BY <1>0, <2>2, <3>1 DEF MoveTaskToSection
  <2>3. ASSUME NEW u \in Users, AssignTask(t, k, u) PROVE Goal
    <3> DEFINE d == [op |-> "assign", task |-> k, assignee |-> u]
    <3>1. d \in Txn
      BY DEF Txn
    <3>2. Lasting(d) /\ StillTrue(d)
      BY <2>3 DEF AssignTask, FindTask, Lasting, StillTrue, Placements, Eligible, RowsExist
    <3> QED BY <1>0, <2>3, <3>1, <3>2 DEF AssignTask
  <2>4. ASSUME UnassignTask(t, k) PROVE Goal
    <3> DEFINE d == [op |-> "assign", task |-> k, assignee |-> Nobody]
    <3>1. Sound(d)
      BY <2>4 DEF UnassignTask, FindTask, Txn, Lasting, StillTrue, Placements
    <3> QED BY <1>0, <2>4, <3>1 DEF UnassignTask
  <2>5. ASSUME DeleteTask(t, k) PROVE Goal
    <3> DEFINE d == [op |-> "deleteTask", task |-> k]
    <3>1. Sound(d)
      BY <2>5 DEF DeleteTask, FindTask, Txn, Lasting, StillTrue, Placements
    <3> QED BY <1>0, <2>5, <3>1 DEF DeleteTask
  <2>6. ASSUME Touch(t) PROVE Goal
    BY <1>0, <1>1, <2>6 DEF Touch
  <2> QED
    BY <1>3, <2>1, <2>2, <2>3, <2>4, <2>5, <2>6
    DEF HandleTask, UpdateTaskDetails, ChangeTaskPriority, SetTaskDueDate, CompleteTask,
        ReopenTask, ReorderTask
<1> QED BY <1>2, <1>3 DEF Goal
-----------------------------------------------------------------------------
(* The fields of a decision are what its kind says.                        *)
LEMMA DecisionTypes ==
  ASSUME NEW d \in Txn
  PROVE  /\ d.op \in {"createSection", "deleteSection", "restoreSection", "createTask",
                      "moveTask"} => d.section \in Sections
         /\ d.op \in {"createTask", "moveTask", "assign", "deleteTask"} => d.task \in Tasks
         /\ d.op \in {"createTask", "assign"} => d.assignee \in Users \cup {Nobody}
         /\ d.op \in {"addMember", "removeMember"} => d.user \in Users
         /\ d.op = "transfer" =>
              /\ d.from \in Users /\ d.to \in Users
              /\ d.fromRow \in Nat /\ d.toRow \in Nat
              /\ d.demote \in BOOLEAN /\ d.promote \in BOOLEAN
  BY DEF Txn, NoTxn

(* A commit leaves no other decision fresh, and no row of the past is lost. *)
LEMMA CommitKeepsDecisions ==
  ASSUME IInv, NEW t \in Requests, Commit(t),
         rowId' \in [Users -> Nat], \A u \in Users : rowId[u] <= rowId'[u]
  PROVE  /\ Decisions'
         /\ txn' \in [Requests -> Txn]
         /\ stale' \subseteq Requests
         /\ raced' \subseteq {"placement", "members"}
<1> USE DEF IInv, TypeOK, Commit
<1>1. /\ txn' \in [Requests -> Txn]
      /\ stale' \subseteq Requests
      /\ raced' \subseteq {"placement", "members"}
  BY DEF Txn, Kind
<1>2. ASSUME NEW r \in Requests PROVE Lasting(txn[r])' /\ (r \notin stale' => StillTrue(txn[r])')
  <2>1. CASE txn'[r] = NoTxn
    BY <2>1 DEF NoTxn, Lasting, StillTrue, Placements
  <2>2. CASE txn'[r] # NoTxn
    <3>1. txn'[r] = txn[r] /\ r \in stale' /\ txn[r] \in Txn
      BY <2>2
    <3>2. Lasting(txn[r])
      BY DEF Decisions
    <3>3. Lasting(txn[r])'
      BY <3>1, <3>2, DecisionTypes DEF Lasting
    <3> QED BY <3>1, <3>3
  <2> QED BY <2>1, <2>2
<1> QED BY <1>1, <1>2 DEF Decisions

(* A handler that commits without having raced leaves no trace in raced.   *)
LEMMA CommitRace ==
  ASSUME IInv, NEW t \in Requests, Commit(t)
  PROVE  /\ raced \subseteq raced'
         /\ \A kind \in Kind(txn[t].op) : kind \notin raced' => t \notin stale
  BY DEF Commit

(* A row that is inserted is a new one; no other row changes.              *)
LEMMA InsertGrows ==
  ASSUME IInv, NEW u \in Users, Insert(u)
  PROVE  /\ rowId' \in [Users -> Nat]
         /\ \A v \in Users : rowId[v] <= rowId'[v]
         /\ rowId'[u] > 0
  BY DEF IInv, TypeOK, Insert

(* Who had a row has had one for ever, so that an assignee stays accounted for. *)
LEMMA RowsLast ==
  ASSUME IInv, UNCHANGED task, \A u \in Users : rowId[u] <= rowId'[u],
         rowId' \in [Users -> Nat]
  PROVE  AssigneesWereMembers'
<1> SUFFICES ASSUME NEW k \in Tasks, task[k].assignee # Nobody
             PROVE  rowId'[task[k].assignee] > 0
  BY DEF AssigneesWereMembers
<1>1. task[k].assignee \in Users /\ rowId[task[k].assignee] > 0
  BY DEF IInv, TypeOK, AssigneesWereMembers
<1> QED BY <1>1 DEF IInv, TypeOK

(* Archiving, restoring or deleting a project touches no rule but its own. *)
LEMMA CommitProjectInv ==
  ASSUME IInv, NEW t \in Requests, CommitProject(t)
  PROVE  IInv'
<1>0. TypeOK /\ Commit(t) /\ UNCHANGED <<member, rowId, section, task>>
  BY DEF IInv, CommitProject
<1> USE <1>0 DEF IInv
<1>1. /\ project' \in [owner : Users, archived : BOOLEAN, deleted : BOOLEAN]
      /\ project'.owner = project.owner
  BY DEF CommitProject, TypeOK
<1>2. TypeOK' /\ Decisions'
  BY <1>1, CommitKeepsDecisions DEF TypeOK
<1>3. RowsExist' /\ LiveTasksHaveSections' /\ OneProjectOwner' /\ AssigneesWereMembers'
  BY <1>1, CommitRace
  DEF RowsExist, Joined, LiveTasksHaveSections, OneProjectOwner, AssigneesWereMembers
<1> QED BY <1>2, <1>3

(* The unique key keeps an owner from a second row as a mere member.       *)
LEMMA CommitAddMemberInv ==
  ASSUME IInv, NEW t \in Requests, CommitAddMember(t)
  PROVE  IInv'
<1> DEFINE u == txn[t].user
<1>0. /\ TypeOK /\ Commit(t) /\ UNCHANGED <<project, section, task>>
      /\ u \in Users /\ Insert(u) /\ member' = [member EXCEPT ![u] = "MEMBER"]
  BY DecisionTypes DEF IInv, TypeOK, CommitAddMember
<1> HIDE DEF u
<1> USE <1>0 DEF IInv
<1>1. /\ rowId' \in [Users -> Nat] /\ \A v \in Users : rowId[v] <= rowId'[v]
      /\ rowId'[u] > 0
  BY InsertGrows
<1>2. TypeOK' /\ Decisions'
  BY <1>1, CommitKeepsDecisions DEF TypeOK, Role
<1>3. RowsExist' /\ AssigneesWereMembers'
  <2>1. \A v \in Users : Joined(v)' => v = u \/ Joined(v)
    BY DEF TypeOK, Joined
  <2>2. project.owner \in Users
    BY DEF TypeOK
  <2>3. ASSUME NEW v \in Users, rowId[v] > 0 PROVE rowId'[v] > 0
    <3>1. rowId[v] \in Nat /\ rowId'[v] \in Nat /\ rowId[v] <= rowId'[v]
      BY <1>1 DEF TypeOK
    <3> QED BY <2>3, <3>1
  <2> QED BY <1>1, <2>1, <2>2, <2>3, RowsLast DEF RowsExist
<1>4. LiveTasksHaveSections' /\ OneProjectOwner'
  BY CommitRace DEF TypeOK, LiveTasksHaveSections, OneProjectOwner, Insert, Joined
<1> QED BY <1>2, <1>3, <1>4

(* Whoever is removed was read as a plain member, not as the owner.        *)
LEMMA CommitRemoveMemberInv ==
  ASSUME IInv, NEW t \in Requests, CommitRemoveMember(t)
  PROVE  IInv'
<1> DEFINE d == txn[t]
<1>0. /\ TypeOK /\ Commit(t) /\ UNCHANGED <<project, rowId, section, task>>
      /\ d.op = "removeMember" /\ d.user \in Users
      /\ member' = member \/ member' = [member EXCEPT ![d.user] = "NONE"]
  BY DecisionTypes DEF IInv, TypeOK, CommitRemoveMember
<1>1. "members" \notin raced' => "members" \notin raced /\ member[d.user] = "MEMBER"
  BY <1>0, CommitRace DEF IInv, TypeOK, Decisions, StillTrue, Kind
<1> HIDE DEF d
<1> USE <1>0 DEF IInv
<1>2. TypeOK' /\ Decisions'
  BY CommitKeepsDecisions DEF TypeOK
<1>3. RowsExist' /\ AssigneesWereMembers' /\ LiveTasksHaveSections'
  BY CommitRace DEF TypeOK, RowsExist, Joined, AssigneesWereMembers, LiveTasksHaveSections
<1>4. OneProjectOwner'
  BY <1>1 DEF TypeOK, OneProjectOwner
<1> QED BY <1>2, <1>3, <1>4

(* The target becomes the only OWNER in both tables at once.               *)
LEMMA CommitTransferInv ==
  ASSUME IInv, NEW t \in Requests, CommitTransfer(t)
  PROVE  IInv'
<1> DEFINE d == txn[t]
<1>0. /\ TypeOK /\ Commit(t) /\ UNCHANGED <<section, task>>
      /\ d.op = "transfer" /\ d.from \in Users /\ d.to \in Users
      /\ IF d.toRow = 0 THEN Insert(d.to) ELSE UNCHANGED rowId
      /\ project' = [project EXCEPT !.owner = d.to]
      /\ member' = [u \in Users |->
            IF u = d.to /\ (d.toRow = 0 \/ (d.promote /\ RowAt(u, d.toRow))) THEN "OWNER"
            ELSE IF u = d.from /\ d.demote /\ RowAt(u, d.fromRow) THEN "MEMBER"
            ELSE member[u]]
  BY DecisionTypes DEF IInv, TypeOK, CommitTransfer
<1>1. "members" \notin raced' => "members" \notin raced /\ StillTrue(d)
  BY <1>0, CommitRace DEF IInv, Decisions, Kind
<1>2. d.toRow # 0 => rowId[d.to] > 0
  BY <1>0 DEF IInv, Decisions, Lasting
<1> HIDE DEF d
<1> USE <1>0 DEF IInv
<1>3. /\ rowId' \in [Users -> Nat] /\ \A u \in Users : rowId[u] <= rowId'[u]
      /\ rowId'[d.to] > 0
  BY <1>2, InsertGrows DEF TypeOK
<1>4. TypeOK' /\ Decisions'
  <2>1. member' \in [Users -> Role \cup {"NONE"}]
    BY DEF TypeOK, Role
  <2>2. project' \in [owner : Users, archived : BOOLEAN, deleted : BOOLEAN]
    BY DEF TypeOK
  <2> QED BY <1>3, <2>1, <2>2, CommitKeepsDecisions DEF TypeOK
<1>5. RowsExist' /\ AssigneesWereMembers'
  <2>1. \A u \in Users : Joined(u)' => u = d.to \/ Joined(u)
    BY DEF TypeOK, Joined, RowAt
  <2>2. project'.owner = d.to
    BY DEF TypeOK
  <2> QED BY <1>3, <2>1, <2>2, RowsLast DEF TypeOK, RowsExist
<1>6. LiveTasksHaveSections'
  BY CommitRace DEF LiveTasksHaveSections
<1>7. OneProjectOwner'
  <2> SUFFICES ASSUME "members" \notin raced'
               PROVE  {u \in Users : member'[u] = "OWNER"} = {project'.owner}
    BY DEF OneProjectOwner
  <2>1. /\ {u \in Users : member[u] = "OWNER"} = {d.from}
        /\ d.to # d.from /\ d.demote /\ d.promote
        /\ d.fromRow = rowId[d.from] /\ (d.toRow # 0 => RowAt(d.to, d.toRow))
    BY <1>1 DEF StillTrue, OneProjectOwner
  <2>2. member'[d.to] = "OWNER"
    BY <2>1
  <2>3. \A u \in Users : u # d.to => member'[u] # "OWNER"
    <3>1. RowAt(d.from, d.fromRow)
      BY <2>1 DEF RowAt, Joined
    <3> QED BY <2>1, <3>1
  <2>4. project'.owner = d.to
    BY DEF TypeOK
  <2> QED BY <2>2, <2>3, <2>4
<1> QED BY <1>4, <1>5, <1>6, <1>7

(* A section that is deleted was read empty.                               *)
LEMMA CommitSectionInv ==
  ASSUME IInv, NEW t \in Requests, CommitSection(t)
  PROVE  IInv'
<1> DEFINE d == txn[t]
<1>0. /\ TypeOK /\ Commit(t) /\ UNCHANGED <<project, member, rowId, task>>
      /\ d.section \in Sections
      /\ section' = [section EXCEPT ![d.section] =
                       IF d.op = "deleteSection" THEN "DELETED" ELSE "ACTIVE"]
  BY DecisionTypes DEF IInv, TypeOK, CommitSection
<1>1. "placement" \notin raced' =>
        "placement" \notin raced /\ (d.op = "deleteSection" => LiveIn(d.section) = {})
  BY <1>0, CommitRace DEF IInv, Decisions, StillTrue, Kind
<1> HIDE DEF d
<1> USE <1>0 DEF IInv
<1>2. TypeOK' /\ Decisions'
  BY CommitKeepsDecisions DEF TypeOK
<1>3. RowsExist' /\ OneProjectOwner' /\ AssigneesWereMembers'
  BY CommitRace DEF RowsExist, Joined, OneProjectOwner, AssigneesWereMembers
<1>4. LiveTasksHaveSections'
  BY <1>1 DEF TypeOK, LiveTasksHaveSections, LiveIn
<1> QED BY <1>2, <1>3, <1>4

(* A task is put into an active section, for someone who had a row.        *)
LEMMA CommitTaskInv ==
  ASSUME IInv, NEW t \in Requests, CommitTask(t)
  PROVE  IInv'
<1> DEFINE d == txn[t]
<1>0. /\ TypeOK /\ Commit(t) /\ UNCHANGED <<project, member, rowId, section>>
      /\ d.op \in {"createTask", "moveTask", "assign", "deleteTask"} /\ d.task \in Tasks
      /\ d.op \in {"createTask", "moveTask"} => d.section \in Sections
      /\ d.op \in {"createTask", "assign"} => d.assignee \in Users \cup {Nobody}
      /\ task' = [task EXCEPT ![d.task] = WriteTask(t)]
  BY DecisionTypes DEF IInv, TypeOK, CommitTask
<1>1. "placement" \notin raced' =>
        /\ "placement" \notin raced
        /\ d.op \in {"createTask", "moveTask"} => section[d.section] = "ACTIVE"
  BY <1>0, CommitRace DEF IInv, Decisions, StillTrue, Kind
<1>2. d.op \in {"createTask", "assign"} /\ d.assignee # Nobody => rowId[d.assignee] > 0
  BY DEF IInv, Decisions, Lasting
<1>3. /\ d.op = "createTask" =>
           WriteTask(t) = [status |-> "LIVE", section |-> d.section, assignee |-> d.assignee]
      /\ d.op = "moveTask" => WriteTask(t) = [task[d.task] EXCEPT !.section = d.section]
      /\ d.op = "assign" => WriteTask(t) = [task[d.task] EXCEPT !.assignee = d.assignee]
      /\ d.op = "deleteTask" => WriteTask(t) = [task[d.task] EXCEPT !.status = "DELETED"]
  BY DEF WriteTask
<1> HIDE DEF d
<1> USE <1>0 DEF IInv
<1>4. TypeOK' /\ Decisions'
  <2>1. WriteTask(t) \in [status : {"ABSENT", "LIVE", "DELETED"}, section : Sections,
                          assignee : Users \cup {Nobody}]
    BY <1>3 DEF TypeOK
  <2> QED BY <2>1, CommitKeepsDecisions DEF TypeOK
<1>5. RowsExist' /\ OneProjectOwner'
  BY CommitRace DEF RowsExist, Joined, OneProjectOwner
<1>6. LiveTasksHaveSections'
  BY <1>1, <1>3 DEF TypeOK, LiveTasksHaveSections
<1>7. AssigneesWereMembers'
  <2> SUFFICES ASSUME NEW k \in Tasks, task'[k].assignee # Nobody
               PROVE  rowId[task'[k].assignee] > 0
    BY DEF AssigneesWereMembers
  <2>1. CASE k # d.task \/ d.op \in {"moveTask", "deleteTask"}
    BY <1>3, <2>1 DEF TypeOK, AssigneesWereMembers
  <2>2. CASE k = d.task /\ d.op \in {"createTask", "assign"}
    BY <1>2, <1>3, <2>2 DEF TypeOK
  <2> QED BY <2>1, <2>2
<1> QED BY <1>4, <1>5, <1>6, <1>7
-----------------------------------------------------------------------------
(* Every step of the board keeps the invariant.                            *)
LEMMA StepInv ==
  ASSUME IInv, [Next]_vars
  PROVE  IInv'
<1>1. ASSUME NEW t \in Requests, HandleProject(t) \/ \E k \in Tasks : HandleTask(t, k)
      PROVE  IInv'
  <2>1. PICK d \in Txn : Decide(t, d) /\ Lasting(d) /\ StillTrue(d)
    BY <1>1, DecisionsAreSound
  <2> QED BY <2>1, DecideInv
<1>2. ASSUME NEW t \in Requests, CommitTouch(t) \/ Abort(t) PROVE IInv'
  <2>0. /\ UNCHANGED <<tables, raced>>
        /\ txn' = [txn EXCEPT ![t] = NoTxn] /\ stale' = stale \ {t}
    BY <1>2 DEF CommitTouch, Abort
  <2> USE <2>0 DEF IInv, tables
  <2>1. TypeOK'
    BY DEF TypeOK, Txn
  <2>2. RowsExist' /\ LiveTasksHaveSections' /\ OneProjectOwner' /\ AssigneesWereMembers'
    BY DEF RowsExist, Joined, LiveTasksHaveSections, OneProjectOwner, AssigneesWereMembers
  <2>3. \A x : Lasting(x)' = Lasting(x) /\ StillTrue(x)' = StillTrue(x)
    BY DEF Lasting, StillTrue, Active, Found, LiveIn, RowAt, Joined
  <2>4. Lasting(NoTxn) /\ StillTrue(NoTxn)
    BY DEF NoTxn, Lasting, StillTrue, Placements
  <2>5. Decisions'
    BY <2>3, <2>4 DEF Decisions, TypeOK
  <2> QED BY <2>1, <2>2, <2>5
<1>3. ASSUME NEW t \in Requests, Finish(t) PROVE IInv'
  BY <1>2, <1>3, CommitProjectInv, CommitAddMemberInv, CommitRemoveMemberInv,
     CommitTransferInv, CommitSectionInv, CommitTaskInv
  DEF Finish
<1>4. CASE UNCHANGED vars
  <2> USE <1>4 DEF IInv, vars, tables
  <2>1. TypeOK'
    BY DEF TypeOK
  <2>2. RowsExist' /\ LiveTasksHaveSections' /\ OneProjectOwner' /\ AssigneesWereMembers'
    BY DEF RowsExist, Joined, LiveTasksHaveSections, OneProjectOwner, AssigneesWereMembers
  <2>3. \A x : Lasting(x)' = Lasting(x) /\ StillTrue(x)' = StillTrue(x)
    BY DEF Lasting, StillTrue, Active, Found, LiveIn, RowAt, Joined
  <2>4. Decisions'
    BY <2>3 DEF Decisions
  <2> QED BY <2>1, <2>2, <2>4
<1> QED BY <1>1, <1>3, <1>4 DEF Next

(* The invariant holds throughout. *)
LEMMA Invariance == Spec => []IInv
  BY InitInv, StepInv, PTL DEF Spec

(* The rows and decisions of a project are typed.                          *)
THEOREM BoardTypeOK == Spec => []TypeOK
<1>1. IInv => TypeOK
  BY DEF IInv
<1> QED BY Invariance, <1>1, PTL

(* A live task is in an active section unless handlers that place tasks    *)
(* have raced.                                                             *)
THEOREM TasksStayPlaced == Spec => []LiveTasksHaveSections
<1>1. IInv => LiveTasksHaveSections
  BY DEF IInv
<1> QED BY Invariance, <1>1, PTL

(* projects and project_members name the same one owner unless handlers on *)
(* members have raced.                                                     *)
THEOREM OwnershipAgrees == Spec => []OneProjectOwner
<1>1. IInv => OneProjectOwner
  BY DEF IInv
<1> QED BY Invariance, <1>1, PTL

(* In any race, who is assigned a task has been a member of the project.   *)
THEOREM NoStrangerAssigned == Spec => []AssigneesWereMembers
<1>1. IInv => AssigneesWereMembers
  BY DEF IInv
<1> QED BY Invariance, <1>1, PTL

(* Sections and tasks of an archived or deleted project change only by a   *)
(* handler whose reads are older than the archiving.                       *)
THEOREM ArchivedRests == Spec => FrozenProject
<1> DEFINE Rests == ~Active /\ (section' # section \/ task' # task) =>
                      \E t \in stale : txn[t] # NoTxn /\ txn'[t] = NoTxn
<1>1. ASSUME IInv, [Next]_vars PROVE [Rests]_vars
  <2>1. ASSUME NEW t \in Requests, CommitSection(t) \/ CommitTask(t) PROVE Rests
    <3>1. t \notin stale => Active
      BY <1>1, <2>1 DEF IInv, Decisions, StillTrue, Placements, CommitSection, CommitTask
    <3>2. txn[t] # NoTxn /\ txn'[t] = NoTxn
      BY <1>1, <2>1 DEF IInv, TypeOK, CommitSection, CommitTask, Commit, NoTxn
    <3> QED BY <3>1, <3>2
  <2>2. ASSUME NEW t \in Requests, HandleProject(t) \/ \E k \in Tasks : HandleTask(t, k)
        PROVE  Rests
    <3>1. PICK d \in Txn : Decide(t, d)
      BY <1>1, <2>2, DecisionsAreSound
    <3> QED BY <3>1 DEF Decide, tables
  <2>3. ASSUME NEW t \in Requests,
               CommitTouch(t) \/ CommitProject(t) \/ CommitAddMember(t)
                 \/ CommitRemoveMember(t) \/ CommitTransfer(t) \/ Abort(t)
        PROVE  Rests
    BY <2>3
    DEF CommitTouch, CommitProject, CommitAddMember, CommitRemoveMember, CommitTransfer,
        Abort, tables
  <2>4. CASE UNCHANGED vars
    BY <2>4
  <2> QED BY <1>1, <2>1, <2>2, <2>3, <2>4 DEF Next, Finish
<1> QED BY Invariance, <1>1, PTL DEF Spec, FrozenProject
-----------------------------------------------------------------------------
(* What the reader has listed has a place for what it has yet to list, and *)
(* for what it has listed.                                                 *)
ViewInv ==
  /\ answered \in {{}, {"sections"}, {"sections", "tasks"}}
  /\ answered = {"sections"} =>
       \A s \in Sections : section[s] = "ACTIVE" => s \in listed \cup joined
  /\ Complete /\ "placement" \notin raced => \A k \in live : placed[k] \in listed \cup joined

(* A race is remembered.                                                   *)
LEMMA RacesRemain ==
  ASSUME IInv, Next
  PROVE  raced \subseteq raced'
<1>1. ASSUME NEW t \in Requests, HandleProject(t) \/ \E k \in Tasks : HandleTask(t, k)
      PROVE  raced' = raced
  <2>1. PICK d \in Txn : Decide(t, d)
    BY <1>1, DecisionsAreSound
  <2> QED BY <2>1 DEF Decide
<1>2. ASSUME NEW t \in Requests, Finish(t) PROVE raced \subseteq raced'
  BY <1>2
  DEF Finish, CommitTouch, CommitProject, CommitAddMember, CommitRemoveMember,
      CommitTransfer, CommitSection, CommitTask, Abort, Commit
<1> QED BY <1>1, <1>2 DEF Next

(* Reading is no step of the board, and the board's steps are its own.     *)
LEMMA ViewStepIsBoardStep == [ListViewNext]_viewVars => [Next]_vars
  BY DEF ListViewNext, viewVars, Write

(* The board under a reader behaves as the board alone.                    *)
THEOREM ReadersChangeNothing == ListViewSpec => Spec
<1>1. ListViewInit => Init
  BY DEF ListViewInit
<1> QED BY <1>1, ViewStepIsBoardStep, PTL DEF ListViewSpec, Spec

(* Every step of the reader, and of the board meanwhile, keeps ViewInv.    *)
LEMMA ViewStepInv ==
  ASSUME IInv, ViewInv, [ListViewNext]_viewVars
  PROVE  ViewInv'
<1>1. CASE Write
  <2>1. raced \subseteq raced' /\ UNCHANGED <<answered, listed, live, placed>>
    BY <1>1, RacesRemain DEF Write
  <2>2. joined \subseteq joined' /\ (answered # {"sections"} => joined' = joined)
    BY <1>1 DEF Write
  <2>3. ASSUME answered = {"sections"}, NEW s \in Sections, section'[s] = "ACTIVE"
        PROVE  s \in listed \cup joined'
    BY <1>1, <2>3 DEF Write, ViewInv
  <2> QED BY <2>1, <2>2, <2>3 DEF ViewInv, Complete
<1>2. CASE GetProjectListView /\ UNCHANGED vars
  BY <1>2 DEF GetProjectListView, ViewInv, Complete, vars, tables
<1>3. CASE FindAgain /\ UNCHANGED vars
  BY <1>3 DEF FindAgain, ViewInv, Complete, vars, tables
<1>4. CASE ListSections /\ UNCHANGED vars
  BY <1>4 DEF ListSections, Unread, ViewInv, Complete, vars, tables
<1>5. CASE ListTasks /\ UNCHANGED vars
  <2>1. answered = {"sections"} /\ answered' = {"sections", "tasks"}
    BY <1>5 DEF ListTasks, Unread, List, ViewInv
  <2>2. ASSUME "placement" \notin raced, NEW k \in live'
        PROVE  placed'[k] \in listed' \cup joined'
    <3>1. k \in Tasks /\ task[k].status = "LIVE" /\ placed'[k] = task[k].section
      BY <1>5, <2>2 DEF ListTasks, List
    <3>2. section[task[k].section] = "ACTIVE" /\ task[k].section \in Sections
      BY <2>2, <3>1 DEF IInv, TypeOK, LiveTasksHaveSections
    <3> QED BY <1>5, <2>1, <3>1, <3>2 DEF ListTasks, List, ViewInv
  <2> QED BY <1>5, <2>1, <2>2 DEF ViewInv, Complete, vars
<1>6. CASE Return /\ UNCHANGED vars
  BY <1>6 DEF Return, ViewInv, Complete
<1>7. CASE UNCHANGED viewVars
  BY <1>7 DEF viewVars, vars, tables, reader, ViewInv, Complete
<1> QED BY <1>1, <1>2, <1>3, <1>4, <1>5, <1>6, <1>7 DEF ListViewNext, Read

(* A list view loses a live task only to a section that came while it was  *)
(* read, or to a race of handlers that place tasks.                        *)
THEOREM ViewShowsEveryTask == ListViewSpec => []ViewLosesNoTask
<1>1. ListViewInit => ViewInv
  BY DEF ListViewInit, Blank, ViewInv, Complete
<1>2. ViewInv => ViewLosesNoTask
  BY DEF ViewInv, ViewLosesNoTask, Shown
<1> QED BY <1>1, <1>2, ReadersChangeNothing, Invariance, ViewStepInv, PTL DEF ListViewSpec
=============================================================================
