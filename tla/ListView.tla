------------------------------ MODULE ListView ------------------------------
(***************************************************************************)
(* The list view of a project, read while the handlers of Board run.       *)
(*                                                                         *)
(* A query is not in a transaction: the list view is put together from     *)
(* statements that each see what is committed at their own moment.  The    *)
(* project is looked up twice, for the rules and for the view; then the    *)
(* sections are listed, then the tasks, and each task is put under its     *)
(* section.  A task of a section that was not listed falls out silently.   *)
(* What it shows of the users is left out.                                 *)
(***************************************************************************)
EXTENDS Board

VARIABLES
  reading,   \* bound: whether the view is read in this behaviour
  found,     \* how often the view's project has been found
  answered,  \* the lists it has read: "sections", "tasks"
  listed,    \* the sections listed
  live,      \* the tasks listed
  placed,    \* the section each of them was listed with
  joined     \* history: sections created or restored since the sections were listed

reader   == <<reading, found, answered, listed, live, placed, joined>>
viewVars == <<vars, reader>>

(* No list is read: the tasks not listed are placed anywhere.              *)
Blank ==
  /\ found = 0
  /\ answered = {} /\ listed = {} /\ live = {}
  /\ placed = [k \in Tasks |-> General]
  /\ joined = {}

ListViewInit == Init /\ Blank /\ reading \in BOOLEAN
-----------------------------------------------------------------------------
(* The handler's look-up and rule, then the view's own look-up.            *)
GetProjectListView ==
  /\ found = 0
  /\ Found /\ Viewer
  /\ found' = 1
  /\ UNCHANGED <<answered, listed, live, placed, joined>>

FindAgain ==
  /\ found = 1
  /\ found' = IF Found THEN 2 ELSE 0
  /\ UNCHANGED <<answered, listed, live, placed, joined>>

Unread(list) == found = 2 /\ list \notin answered

ListSections ==
  /\ Unread("sections")
  /\ answered' = answered \cup {"sections"}
  /\ listed' = {s \in Sections : section[s] = "ACTIVE"}
  /\ UNCHANGED <<found, live, placed, joined>>

List ==
  /\ answered' = answered \cup {"tasks"}
  /\ live' = {k \in Tasks : task[k].status = "LIVE"}
  /\ placed' = [k \in Tasks |-> IF k \in live' THEN task[k].section ELSE General]
  /\ UNCHANGED <<found, listed, joined>>

(* Mutant: the tasks are listed without waiting for the sections. *)
MutantListTasks == Unread("tasks") /\ List

ListTasks == Unread("tasks") /\ "sections" \in answered /\ List

Complete == answered = {"sections", "tasks"}

(* The tasks by section, as they are returned.                             *)
Shown == {k \in live : placed[k] \in listed}

Return ==
  /\ Complete
  /\ found' = 0
  /\ answered' = {} /\ listed' = {} /\ live' = {} /\ joined' = {}
  /\ placed' = [k \in Tasks |-> General]

Read ==
  GetProjectListView \/ FindAgain \/ ListSections \/ ListTasks \/ Return

(* Bound: while views are read, the handlers are those that place a task or *)
(* make the project or a section come and go, and nobody is assigned.      *)
Placing(d) ==
  \/ d.op \in {"none", "deleteProject", "createSection", "deleteSection", "restoreSection",
               "moveTask", "deleteTask"}
  \/ d.op = "createTask" /\ d.assignee = Nobody

(* A handler of Board meanwhile.                                           *)
Write ==
  /\ Next
  /\ reading => \A t \in Requests : Placing(txn'[t])
  /\ joined' = IF answered # {"sections"} THEN joined
               ELSE joined \cup {s \in Sections : section[s] # "ACTIVE" /\ section'[s] = "ACTIVE"}
  /\ UNCHANGED <<reading, found, answered, listed, live, placed>>

ListViewNext == Write \/ (reading /\ Read /\ UNCHANGED <<vars, reading>>)

ListViewSpec == ListViewInit /\ [][ListViewNext]_viewVars
-----------------------------------------------------------------------------
(* A list view leaves a live task out only when the task's section was     *)
(* created or restored while the view was read, or handlers that place     *)
(* tasks have raced: a task that is moved meanwhile, into or out of a      *)
(* section that is deleted meanwhile, is shown in the one or the other.    *)
ViewLosesNoTask ==
  Complete /\ "placement" \notin raced => \A k \in live \ Shown : placed[k] \in joined
=============================================================================
