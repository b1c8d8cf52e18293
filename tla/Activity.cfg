SPECIFICATION Spec
CONSTANTS
  Requests = {r1, r2}
  Paths = {relay, consumer}
  Values = {v1, v2}
  NoValue = none
  Scenes = {
    {"createTask", "completeTask"},
    {"reopenTask", "completeTask", "deleteTask"},
    {"assignTask", "unassignTask"},
    {"completeTask", "reopenTask"},
    {"updateTask", "reopenTask"},
    {"setTaskDueDate"},
    {"moveTask", "reorderTask"},
    {"reorderTask", "rebalanceTasks"},
    {"moveTask", "rebalanceTasks"},
    {"archiveProject", "restoreProject", "deleteProject"},
    {"createProject", "updateProjectDates"},
    {"updateProjectHealth"},
    {"transferOwnership", "updateProject"},
    {"createSection", "renameSection"},
    {"deleteSection", "rebalanceSections"},
    {"deleteSection", "restoreSection"},
    {"reorderSection"},
    {"changeTaskPriority", "deleteTask", "listActivity"},
    {"archiveProject", "restoreProject", "listActivity"}}
  Long = {{"archiveProject", "restoreProject", "listActivity"}}
  Firsts = {0, 2}
  MaxCommits = 3
  MaxShort = 2
  MaxNow = 1
SYMMETRY Symmetry
CHECK_DEADLOCK FALSE
INVARIANTS DeliveredAppearsOnce FeedTellsTheRow ShowsTheChange PagesCoverTheFeed
