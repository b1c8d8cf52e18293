--------------------------- MODULE WorkspaceProofs ---------------------------
(***************************************************************************)
(* Proofs about the workspaces, for every set of users, slugs and values   *)
(* and any number of overlapping handlers.                                 *)
(*                                                                         *)
(* What an edit is going to write differs from what it has read only in    *)
(* the columns asked for, and a flush writes no others (Edits).  What it   *)
(* has read is the row as long as it has not raced (Current).              *)
(***************************************************************************)
EXTENDS Workspace, TLAPS

Columns == {"slug", "owner", "name", "about", "view", "settings", "archived", "deleted"}

Editable == Details \cup Preferences \cup {"archived", "deleted"}

(* What an edit x is made of, whatever becomes of the row. *)
EditOf(x) ==
  /\ x.at \in DOMAIN workspaces
  /\ x.view \in Row /\ x.row \in Row
  /\ x.asked \subseteq Editable /\ x.tells \subseteq EventType
  /\ \A c \in Columns \ x.asked : x.row[c] = x.view[c]
  /\ x.view.deleted => x.row.deleted

(* A row that was read before anybody else committed is the row there is. *)
CurrentEdit(x) ==
  /\ x.view = workspaces[x.at] /\ ~x.view.deleted
  /\ x.asked \cap (Details \cup Preferences) # {} => ~x.view.archived

Sound(t) ==
  /\ txn[t].op = "edit" => EditOf(txn[t]) /\ (t \notin stale => CurrentEdit(txn[t]))
  /\ txn[t].op = "create" =>
       txn[t].row \in Row /\ (t \notin stale => FindBySlug(txn[t].row.slug) = {})

(* With those of TypeOK, the types of what is decided. *)
Decisions ==
  /\ txn = [t \in Requests |-> txn[t]]
  /\ \A t \in Requests : Sound(t)

IInv == TypeOK /\ Decisions /\ RefusedForDeleted
-----------------------------------------------------------------------------
(* Nothing is stored and nothing decided at first.                         *)
LEMMA InitInv == Init => IInv
  BY DEF Init, IInv, TypeOK, Decisions, Sound, NoTxn, RefusedForDeleted

(* A row is a function of its columns. *)
LEMMA RowColumns ==
  ASSUME NEW row \in Row
  PROVE  /\ DOMAIN row = Columns
         /\ row = [c \in Columns |-> row[c]]
         /\ row.slug \in Slugs /\ row.owner \in Users
         /\ row.name \in Values /\ row.about \in Values
         /\ row.view \in Values /\ row.settings \in Values
         /\ row.archived \in BOOLEAN /\ row.deleted \in BOOLEAN
  BY DEF Row, Columns

(* And whatever has these columns is a row. *)
LEMMA ColumnsRow ==
  ASSUME NEW row, row = [c \in Columns |-> row[c]],
         row["slug"] \in Slugs, row["owner"] \in Users,
         row["name"] \in Values, row["about"] \in Values,
         row["view"] \in Values, row["settings"] \in Values,
         row["archived"] \in BOOLEAN, row["deleted"] \in BOOLEAN
  PROVE  row \in Row
  BY DEF Row, Columns
-----------------------------------------------------------------------------
(* What an edit of the columns asked decides: the row as it is, but for    *)
(* these.                                                                  *)
LEMMA EditIsSound ==
  ASSUME IInv, NEW t \in Requests, NEW w \in DOMAIN workspaces,
         NEW asked \in SUBSET Editable, NEW tells \in SUBSET EventType, NEW value,
         asked \cap (Details \cup Preferences) # {} =>
           value \in Values /\ "archived" \notin asked /\ "deleted" \notin asked
             /\ ~workspaces[w].archived,
         "archived" \in asked => value \in BOOLEAN,
         "deleted" \in asked => value = TRUE /\ "archived" \notin asked,
         ~workspaces[w].deleted,
         Edit(t, w, asked, value, tells)
  PROVE  IInv'
<1> DEFINE old == workspaces[w]
           new == [c \in DOMAIN old |-> IF c \in asked THEN value ELSE old[c]]
           x == [op |-> "edit", at |-> w, view |-> old, asked |-> asked, tells |-> tells,
                 row |-> new]
<1>0. /\ old \in Row /\ DOMAIN old = Columns
      /\ txn[t] = NoTxn /\ txn' = [txn EXCEPT ![t] = x]
      /\ UNCHANGED <<workspaces, announced, profiles, stale, refused>>
  <2>1. old \in Row
    BY DEF IInv, TypeOK
  <2> QED BY <2>1, RowColumns DEF Edit, Decide, tables
<1>1. new \in Row
  <2>1. /\ old["slug"] \in Slugs /\ old["owner"] \in Users
        /\ old["name"] \in Values /\ old["about"] \in Values
        /\ old["view"] \in Values /\ old["settings"] \in Values
        /\ old["archived"] \in BOOLEAN /\ old["deleted"] \in BOOLEAN
    BY <1>0, RowColumns
  <2>2. new = [c \in Columns |-> new[c]]
    BY <1>0
  <2>3. \A c \in Columns : new[c] = IF c \in asked THEN value ELSE old[c]
    BY <1>0
  <2>4. /\ "slug" \notin asked /\ "owner" \notin asked
        /\ \A c \in {"name", "about", "view", "settings"} : c \in asked => value \in Values
    BY DEF Editable, Details, Preferences
  <2> HIDE DEF new, old
  <2>5. /\ new["slug"] \in Slugs /\ new["owner"] \in Users
        /\ new["name"] \in Values /\ new["about"] \in Values
        /\ new["view"] \in Values /\ new["settings"] \in Values
        /\ new["archived"] \in BOOLEAN /\ new["deleted"] \in BOOLEAN
    BY <2>1, <2>3, <2>4 DEF Columns
  <2> QED BY <2>2, <2>5, ColumnsRow
<1>2. EditOf(x) /\ CurrentEdit(x)
  <2>1. \A c \in Columns \ asked : new[c] = old[c]
    BY <1>0
  <2> QED BY <1>0, <1>1, <2>1 DEF EditOf, CurrentEdit
<1> HIDE DEF x
<1>3. x.op = "edit"
  BY DEF x
<1>4. TypeOK' /\ RefusedForDeleted'
  BY <1>0, <1>3 DEF IInv, TypeOK, Decisions, RefusedForDeleted
<1>5. Decisions'
  <2>1. txn' = [s \in Requests |-> txn'[s]]
    BY <1>0 DEF IInv, Decisions
  <2>2. txn'[t] = x /\ \A s \in Requests \ {t} : txn'[s] = txn[s]
    BY <1>0 DEF IInv, Decisions
  <2>3. Sound(t)'
    BY <1>0, <1>2, <1>3, <2>2 DEF Sound, EditOf, CurrentEdit
  <2>4. ASSUME NEW s \in Requests \ {t} PROVE Sound(s)'
    BY <1>0, <2>2, <2>4 DEF IInv, Decisions, Sound, EditOf, CurrentEdit, FindBySlug
  <2> QED BY <2>1, <2>3, <2>4 DEF Decisions
<1> QED BY <1>4, <1>5 DEF IInv

(* The handlers that read and decide keep the invariant.                   *)
LEMMA HandlersInv ==
  ASSUME IInv, NEW t \in Requests, NEW w \in DOMAIN workspaces, NEW u \in Users,
         \/ UpdateWorkspace(t, w, u) \/ UpdateWorkspacePreferences(t, w, u)
         \/ ArchiveWorkspace(t, w, u) \/ RestoreWorkspace(t, w, u) \/ DeleteWorkspace(t, w, u)
  PROVE  IInv'
<1>1. CASE UpdateWorkspace(t, w, u)
  <2>1. PICK asked \in SUBSET Details, v \in Values :
          /\ Owned(w, u) /\ ~workspaces[w].archived
          /\ Edit(t, w, asked, v, {"UPDATED"})
    BY <1>1 DEF UpdateWorkspace
  <2>2. /\ asked \in SUBSET Editable /\ "archived" \notin asked /\ "deleted" \notin asked
        /\ {"UPDATED"} \in SUBSET EventType
    BY DEF Editable, Details, EventType
  <2> QED BY <2>1, <2>2, EditIsSound DEF Owned
<1>2. CASE UpdateWorkspacePreferences(t, w, u)
  <2>1. PICK asked \in SUBSET Preferences, v \in Values :
          /\ Owned(w, u) /\ ~workspaces[w].archived
          /\ Edit(t, w, asked, v, {"UPDATED"})
    BY <1>2 DEF UpdateWorkspacePreferences
  <2>2. /\ asked \in SUBSET Editable /\ "archived" \notin asked /\ "deleted" \notin asked
        /\ {"UPDATED"} \in SUBSET EventType
    BY DEF Editable, Preferences, EventType
  <2> QED BY <2>1, <2>2, EditIsSound DEF Owned
<1>3. CASE ArchiveWorkspace(t, w, u) \/ RestoreWorkspace(t, w, u)
  <2>1. PICK tells \in SUBSET EventType, b \in BOOLEAN :
          ~workspaces[w].deleted /\ Edit(t, w, {"archived"}, b, tells)
    BY <1>3 DEF ArchiveWorkspace, RestoreWorkspace, EventType, Owned
  <2>2. {"archived"} \in SUBSET Editable /\ {"archived"} \cap (Details \cup Preferences) = {}
    BY DEF Editable, Details, Preferences
  <2> QED BY <2>1, <2>2, EditIsSound
<1>4. CASE DeleteWorkspace(t, w, u)
  <2>1. /\ {"deleted"} \in SUBSET Editable /\ {} \in SUBSET EventType
        /\ {"deleted"} \cap (Details \cup Preferences) = {}
    BY DEF Editable, Details, Preferences
  <2> QED BY <1>4, <2>1, EditIsSound DEF DeleteWorkspace, Owned
<1> QED BY <1>1, <1>2, <1>3, <1>4

(* A row to be created is a row, of a slug nobody holds who is not deleted. *)
LEMMA CreateInv ==
  ASSUME IInv, NEW t \in Requests, NEW u \in Users, NEW s \in Slugs, NEW v \in Values,
         CreateWorkspace(t, u, s, v)
  PROVE  IInv'
<1> DEFINE x == [op |-> "create", row |-> NewWorkspace(u, s, v)]
<1>0. /\ txn[t] = NoTxn /\ txn' = [txn EXCEPT ![t] = x]
      /\ UNCHANGED <<workspaces, announced, profiles, stale, refused>>
      /\ FindBySlug(s) = {}
  BY DEF CreateWorkspace, Decide, tables
<1>1. x.op = "create" /\ x.row \in Row /\ x.row.slug = s
  BY DEF NewWorkspace, Row
<1> HIDE DEF x
<1>2. TypeOK' /\ RefusedForDeleted'
  BY <1>0, <1>1 DEF IInv, TypeOK, Decisions, RefusedForDeleted
<1>3. txn' = [r \in Requests |-> txn'[r]]
  BY <1>0 DEF IInv, Decisions
<1>4. txn'[t] = x /\ \A r \in Requests \ {t} : txn'[r] = txn[r]
  BY <1>0 DEF IInv, Decisions
<1>5. Sound(t)'
  BY <1>0, <1>1, <1>4 DEF Sound, FindBySlug
<1>6. ASSUME NEW r \in Requests \ {t} PROVE Sound(r)'
  BY <1>0, <1>4, <1>6 DEF IInv, Decisions, Sound, EditOf, CurrentEdit, FindBySlug
<1> QED BY <1>2, <1>3, <1>5, <1>6 DEF IInv, Decisions
-----------------------------------------------------------------------------
(* A commit leaves nobody else's reads current.                            *)
LEMMA CommitKeepsDecisions ==
  ASSUME IInv, NEW t \in Requests, Commit(t), DOMAIN workspaces \subseteq DOMAIN workspaces'
  PROVE  Decisions'
<1>0. /\ txn' = [txn EXCEPT ![t] = NoTxn]
      /\ stale' = {s \in Requests \ {t} : txn[s] # NoTxn}
      /\ txn = [s \in Requests |-> txn[s]]
  BY DEF Commit, End, IInv, Decisions
<1>1. txn' = [s \in Requests |-> txn'[s]]
  BY <1>0
<1>2. ASSUME NEW s \in Requests PROVE Sound(s)'
  <2>1. CASE txn'[s] = NoTxn
    BY <2>1 DEF Sound, NoTxn
  <2>2. CASE txn'[s] # NoTxn
    <3>1. txn'[s] = txn[s] /\ s \in stale'
      BY <1>0, <2>2
    <3>2. Sound(s)
      BY DEF IInv, Decisions
    <3> QED BY <3>1, <3>2 DEF Sound, EditOf
  <2> QED BY <2>1, <2>2
<1> QED BY <1>1, <1>2 DEF Decisions

(* A request that ends without a commit leaves the others as they are.     *)
LEMMA EndKeepsDecisions ==
  ASSUME IInv, NEW t \in Requests, End(t), stale' = stale \ {t}, UNCHANGED workspaces
  PROVE  Decisions'
<1>0. txn' = [txn EXCEPT ![t] = NoTxn] /\ txn = [s \in Requests |-> txn[s]]
  BY DEF End, IInv, Decisions
<1>1. txn' = [s \in Requests |-> txn'[s]]
  BY <1>0
<1>2. Sound(t)'
  BY <1>0 DEF Sound, NoTxn
<1>3. ASSUME NEW s \in Requests \ {t} PROVE Sound(s)'
  <2>1. Sound(s) /\ txn'[s] = txn[s]
    BY <1>0 DEF IInv, Decisions
  <2> QED BY <2>1 DEF Sound, EditOf, CurrentEdit, FindBySlug
<1> QED BY <1>1, <1>2, <1>3 DEF Decisions

(* A new row goes behind the others.                                       *)
LEMMA InsertInv ==
  ASSUME IInv, NEW t \in Requests, Insert(t)
  PROVE  IInv'
<1> DEFINE row == txn[t].row
<1>0. /\ row \in Row /\ Commit(t)
      /\ workspaces' = Append(workspaces, row) /\ announced' = Append(announced, {"CREATED"})
      /\ workspaces \in Seq(Row) /\ announced \in Seq(SUBSET EventType)
      /\ Len(announced) = Len(workspaces)
  BY DEF Insert, IInv, TypeOK, Decisions, Sound
<1> HIDE DEF row
<1>1. /\ workspaces' \in Seq(Row) /\ announced' \in Seq(SUBSET EventType)
      /\ Len(announced') = Len(workspaces')
      /\ DOMAIN workspaces \subseteq DOMAIN workspaces'
      /\ \A w \in DOMAIN workspaces : workspaces'[w] = workspaces[w]
  BY <1>0 DEF EventType
<1>2. TypeOK'
  BY <1>0, <1>1 DEF IInv, TypeOK, Decisions, Commit, End, NoTxn
<1>3. RefusedForDeleted'
  BY <1>0, <1>1 DEF IInv, RefusedForDeleted, Commit
<1> QED BY <1>0, <1>1, <1>2, <1>3, CommitKeepsDecisions DEF IInv

(* The index refuses a slug that was free when it was read only to a       *)
(* handler that has raced, or for a deleted row.                           *)
LEMMA InsertRefusedInv ==
  ASSUME IInv, NEW t \in Requests, InsertRefused(t)
  PROVE  IInv'
<1> DEFINE s == txn[t].row.slug
<1>0. /\ Taken(s) /\ End(t) /\ stale' = stale \ {t} /\ UNCHANGED tables
      /\ refused' = IF t \in stale THEN refused ELSE refused \cup {s}
      /\ txn[t].row \in Row /\ (t \notin stale => FindBySlug(s) = {})
  BY DEF InsertRefused, IInv, Decisions, Sound
<1>1. s \in Slugs
  BY <1>0, RowColumns
<1> HIDE DEF s
<1>2. TypeOK'
  BY <1>0, <1>1 DEF IInv, TypeOK, Decisions, End, NoTxn, tables
<1>3. RefusedForDeleted'
  <2>1. CASE t \in stale
    BY <1>0, <2>1 DEF IInv, RefusedForDeleted, tables
  <2>2. CASE t \notin stale
    <3>1. \E w \in DOMAIN workspaces : workspaces[w].slug = s /\ workspaces[w].deleted
      BY <1>0, <2>2 DEF Taken, FindBySlug
    <3> QED BY <1>0, <2>2, <3>1 DEF IInv, RefusedForDeleted, tables
  <2> QED BY <2>1, <2>2
<1> QED BY <1>0, <1>2, <1>3, EndKeepsDecisions DEF IInv, tables

(* What a flush writes: the columns asked for, and none of the others.     *)
LEMMA WrittenRow ==
  ASSUME NEW stored \in Row, NEW x, EditOf(x)
  PROVE  /\ Written(stored, x) \in Row
         /\ \A c \in Columns \ x.asked : Written(stored, x)[c] = stored[c]
         /\ Written(stored, x).slug = stored.slug
         /\ stored.deleted => Written(stored, x).deleted
<1> DEFINE new == Written(stored, x)
<1>0. DOMAIN stored = Columns
  BY RowColumns
<1>1. \A c \in Columns : new[c] = IF x.row[c] # x.view[c] THEN x.row[c] ELSE stored[c]
  BY <1>0 DEF Written
<1>2. new = [c \in Columns |-> new[c]]
  BY <1>0 DEF Written
<1>3. x.row \in Row /\ x.view \in Row /\ x.asked \subseteq Editable
  BY DEF EditOf
<1> HIDE DEF new
<1>4. /\ new["slug"] \in Slugs /\ new["owner"] \in Users
      /\ new["name"] \in Values /\ new["about"] \in Values
      /\ new["view"] \in Values /\ new["settings"] \in Values
      /\ new["archived"] \in BOOLEAN /\ new["deleted"] \in BOOLEAN
  <2>1. \A row \in Row :
          /\ row["slug"] \in Slugs /\ row["owner"] \in Users
          /\ row["name"] \in Values /\ row["about"] \in Values
          /\ row["view"] \in Values /\ row["settings"] \in Values
          /\ row["archived"] \in BOOLEAN /\ row["deleted"] \in BOOLEAN
    BY RowColumns
  <2> QED BY <1>1, <1>3, <2>1 DEF Columns
<1>5. new \in Row
  BY <1>2, <1>4, ColumnsRow
<1>6. \A c \in Columns \ x.asked : new[c] = stored[c]
  BY <1>1 DEF EditOf
<1>7. new.slug = stored.slug
  BY <1>3, <1>6 DEF Editable, Details, Preferences, Columns
<1>8. stored.deleted => new.deleted
  <2>1. new["deleted"] = IF x.row["deleted"] # x.view["deleted"]
                         THEN x.row["deleted"] ELSE stored["deleted"]
    BY <1>1 DEF Columns
  <2>2. /\ x.row["deleted"] \in BOOLEAN /\ x.view["deleted"] \in BOOLEAN
        /\ x.view["deleted"] => x.row["deleted"]
    BY <1>3, RowColumns DEF EditOf
  <2> QED BY <2>1, <2>2
<1> QED BY <1>5, <1>6, <1>7, <1>8 DEF new

(* A flush changes one row, and neither its slug nor its deletion.         *)
LEMMA SaveInv ==
  ASSUME IInv, NEW t \in Requests, Save(t)
  PROVE  IInv'
<1> DEFINE x == txn[t]
<1>0. /\ EditOf(x) /\ Commit(t)
      /\ workspaces' = [workspaces EXCEPT ![x.at] = Written(@, x)]
      /\ announced' = [announced EXCEPT ![x.at] = @ \cup x.tells]
      /\ workspaces \in Seq(Row) /\ announced \in Seq(SUBSET EventType)
      /\ Len(announced) = Len(workspaces)
  BY DEF Save, IInv, TypeOK, Decisions, Sound
<1>1. x.at \in DOMAIN workspaces /\ x.tells \subseteq EventType
  BY <1>0 DEF EditOf
<1>2. /\ workspaces[x.at] \in Row /\ Written(workspaces[x.at], x) \in Row
      /\ Written(workspaces[x.at], x).slug = workspaces[x.at].slug
      /\ workspaces[x.at].deleted => Written(workspaces[x.at], x).deleted
  BY <1>0, <1>1, WrittenRow
<1> HIDE DEF x
<1>3. /\ workspaces' \in Seq(Row) /\ DOMAIN workspaces' = DOMAIN workspaces
      /\ Len(workspaces') = Len(workspaces)
      /\ \A w \in DOMAIN workspaces :
           workspaces'[w].slug = workspaces[w].slug
             /\ (workspaces[w].deleted => workspaces'[w].deleted)
  BY <1>0, <1>1, <1>2
<1>4. announced' \in Seq(SUBSET EventType) /\ Len(announced') = Len(announced)
  BY <1>0, <1>1
<1>5. TypeOK'
  BY <1>0, <1>3, <1>4 DEF IInv, TypeOK, Decisions, Commit, End, NoTxn
<1>6. RefusedForDeleted'
  BY <1>0, <1>3 DEF IInv, RefusedForDeleted, Commit
<1> QED BY <1>0, <1>3, <1>5, <1>6, CommitKeepsDecisions DEF IInv
-----------------------------------------------------------------------------
(* Every step keeps the invariant.                                         *)
LEMMA StepInv ==
  ASSUME IInv, [Next]_vars
  PROVE  IInv'
<1>1. ASSUME NEW t \in Requests, Abort(t) PROVE IInv'
  <2>1. End(t) /\ stale' = stale \ {t} /\ UNCHANGED <<tables, refused>>
    BY <1>1 DEF Abort
  <2>2. TypeOK' /\ RefusedForDeleted'
    BY <2>1 DEF IInv, TypeOK, Decisions, RefusedForDeleted, End, NoTxn, tables
  <2> QED BY <2>1, <2>2, EndKeepsDecisions DEF IInv, tables
<1>2. ASSUME NEW u \in Users, ProjectProfile(u) PROVE IInv'
  BY <1>2
  DEF ProjectProfile, tables, IInv, TypeOK, RefusedForDeleted, Decisions, Sound, EditOf,
      CurrentEdit, FindBySlug
<1>3. CASE UNCHANGED vars
  BY <1>3
  DEF vars, tables, IInv, TypeOK, RefusedForDeleted, Decisions, Sound, EditOf, CurrentEdit,
      FindBySlug
<1> QED
  BY <1>1, <1>2, <1>3, CreateInv, HandlersInv, InsertInv, InsertRefusedInv, SaveInv DEF Next

(* The invariant holds throughout.                                         *)
LEMMA Invariance == Spec => []IInv
  BY InitInv, StepInv, PTL DEF Spec

(* Rows have their columns, one list of events each.                       *)
THEOREM WorkspaceTypeOK == Spec => []TypeOK
<1>1. IInv => TypeOK
  BY DEF IInv
<1> QED BY Invariance, <1>1, PTL

(* The index refuses a free slug only to a handler that has raced, or for  *)
(* a deleted workspace.                                                    *)
THEOREM SlugsStayTaken == Spec => []RefusedForDeleted
<1>1. IInv => RefusedForDeleted
  BY DEF IInv
<1> QED BY Invariance, <1>1, PTL

(* A commit changes only what its client asked for, whatever was committed *)
(* since it read the row; and a deleted workspace or the fields of an      *)
(* archived one change only by a handler that raced.                       *)
THEOREM EditsNeverUndo == Spec => EditsKeepApart
<1> DEFINE Changed(w) == {c \in DOMAIN workspaces[w] : workspaces'[w][c] # workspaces[w][c]}
           Apart == \A w \in DOMAIN workspaces :
             LET row     == workspaces[w]
                 changed == {c \in DOMAIN row : workspaces'[w][c] # row[c]}
             IN changed # {} =>
                  \E t \in Requests :
                    /\ txn[t] # NoTxn /\ txn'[t] = NoTxn
                    /\ txn[t].at = w /\ changed \subseteq txn[t].asked
                    /\ row.deleted \/ (row.archived /\ changed \cap (Details \cup Preferences) # {})
                         => t \in stale
<1>1. ASSUME IInv, Next PROVE Apart
  <2>1. ASSUME NEW w \in DOMAIN workspaces, NEW t \in Requests, Save(t), Changed(w) # {}
        PROVE  /\ txn[t] # NoTxn /\ txn'[t] = NoTxn
               /\ txn[t].at = w /\ Changed(w) \subseteq txn[t].asked
               /\ workspaces[w].deleted
                    \/ (workspaces[w].archived /\ Changed(w) \cap (Details \cup Preferences) # {})
                  => t \in stale
    <3> DEFINE x == txn[t]
    <3>0. /\ EditOf(x) /\ (t \notin stale => CurrentEdit(x)) /\ x.op = "edit"
          /\ workspaces \in Seq(Row)
          /\ workspaces' = [workspaces EXCEPT ![x.at] = Written(@, x)]
          /\ txn' = [txn EXCEPT ![t] = NoTxn] /\ txn = [r \in Requests |-> txn[r]]
      BY <1>1, <2>1 DEF IInv, TypeOK, Decisions, Sound, Save, Commit, End
    <3>1. x # NoTxn /\ txn'[t] = NoTxn
      BY <3>0 DEF NoTxn
    <3>2. x.at = w
      BY <2>1, <3>0
    <3>3. workspaces[w] \in Row /\ workspaces'[w] = Written(workspaces[w], x)
      BY <3>0, <3>2
    <3>4. Changed(w) \subseteq x.asked
      BY <3>0, <3>3, WrittenRow, RowColumns
    <3>5. ASSUME t \notin stale
          PROVE  /\ ~workspaces[w].deleted
                 /\ workspaces[w].archived => Changed(w) \cap (Details \cup Preferences) = {}
      BY <3>0, <3>2, <3>4, <3>5 DEF CurrentEdit
    <3> QED BY <3>1, <3>2, <3>4, <3>5
  <2>2. ASSUME NEW t \in Requests, Save(t) PROVE Apart
    BY <2>1, <2>2
  <2>3. ASSUME NEW t \in Requests, Insert(t) PROVE Apart
    <3>1. workspaces \in Seq(Row) /\ workspaces' = Append(workspaces, txn[t].row)
      BY <1>1, <2>3 DEF IInv, TypeOK, Insert
    <3>2. \A w \in DOMAIN workspaces : workspaces'[w] = workspaces[w]
      BY <3>1
    <3> QED BY <3>2
  <2>4. CASE UNCHANGED workspaces
    BY <2>4
  <2>5. ASSUME NEW t \in Requests, InsertRefused(t) \/ Abort(t) PROVE UNCHANGED workspaces
    BY <2>5 DEF InsertRefused, Abort, tables
  <2>6. ASSUME NEW t \in Requests, NEW decision, Decide(t, decision) PROVE UNCHANGED workspaces
    BY <2>6 DEF Decide, tables
  <2>7. ASSUME NEW t \in Requests, NEW u \in Users, NEW s \in Slugs, NEW v \in Values,
               CreateWorkspace(t, u, s, v)
        PROVE  UNCHANGED workspaces
    BY <2>6, <2>7 DEF CreateWorkspace
  <2>8. ASSUME NEW t \in Requests, NEW w \in DOMAIN workspaces, NEW u \in Users,
               \/ UpdateWorkspace(t, w, u) \/ UpdateWorkspacePreferences(t, w, u)
               \/ ArchiveWorkspace(t, w, u) \/ RestoreWorkspace(t, w, u)
               \/ DeleteWorkspace(t, w, u)
        PROVE  UNCHANGED workspaces
    BY <2>6, <2>8
    DEF UpdateWorkspace, UpdateWorkspacePreferences, ArchiveWorkspace, RestoreWorkspace,
        DeleteWorkspace, Edit
  <2>9. ASSUME NEW u \in Users, ProjectProfile(u) PROVE UNCHANGED workspaces
    BY <2>9 DEF ProjectProfile, tables
  <2> HIDE DEF Apart
  <2> QED BY <1>1, <2>2, <2>3, <2>4, <2>5, <2>7, <2>8, <2>9 DEF Next
<1>2. ASSUME UNCHANGED vars PROVE [Apart]_vars
  BY <1>2
<1>3. IInv /\ [Next]_vars => [Apart]_vars
  BY <1>1, <1>2
<1> QED BY Invariance, <1>3, PTL DEF Spec, EditsKeepApart
=============================================================================
