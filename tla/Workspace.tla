----------------------------- MODULE Workspace -----------------------------
(***************************************************************************)
(* The table of workspaces and the handlers of the workspace module.       *)
(*                                                                         *)
(* As in Membership a handler is one READ COMMITTED transaction of reads,  *)
(* rules and writes; rows carry no version, and a flush writes the columns *)
(* the handler changed since its read.  Deletion sets a flag: every query  *)
(* leaves the row out, the unique index on the slug does not.              *)
(*                                                                         *)
(* A slug stands for the names it is generated from; a rename keeps it.    *)
(* Nothing suspends a user, so canCreateWorkspace holds of every profile.  *)
(***************************************************************************)
EXTENDS Naturals, Sequences

CONSTANTS
  Users,
  Slugs,
  Values,         \* what a field can be set to
  Requests,       \* handlers that run at the same time
  MaxWorkspaces   \* bound: rows there ever are in workspaces

ASSUME WorkspaceAssumption == Values # {} /\ MaxWorkspaces \in Nat

VARIABLES
  workspaces,  \* the table workspaces, in the order of the inserts
  profiles,    \* users whose profile has reached this module's projection
  announced,   \* types of the events each workspace has stored in the outbox
  txn,         \* what each handler has read and decided to write
  stale,       \* handlers whose reads are older than another one's commit
  refused      \* history: slugs the index refused to a handler whose reads were not

tables == <<workspaces, announced>>
vars   == <<tables, profiles, txn, stale, refused>>

(* about stands for description, logo and time zone; view and settings for *)
(* the columns the preferences are flattened into.                         *)
Details     == {"name", "about"}
Preferences == {"view", "settings"}

Row == [slug : Slugs, owner : Users, name : Values, about : Values, view : Values,
        settings : Values, archived : BOOLEAN, deleted : BOOLEAN]

EventType == {"CREATED", "UPDATED", "ARCHIVED"}

NoTxn == [op |-> "none"]

Init ==
  /\ workspaces = <<>>
  /\ profiles = {}
  /\ announced = <<>>
  /\ txn = [t \in Requests |-> NoTxn]
  /\ stale = {}
  /\ refused = {}
-----------------------------------------------------------------------------
(* Reads and rules.  A request the rules reject changes nothing.           *)

Decide(t, decision) ==
  /\ txn[t] = NoTxn
  /\ txn' = [txn EXCEPT ![t] = decision]
  /\ UNCHANGED <<tables, profiles, stale, refused>>

FindBySlug(s) == {w \in DOMAIN workspaces : workspaces[w].slug = s /\ ~workspaces[w].deleted}

(* A new workspace: what the client leaves out has a default.              *)
NewWorkspace(u, s, v) ==
  [slug |-> s, owner |-> u, name |-> v, about |-> v, view |-> v, settings |-> v,
   archived |-> FALSE, deleted |-> FALSE]

(* Mutant: the slug is not looked up. *)
MutantCreateUnchecked(t, u, s, v) ==
  /\ u \in profiles
  /\ Decide(t, [op |-> "create", row |-> NewWorkspace(u, s, v)])

CreateWorkspace(t, u, s, v) ==
  /\ u \in profiles
  /\ FindBySlug(s) = {}
  /\ Decide(t, [op |-> "create", row |-> NewWorkspace(u, s, v)])

(* getOwnedWorkspaceOrThrow: the owner is the one who created it, whatever *)
(* became of the membership.                                               *)
Owned(w, u) == ~workspaces[w].deleted /\ workspaces[w].owner = u

Edit(t, w, asked, value, tells) ==
  Decide(t, [op |-> "edit", at |-> w, view |-> workspaces[w], asked |-> asked, tells |-> tells,
             row |-> [c \in DOMAIN workspaces[w] |->
                        IF c \in asked THEN value ELSE workspaces[w][c]]])

(* An update announces itself also when it changes nothing.                *)
UpdateWorkspace(t, w, u) == \E asked \in SUBSET Details, v \in Values :
  /\ Owned(w, u) /\ ~workspaces[w].archived
  /\ Edit(t, w, asked, v, {"UPDATED"})

UpdateWorkspacePreferences(t, w, u) == \E asked \in SUBSET Preferences, v \in Values :
  /\ Owned(w, u) /\ ~workspaces[w].archived
  /\ Edit(t, w, asked, v, {"UPDATED"})

(* Archiving an archived workspace, or restoring another, announces        *)
(* nothing and writes what it has read.                                    *)
ArchiveWorkspace(t, w, u) ==
  /\ Owned(w, u)
  /\ Edit(t, w, {"archived"}, TRUE, IF workspaces[w].archived THEN {} ELSE {"ARCHIVED"})

RestoreWorkspace(t, w, u) ==
  /\ Owned(w, u)
  /\ Edit(t, w, {"archived"}, FALSE, IF workspaces[w].archived THEN {"UPDATED"} ELSE {})

(* A deletion is not announced: no other module hears of it.               *)
DeleteWorkspace(t, w, u) ==
  /\ Owned(w, u)
  /\ Edit(t, w, {"deleted"}, TRUE, {})
-----------------------------------------------------------------------------
(* Writes and commits.                                                     *)

End(t) == txn' = [txn EXCEPT ![t] = NoTxn] /\ UNCHANGED profiles

Commit(t) ==
  /\ End(t)
  /\ stale' = {s \in Requests \ {t} : txn[s] # NoTxn}
  /\ UNCHANGED refused

Taken(s) == \E w \in DOMAIN workspaces : workspaces[w].slug = s

Insert(t) ==
  /\ txn[t].op = "create"
  /\ ~Taken(txn[t].row.slug)
  /\ Len(workspaces) < MaxWorkspaces
  /\ workspaces' = Append(workspaces, txn[t].row)
  /\ announced' = Append(announced, {"CREATED"})
  /\ Commit(t)

(* The unique index refuses the slug, and the handler fails.               *)
InsertRefused(t) ==
  /\ txn[t].op = "create"
  /\ Taken(txn[t].row.slug)
  /\ refused' = IF t \in stale THEN refused ELSE refused \cup {txn[t].row.slug}
  /\ End(t)
  /\ stale' = stale \ {t}
  /\ UNCHANGED tables

(* Mutant: every column of the row that was read is written. *)
MutantWholeRow(stored, x) == x.row

(* A flush writes the columns that differ from those that were read.       *)
Written(stored, x) ==
  [c \in DOMAIN stored |-> IF x.row[c] # x.view[c] THEN x.row[c] ELSE stored[c]]

Save(t) ==
  LET x == txn[t] IN
  /\ x.op = "edit"
  /\ workspaces' = [workspaces EXCEPT ![x.at] = Written(@, x)]
  /\ announced' = [announced EXCEPT ![x.at] = @ \cup x.tells]
  /\ Commit(t)

(* A failed statement, a lost connection or a crash.                       *)
Abort(t) ==
  /\ txn[t] # NoTxn
  /\ End(t)
  /\ stale' = stale \ {t}
  /\ UNCHANGED <<tables, refused>>

(* The listener of identity.user.registered.                               *)
ProjectProfile(u) ==
  /\ profiles' = profiles \cup {u}
  /\ UNCHANGED <<tables, txn, stale, refused>>

Next ==
  \/ \E t \in Requests :
       \/ \E u \in Users, s \in Slugs, v \in Values : CreateWorkspace(t, u, s, v)
       \/ \E w \in DOMAIN workspaces, u \in Users :
            \/ UpdateWorkspace(t, w, u) \/ UpdateWorkspacePreferences(t, w, u)
            \/ ArchiveWorkspace(t, w, u) \/ RestoreWorkspace(t, w, u) \/ DeleteWorkspace(t, w, u)
       \/ Insert(t) \/ InsertRefused(t) \/ Save(t) \/ Abort(t)
  \/ \E u \in Users : ProjectProfile(u)

Spec == Init /\ [][Next]_vars
-----------------------------------------------------------------------------
(* Every variable holds values of its table or of a request.               *)
TypeOK ==
  /\ workspaces \in Seq(Row)
  /\ profiles \subseteq Users
  /\ announced \in Seq(SUBSET EventType)
  /\ Len(announced) = Len(workspaces)
  /\ \A t \in Requests : txn[t].op \in {"none", "create", "edit"}
  /\ stale \subseteq Requests
  /\ refused \subseteq Slugs

(* Two edits of one workspace never undo each other: a commit changes only *)
(* the fields its client asked for, whatever was committed since its read. *)
(* And a deleted workspace, or a field of an archived one, changes only by *)
(* a handler that had read it before.                                      *)
EditsKeepApart ==
  [][\A w \in DOMAIN workspaces :
       LET row     == workspaces[w]
           changed == {c \in DOMAIN row : workspaces'[w][c] # row[c]}
       IN changed # {} =>
            \E t \in Requests :
              /\ txn[t] # NoTxn /\ txn'[t] = NoTxn
              /\ txn[t].at = w /\ changed \subseteq txn[t].asked
              /\ row.deleted \/ (row.archived /\ changed \cap (Details \cup Preferences) # {})
                   => t \in stale]_vars

(* The index refuses a slug that was looked up and found free only to a    *)
(* handler that raced, or for a deleted workspace: its name is never free  *)
(* again, though no query finds it.                                        *)
RefusedForDeleted ==
  \A s \in refused : \E w \in DOMAIN workspaces : workspaces[w].slug = s /\ workspaces[w].deleted
=============================================================================
