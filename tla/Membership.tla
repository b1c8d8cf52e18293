----------------------------- MODULE Membership -----------------------------
(***************************************************************************)
(* The members and invitations of one workspace, and the handlers that     *)
(* change them.                                                            *)
(*                                                                         *)
(* A handler is one database transaction: it reads the rows its rules are  *)
(* about, decides, and writes.  The database runs at READ COMMITTED and    *)
(* the rows carry no version, so another handler can commit between the    *)
(* reads and the writes; an UPDATE or DELETE by id then hits the row as it *)
(* has become, or nothing.  A handler that commits on reads older than     *)
(* another one's commit has raced, and "raced" remembers which handlers    *)
(* did: each property says which races it can be lost to.                  *)
(***************************************************************************)
EXTENDS Integers, FiniteSets

CONSTANTS
  Users,          \* each with one e-mail address
  Founder,        \* who created the workspace
  Invitations,    \* bound: invitations ever created
  Requests,       \* handlers that run at the same time
  MaxDeliveries,  \* bound: deliveries of workspace.created by the relay
  MaxRaces        \* bound: kinds of handlers that race

ASSUME FounderAssumption  == Founder \in Users
ASSUME LimitsAssumption   == MaxDeliveries \in Nat /\ MaxRaces \in Nat

VARIABLES
  member,      \* role of each user's row in workspace_members, NONE without a row
  rowId,       \* identity of that row: how many rows the user has had
  invitation,  \* the table workspace_invitations
  profiles,    \* users whose profile has reached this module's projection
  txn,         \* what each handler has decided to write
  stale,       \* handlers whose reads are older than another one's commit
  deliveries,  \* deliveries of workspace.created that found no founder
  raced,       \* history: kinds of handlers that committed on stale reads
  admitted,    \* history: members each invitation has admitted
  blind        \* history: invitations to an address without a profile

tables  == <<member, rowId, invitation>>
history == <<raced, admitted, blind>>
vars    == <<tables, profiles, txn, stale, deliveries, history>>

Role    == {"OWNER", "ADMIN", "MEMBER"}
Status  == {"ABSENT", "PENDING", "ACCEPTED", "REJECTED", "EXPIRED", "CANCELLED"}
Answers == [accept |-> "ACCEPTED", reject |-> "REJECTED", cancel |-> "CANCELLED"]
NoTxn   == [op |-> "none"]

(* What a handler is about, as the races are told apart.                   *)
Kind(op) ==
  CASE op \in {"leave", "remove", "change", "transfer"} -> "members"
    [] op \in DOMAIN Answers -> "answers"
    [] op \in {"invite", "created"} -> op

Txn ==
  {NoTxn, [op |-> "created"]}
    \cup [op : {"leave", "remove"}, target : Users, row : Nat]
    \cup [op : {"change"}, target : Users, row : Nat, role : Role]
    \cup [op : {"transfer"}, actor : Users, actorRow : Nat, target : Users, row : Nat,
          promote : BOOLEAN]
    \cup [op : {"invite"}, inv : Invitations, user : Users, role : Role, known : BOOLEAN]
    \cup [op : DOMAIN Answers, inv : Invitations]

Joined(u) == member[u] # "NONE"
Owners    == {u \in Users : member[u] = "OWNER"}
Founded   == rowId[Founder] > 0

Init ==
  /\ member = [u \in Users |-> "NONE"]
  /\ rowId = [u \in Users |-> 0]
  /\ invitation = [i \in Invitations |-> [status |-> "ABSENT", user |-> Founder,
                                          role |-> "MEMBER", expired |-> FALSE]]
  /\ profiles = {}
  /\ txn = [t \in Requests |-> NoTxn]
  /\ stale = {}
  /\ deliveries = 0
  /\ raced = {}
  /\ admitted = [i \in Invitations |-> 0]
  /\ blind = {}
-----------------------------------------------------------------------------
(* The reads and the rules of the handlers.  A request the rules reject    *)
(* changes nothing and is not a step.                                      *)

Crowded == \E i, j \in Invitations : i # j /\ invitation[i].status # "ABSENT"
                                          /\ invitation[j].status # "ABSENT"

(* Bound: handlers start one at a time once two invitations exist.         *)
Decide(t, decision) ==
  /\ txn[t] = NoTxn
  /\ Crowded => \A s \in Requests : txn[s] = NoTxn
  /\ txn' = [txn EXCEPT ![t] = decision]
  /\ UNCHANGED <<tables, profiles, stale, history>>

(* Mutant: the owner count compared off by one. *)
MutantLastOwnerLeaves(t, u) ==
  /\ Joined(u)
  /\ member[u] = "OWNER" => Cardinality(Owners) >= 1
  /\ Decide(t, [op |-> "leave", target |-> u, row |-> rowId[u]])
  /\ UNCHANGED deliveries

LeaveWorkspace(t, u) ==
  /\ Joined(u)
  /\ member[u] = "OWNER" => Cardinality(Owners) > 1
  /\ Decide(t, [op |-> "leave", target |-> u, row |-> rowId[u]])
  /\ UNCHANGED deliveries

RemoveMember(t, actor, u) ==
  /\ Joined(u)
  /\ \/ member[actor] = "OWNER" /\ member[u] # "OWNER"
     \/ member[actor] = "ADMIN" /\ member[u] = "MEMBER"
  /\ Decide(t, [op |-> "remove", target |-> u, row |-> rowId[u]])
  /\ UNCHANGED deliveries

ChangeRole(t, actor, u, role) ==
  /\ member[actor] = "OWNER"
  /\ actor # u
  /\ role # "OWNER"
  /\ member[u] \in {"ADMIN", "MEMBER"} \ {role}
  /\ Decide(t, [op |-> "change", target |-> u, row |-> rowId[u], role |-> role])
  /\ UNCHANGED deliveries

TransferOwnership(t, actor, u) ==
  /\ member[actor] = "OWNER"
  /\ actor # u
  /\ Joined(u)
  /\ Decide(t, [op |-> "transfer", actor |-> actor, actorRow |-> rowId[actor], target |-> u,
                row |-> rowId[u], promote |-> member[u] # "OWNER"])
  /\ UNCHANGED deliveries

NewInvitation(t, i, u, role) ==
  /\ invitation[i].status = "ABSENT"
  /\ \A s \in Requests : txn[s].op = "invite" => txn[s].inv # i
  /\ Decide(t, [op |-> "invite", inv |-> i, user |-> u, role |-> role,
                known |-> u \in profiles])
  /\ UNCHANGED deliveries

MayInvite(actor, role) ==
  \/ member[actor] = "OWNER" /\ role # "OWNER"
  \/ member[actor] = "ADMIN" /\ role = "MEMBER"

PendingFor(u) ==
  \E i \in Invitations : invitation[i].status = "PENDING" /\ invitation[i].user = u

(* Mutants: one rule of InviteMember dropped each. *)
MutantInviteOwner(t, actor, i, u, role) ==
  /\ member[actor] = "OWNER" \/ (member[actor] = "ADMIN" /\ role = "MEMBER")
  /\ u \in profiles => ~Joined(u)
  /\ ~PendingFor(u)
  /\ NewInvitation(t, i, u, role)

MutantInviteTwice(t, actor, i, u, role) ==
  /\ MayInvite(actor, role)
  /\ u \in profiles => ~Joined(u)
  /\ NewInvitation(t, i, u, role)

(* ensureCanInvite, then no membership and no pending invitation of u; an  *)
(* address whose profile has not arrived is taken for a stranger's.        *)
InviteMember(t, actor, i, u, role) ==
  /\ MayInvite(actor, role)
  /\ u \in profiles => ~Joined(u)
  /\ ~PendingFor(u)
  /\ NewInvitation(t, i, u, role)

Answer(t, op, i) == Decide(t, [op |-> op, inv |-> i]) /\ UNCHANGED deliveries

(* getValidPendingInvitation, and the invitation is the user's own.  One   *)
(* that has expired is marked EXPIRED and saved, and the error that        *)
(* follows rolls the transaction back: nothing changes.                    *)
AcceptInvitation(t, i) ==
  /\ invitation[i].status = "PENDING" /\ ~invitation[i].expired
  /\ ~Joined(invitation[i].user)
  /\ Answer(t, "accept", i)

(* Mutant: any invitation found by its token can be rejected. *)
MutantRejectAnswered(t, i) ==
  /\ invitation[i].status # "ABSENT" /\ ~invitation[i].expired
  /\ Answer(t, "reject", i)

RejectInvitation(t, i) ==
  /\ invitation[i].status = "PENDING" /\ ~invitation[i].expired
  /\ Answer(t, "reject", i)

CancelInvitation(t, actor, i) ==
  /\ invitation[i].status = "PENDING"
  /\ member[actor] \in {"OWNER", "ADMIN"}
  /\ Answer(t, "cancel", i)

(* The listener of workspace.created, at each delivery by the relay.       *)
HandleWorkspaceCreated(t) ==
  /\ deliveries < MaxDeliveries
  /\ ~Joined(Founder)
  /\ deliveries' = deliveries + 1
  /\ Decide(t, [op |-> "created"])
-----------------------------------------------------------------------------
(* The writes and the commit.  A row is written by its id: when it is gone *)
(* the statement affects no row, and the handler goes on.                  *)

Commit(t) ==
  /\ raced' = IF t \in stale THEN raced \cup {Kind(txn[t].op)} ELSE raced
  /\ Cardinality(raced') <= MaxRaces
  /\ txn' = [txn EXCEPT ![t] = NoTxn]
  /\ stale' = {s \in Requests \ {t} : txn[s] # NoTxn}
  /\ UNCHANGED <<profiles, deliveries>>

RowAt(u, row) == Joined(u) /\ rowId[u] = row

CommitDelete(t) ==
  /\ txn[t].op \in {"leave", "remove"}
  /\ member' = IF RowAt(txn[t].target, txn[t].row)
                THEN [member EXCEPT ![txn[t].target] = "NONE"] ELSE member
  /\ Commit(t)
  /\ UNCHANGED <<rowId, invitation, admitted, blind>>

CommitRole(t) ==
  /\ txn[t].op = "change"
  /\ member' = IF RowAt(txn[t].target, txn[t].row)
                THEN [member EXCEPT ![txn[t].target] = txn[t].role] ELSE member
  /\ Commit(t)
  /\ UNCHANGED <<rowId, invitation, admitted, blind>>

(* Each save finds its row by id; a target that was an owner is unchanged. *)
CommitTransfer(t) ==
  /\ txn[t].op = "transfer"
  /\ member' = [u \in Users |->
       IF u = txn[t].target /\ txn[t].promote /\ RowAt(u, txn[t].row) THEN "OWNER"
       ELSE IF u = txn[t].actor /\ RowAt(u, txn[t].actorRow) THEN "ADMIN"
       ELSE member[u]]
  /\ Commit(t)
  /\ UNCHANGED <<rowId, invitation, admitted, blind>>

CommitInvite(t) ==
  /\ txn[t].op = "invite"
  /\ invitation' = [invitation EXCEPT ![txn[t].inv] =
                      [status |-> "PENDING", user |-> txn[t].user, role |-> txn[t].role,
                       expired |-> FALSE]]
  /\ blind' = IF txn[t].known THEN blind ELSE blind \cup {txn[t].inv}
  /\ Commit(t)
  /\ UNCHANGED <<member, rowId, admitted>>

(* An INSERT of a second row of the user violates the unique constraint,   *)
(* and the handler can only abort.                                         *)
Insert(u, role) ==
  /\ ~Joined(u)
  /\ member' = [member EXCEPT ![u] = role]
  /\ rowId' = [rowId EXCEPT ![u] = @ + 1]

WriteAnswer(t) ==
  invitation' = [invitation EXCEPT ![txn[t].inv].status = Answers[txn[t].op]]

(* Mutant: the accepted invitation is not saved. *)
MutantAcceptUnsaved(t) ==
  /\ txn[t].op = "accept"
  /\ Insert(invitation[txn[t].inv].user, invitation[txn[t].inv].role)
  /\ admitted' = [admitted EXCEPT ![txn[t].inv] = @ + 1]
  /\ Commit(t)
  /\ UNCHANGED <<invitation, blind>>

CommitAccept(t) ==
  /\ txn[t].op = "accept"
  /\ Insert(invitation[txn[t].inv].user, invitation[txn[t].inv].role)
  /\ WriteAnswer(t)
  /\ admitted' = [admitted EXCEPT ![txn[t].inv] = @ + 1]
  /\ Commit(t)
  /\ UNCHANGED blind

CommitRefusal(t) ==
  /\ txn[t].op \in {"reject", "cancel"}
  /\ WriteAnswer(t)
  /\ Commit(t)
  /\ UNCHANGED <<member, rowId, admitted, blind>>

CommitCreated(t) ==
  /\ txn[t].op = "created"
  /\ Insert(Founder, "OWNER")
  /\ Commit(t)
  /\ UNCHANGED <<invitation, admitted, blind>>

(* A failed statement, a deadlock, a lost connection or a crash.           *)
Abort(t) ==
  /\ txn[t] # NoTxn
  /\ txn' = [txn EXCEPT ![t] = NoTxn]
  /\ stale' = stale \ {t}
  /\ UNCHANGED <<tables, profiles, deliveries, history>>

InvitationExpires(i) ==
  /\ invitation[i].status = "PENDING" /\ ~invitation[i].expired
  /\ invitation' = [invitation EXCEPT ![i].expired = TRUE]
  /\ UNCHANGED <<member, rowId, profiles, txn, stale, deliveries, history>>

(* The listener of identity.user.registered.                               *)
ProjectProfile(u) ==
  /\ profiles' = profiles \cup {u}
  /\ UNCHANGED <<tables, txn, stale, deliveries, history>>

Handle(t) ==
  \/ \E u \in Users : LeaveWorkspace(t, u)
  \/ \E actor, u \in Users : RemoveMember(t, actor, u) \/ TransferOwnership(t, actor, u)
  \/ \E actor, u \in Users, role \in Role : ChangeRole(t, actor, u, role)
  \/ \E actor, u \in Users, i \in Invitations, role \in Role :
        InviteMember(t, actor, i, u, role)
  \/ \E i \in Invitations : AcceptInvitation(t, i) \/ RejectInvitation(t, i)
  \/ \E actor \in Users, i \in Invitations : CancelInvitation(t, actor, i)
  \/ HandleWorkspaceCreated(t)

Finish(t) ==
  \/ CommitDelete(t) \/ CommitRole(t) \/ CommitTransfer(t) \/ CommitInvite(t)
  \/ CommitAccept(t) \/ CommitRefusal(t) \/ CommitCreated(t) \/ Abort(t)

Next ==
  \/ \E t \in Requests : Handle(t) \/ Finish(t)
  \/ \E i \in Invitations : InvitationExpires(i)
  \/ \E u \in Users : ProjectProfile(u)

Spec == Init /\ [][Next]_vars
-----------------------------------------------------------------------------
TypeOK ==
  /\ member \in [Users -> Role \cup {"NONE"}]
  /\ rowId \in [Users -> Nat]
  /\ invitation \in [Invitations -> [status : Status, user : Users, role : Role \ {"OWNER"},
                                     expired : BOOLEAN]]
  /\ profiles \subseteq Users
  /\ txn \in [Requests -> Txn]
  /\ stale \subseteq Requests
  /\ deliveries \in 0 .. MaxDeliveries
  /\ raced \subseteq {"members", "answers", "invite", "created"}
  /\ admitted \in [Invitations -> Nat]
  /\ blind \subseteq Invitations

(* A founded workspace has an owner, and exactly one if workspace.created  *)
(* was delivered once, unless a handler on members raced: leaving,         *)
(* removal, role change and transfer one after the other neither lose nor  *)
(* multiply ownership, and no race of invitations does.                    *)
OneOwner ==
  Founded /\ "members" \notin raced =>
    /\ Owners # {}
    /\ deliveries = 1 => Cardinality(Owners) = 1

(* An invitation answered once keeps that answer unless two answers raced: *)
(* accept, reject and cancel exclude each other.                           *)
AnswersAreFinal ==
  [][\A i \in Invitations :
       invitation[i].status \notin {"ABSENT", "PENDING"} /\ "answers" \notin raced'
         => invitation'[i].status = invitation[i].status]_vars

(* Unless answers raced, an invitation admits one member, and exactly the  *)
(* accepted ones have.                                                     *)
AcceptedAdmitsOnce ==
  "answers" \notin raced => \A i \in Invitations :
    admitted[i] = IF invitation[i].status = "ACCEPTED" THEN 1 ELSE 0

(* An address has at most one pending invitation unless two invites raced; *)
(* and a member has none unless an invite or an answer raced, the founder  *)
(* was made a member again by a repeated workspace.created, or the address *)
(* had no profile when it was invited.                                     *)
Pending(i) == invitation[i].status = "PENDING"

PendingIsSound ==
  "invite" \notin raced => \A i \in Invitations : Pending(i) =>
    /\ \A j \in Invitations : Pending(j) /\ invitation[i].user = invitation[j].user => i = j
    /\ deliveries <= 1 /\ "answers" \notin raced /\ Joined(invitation[i].user) => i \in blind

(* docs/module-development-context.md:178 "The last owner cannot leave or  *)
(* be removed.": once founded, the workspace keeps an owner.               *)
LastOwnerStays == Founded => Owners # {}
=============================================================================
