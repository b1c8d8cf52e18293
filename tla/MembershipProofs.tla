-------------------------- MODULE MembershipProofs --------------------------
(***************************************************************************)
(* Proofs about the members and invitations of a workspace, for every set  *)
(* of users, invitations and overlapping handlers and any number of        *)
(* deliveries of workspace.created.                                        *)
(*                                                                         *)
(* As in BoardProofs: what a decision rests on until somebody else commits *)
(* is StillTrue, what it rests on whatever others commit is Lasting.       *)
(***************************************************************************)
EXTENDS Membership, FiniteSetTheorems, TLAPS

Answering == {"accept", "reject", "cancel"}

(* What a decision d rests on, as long as nobody else commits. *)
StillTrue(d) ==
  /\ d.op = "leave" /\ member[d.target] = "OWNER" => \E v \in Owners : v # d.target
  /\ d.op \in {"remove", "change"} => member[d.target] # "OWNER"
  /\ d.op = "transfer" =>
       /\ d.actor # d.target
       /\ member[d.actor] = "OWNER" /\ d.actorRow = rowId[d.actor]
       /\ RowAt(d.target, d.row) /\ (~d.promote => member[d.target] = "OWNER")
  /\ d.op = "invite" => ~PendingFor(d.user) /\ (d.known => ~Joined(d.user))
  /\ d.op \in Answering => Pending(d.inv)

(* What it rests on for ever. *)
Lasting(d) ==
  /\ d.op \in {"change", "invite"} => d.role # "OWNER"
  /\ d.op = "invite" => invitation[d.inv].status = "ABSENT"
  /\ d.op \in Answering => invitation[d.inv].status # "ABSENT"
  /\ d.op \notin {"none", "created"} => Founded
  /\ d.op = "created" => deliveries > 0 /\ (deliveries = 1 => ~Founded)

(* No two handlers create one invitation, and one delivery is one handler. *)
Apart(c, d) ==
  /\ c.op = "invite" /\ d.op = "invite" => c.inv # d.inv
  /\ deliveries = 1 => c.op # "created" \/ d.op # "created"

Decisions ==
  /\ \A t \in Requests : Lasting(txn[t]) /\ (t \notin stale => StillTrue(txn[t]))
  /\ \A s, t \in Requests : s # t => Apart(txn[s], txn[t])

(* Nobody joins and nobody is invited before the founder. *)
NothingUnfounded ==
  ~Founded => (\A u \in Users : ~Joined(u)) /\ \A i \in Invitations : invitation[i].status = "ABSENT"

DeliveredIfFounded == Founded => deliveries > 0

(* OneOwner, with the one owner named instead of counted. *)
OwnerNamed ==
  Founded /\ "members" \notin raced =>
    /\ \E o \in Users : o \in Owners
    /\ deliveries = 1 => \E o \in Users : Owners = {o}

IInv ==
  /\ TypeOK
  /\ NothingUnfounded
  /\ DeliveredIfFounded
  /\ OwnerNamed
  /\ AcceptedAdmitsOnce
  /\ PendingIsSound
  /\ Decisions
-----------------------------------------------------------------------------
(* The answers are accept, reject and cancel. *)
LEMMA AnswersAre ==
  /\ DOMAIN Answers = Answering
  /\ Answers["accept"] = "ACCEPTED" /\ Answers["reject"] = "REJECTED"
  /\ Answers["cancel"] = "CANCELLED"
  BY DEF Answers, Answering

(* The fields of a decision are what its kind says. *)
LEMMA DecisionTypes ==
  ASSUME NEW d \in Txn
  PROVE  /\ d.op \in {"leave", "remove", "change", "transfer"} =>
              d.target \in Users /\ d.row \in Nat
         /\ d.op \in {"change", "invite"} => d.role \in Role
         /\ d.op = "transfer" =>
              d.actor \in Users /\ d.actorRow \in Nat /\ d.promote \in BOOLEAN
         /\ d.op = "invite" =>
              d.inv \in Invitations /\ d.user \in Users /\ d.known \in BOOLEAN
         /\ d.op \in Answering => d.inv \in Invitations
  BY AnswersAre DEF Txn, NoTxn, Answering

(* Nothing exists at first. *)
LEMMA InitInv == Init => IInv
<1> SUFFICES ASSUME Init PROVE IInv
  OBVIOUS
<1> USE FounderAssumption, LimitsAssumption DEF Init
<1>1. TypeOK
  BY DEF TypeOK, Role, Status, Txn, NoTxn
<1>2. NothingUnfounded /\ DeliveredIfFounded /\ OwnerNamed
  BY DEF NothingUnfounded, DeliveredIfFounded, OwnerNamed, Founded, Joined
<1>3. AcceptedAdmitsOnce /\ PendingIsSound
  BY DEF AcceptedAdmitsOnce, PendingIsSound, Pending
<1>4. Decisions
  BY DEF Decisions, Lasting, StillTrue, Apart, NoTxn, Answering
<1> QED BY <1>1, <1>2, <1>3, <1>4 DEF IInv

(* A handler that decides on what holds now keeps the invariant.           *)
LEMMA DecideInv ==
  ASSUME IInv, NEW t \in Requests, NEW d \in Txn, Decide(t, d), UNCHANGED deliveries,
         d.op # "created", Lasting(d), StillTrue(d),
         \A s \in Requests : d.op = "invite" /\ txn[s].op = "invite" => txn[s].inv # d.inv
  PROVE  IInv'
<1> USE DEF IInv, Decide, tables, history
<1>1. TypeOK'
  BY DEF TypeOK
<1>2. NothingUnfounded' /\ DeliveredIfFounded' /\ OwnerNamed'
  BY DEF NothingUnfounded, DeliveredIfFounded, OwnerNamed, Founded, Joined, Owners
<1>3. AcceptedAdmitsOnce' /\ PendingIsSound'
  BY DEF AcceptedAdmitsOnce, PendingIsSound, Pending, Joined
<1>4. \A x : Lasting(x)' = Lasting(x) /\ StillTrue(x)' = StillTrue(x)
  BY DEF Lasting, StillTrue, Founded, Owners, RowAt, Joined, PendingFor, Pending
<1>5. \A s \in Requests : Lasting(txn[s])' /\ (s \notin stale' => StillTrue(txn[s])')
  BY <1>4 DEF Decisions, TypeOK
<1>6. \A r, s \in Requests : r # s => Apart(txn[r], txn[s])'
  BY DEF Decisions, TypeOK, Apart
<1> QED BY <1>1, <1>2, <1>3, <1>5, <1>6 DEF Decisions
-----------------------------------------------------------------------------
(* An owner is not alone when the count says more than one. *)
LEMMA OtherOwner ==
  ASSUME NEW u \in Users, member[u] = "OWNER" => Cardinality(Owners) > 1
  PROVE  member[u] = "OWNER" => \E v \in Owners : v # u
<1> SUFFICES ASSUME member[u] = "OWNER", \A v \in Owners : v = u
             PROVE  FALSE
  OBVIOUS
<1>1. Owners = {u}
  BY DEF Owners
<1>2. Cardinality(Owners) = 1
  BY <1>1, FS_Singleton
<1> QED BY <1>2

(* Who has joined has joined a workspace that is founded. *)
LEMMA MembersFounded ==
  ASSUME IInv, NEW u \in Users, member[u] \in Role
  PROVE  Founded
  BY DEF IInv, NothingUnfounded, Joined, Role

(* Handlers on members. *)
LEMMA LeaveWorkspaceInv ==
  ASSUME IInv, NEW t \in Requests, NEW u \in Users, LeaveWorkspace(t, u)
  PROVE  IInv'
<1> DEFINE d == [op |-> "leave", target |-> u, row |-> rowId[u]]
<1>1. d \in Txn
  BY DEF IInv, TypeOK, Txn
<1>2. Founded
  BY MembersFounded DEF LeaveWorkspace, Joined, IInv, TypeOK
<1>3. Lasting(d) /\ StillTrue(d)
  BY <1>2, OtherOwner DEF LeaveWorkspace, Lasting, StillTrue, Answering
<1> QED BY <1>1, <1>3, DecideInv DEF LeaveWorkspace

(* The removal of a member is decided on the row of that member. *)
LEMMA RemoveMemberInv ==
  ASSUME IInv, NEW t \in Requests, NEW actor \in Users, NEW u \in Users,
         RemoveMember(t, actor, u)
  PROVE  IInv'
<1> DEFINE d == [op |-> "remove", target |-> u, row |-> rowId[u]]
<1>1. d \in Txn
  BY DEF IInv, TypeOK, Txn
<1>2. Founded
  BY MembersFounded DEF RemoveMember, Role
<1>3. Lasting(d) /\ StillTrue(d)
  BY <1>2 DEF RemoveMember, Lasting, StillTrue, Answering
<1> QED BY <1>1, <1>3, DecideInv DEF RemoveMember

(* So is the change of a role. *)
LEMMA ChangeRoleInv ==
  ASSUME IInv, NEW t \in Requests, NEW actor \in Users, NEW u \in Users, NEW role \in Role,
         ChangeRole(t, actor, u, role)
  PROVE  IInv'
<1> DEFINE d == [op |-> "change", target |-> u, row |-> rowId[u], role |-> role]
<1>1. d \in Txn
  BY DEF IInv, TypeOK, Txn
<1>2. Founded
  BY MembersFounded DEF ChangeRole, Role
<1>3. Lasting(d) /\ StillTrue(d)
  BY <1>2 DEF ChangeRole, Lasting, StillTrue, Answering
<1> QED BY <1>1, <1>3, DecideInv DEF ChangeRole

(* The transfer is decided on the rows of both members. *)
LEMMA TransferOwnershipInv ==
  ASSUME IInv, NEW t \in Requests, NEW actor \in Users, NEW u \in Users,
         TransferOwnership(t, actor, u)
  PROVE  IInv'
<1> DEFINE d == [op |-> "transfer", actor |-> actor, actorRow |-> rowId[actor], target |-> u,
                 row |-> rowId[u], promote |-> member[u] # "OWNER"]
<1>1. d \in Txn
  BY DEF IInv, TypeOK, Txn
<1>2. Founded
  BY MembersFounded DEF TransferOwnership, Role
<1>3. Lasting(d) /\ StillTrue(d)
  BY <1>2 DEF TransferOwnership, Lasting, StillTrue, Answering, RowAt
<1> QED BY <1>1, <1>3, DecideInv DEF TransferOwnership

(* Handlers on invitations. *)
LEMMA InviteMemberInv ==
  ASSUME IInv, NEW t \in Requests, NEW actor \in Users, NEW u \in Users,
         NEW i \in Invitations, NEW role \in Role, InviteMember(t, actor, i, u, role)
  PROVE  IInv'
<1> DEFINE d == [op |-> "invite", inv |-> i, user |-> u, role |-> role, known |-> u \in profiles]
<1>0. /\ invitation[i].status = "ABSENT" /\ ~PendingFor(u) /\ (u \in profiles => ~Joined(u))
      /\ \A s \in Requests : txn[s].op = "invite" => txn[s].inv # i
      /\ MayInvite(actor, role) /\ Decide(t, d) /\ UNCHANGED deliveries
  BY DEF InviteMember, NewInvitation
<1>1. d \in Txn
  BY DEF Txn
<1>2. Founded /\ role # "OWNER"
  BY <1>0, MembersFounded DEF MayInvite, Role
<1>3. Lasting(d) /\ StillTrue(d)
  BY <1>0, <1>2 DEF Lasting, StillTrue, Answering
<1> QED BY <1>0, <1>1, <1>3, DecideInv

(* An invitation is answered while it is pending. *)
LEMMA AnswerInv ==
  ASSUME IInv, NEW t \in Requests, NEW op \in Answering, NEW i \in Invitations,
         Pending(i), Answer(t, op, i)
  PROVE  IInv'
<1> DEFINE d == [op |-> op, inv |-> i]
<1>1. d \in Txn
  BY AnswersAre DEF Txn
<1>2. Founded
  BY DEF IInv, NothingUnfounded, Pending
<1>3. Lasting(d) /\ StillTrue(d)
  BY <1>2 DEF Lasting, StillTrue, Answering, Pending
<1> QED BY <1>1, <1>3, DecideInv DEF Answer, Answering

(* The listener of workspace.created: of one delivery there is one handler, *)
(* and it finds nothing founded.                                            *)
LEMMA HandleWorkspaceCreatedInv ==
  ASSUME IInv, NEW t \in Requests, HandleWorkspaceCreated(t)
  PROVE  IInv'
<1> DEFINE d == [op |-> "created"]
<1>0. /\ deliveries' = deliveries + 1 /\ deliveries < MaxDeliveries
      /\ txn[t] = NoTxn /\ txn' = [txn EXCEPT ![t] = d]
      /\ UNCHANGED <<member, rowId, invitation, profiles, stale, raced, admitted, blind>>
      /\ deliveries \in Nat
  BY DEF HandleWorkspaceCreated, Decide, IInv, TypeOK, tables, history
<1> USE LimitsAssumption
<1>1. TypeOK'
  BY <1>0 DEF IInv, TypeOK, Txn
<1>2. NothingUnfounded' /\ DeliveredIfFounded'
  BY <1>0 DEF IInv, NothingUnfounded, DeliveredIfFounded, Founded, Joined
<1>3. OwnerNamed'
  BY <1>0 DEF IInv, DeliveredIfFounded, OwnerNamed, Founded, Owners
<1>4. AcceptedAdmitsOnce' /\ PendingIsSound'
  BY <1>0 DEF IInv, AcceptedAdmitsOnce, PendingIsSound, Pending, Joined
<1>5. \A x : StillTrue(x)' = StillTrue(x)
  BY <1>0 DEF StillTrue, Owners, RowAt, Joined, PendingFor, Pending
<1>6. deliveries' = 1 =>
        ~Founded /\ \A s \in Requests : txn[s].op # "created"
  BY <1>0 DEF IInv, DeliveredIfFounded, Decisions, Lasting
<1>7. Founded' = Founded
  BY <1>0 DEF Founded
<1>8. \A s \in Requests : Lasting(txn[s])' /\ (s \notin stale' => StillTrue(txn[s])')
  <2>1. Lasting(d)' /\ StillTrue(d)'
    BY <1>0, <1>6, <1>7 DEF Lasting, StillTrue, Answering
  <2>2. \A s \in Requests : Lasting(txn[s]) => Lasting(txn[s])' \/ s = t
    BY <1>0, <1>6, <1>7 DEF Lasting, IInv, TypeOK
  <2>3. txn'[t] = d
    BY <1>0 DEF IInv, TypeOK
  <2>4. \A s \in Requests \ {t} : txn'[s] = txn[s]
    BY <1>0 DEF IInv, TypeOK
  <2> QED BY <1>0, <1>5, <2>1, <2>2, <2>3, <2>4 DEF IInv, Decisions
<1>9. \A r, s \in Requests : r # s => Apart(txn[r], txn[s])'
  BY <1>0, <1>6 DEF IInv, TypeOK, Decisions, Apart
<1> QED BY <1>1, <1>2, <1>3, <1>4, <1>8, <1>9 DEF IInv, Decisions
-----------------------------------------------------------------------------
(* A commit leaves nobody else's reads current, and does nothing to what   *)
(* the other decisions rest on.                                            *)
LEMMA CommitKeepsDecisions ==
  ASSUME IInv, NEW t \in Requests, Commit(t),
         Founded => Founded',
         txn[t].op # "created" /\ ~Founded => ~Founded',
         \A i \in Invitations : invitation[i].status # "ABSENT" => invitation'[i].status # "ABSENT",
         \A i \in Invitations :
           invitation[i].status = "ABSENT" /\ ~(txn[t].op = "invite" /\ txn[t].inv = i)
             => invitation'[i].status = "ABSENT"
  PROVE  Decisions'
<1>0. /\ txn' = [txn EXCEPT ![t] = NoTxn] /\ stale' = {s \in Requests \ {t} : txn[s] # NoTxn}
      /\ deliveries' = deliveries /\ deliveries \in Nat /\ txn \in [Requests -> Txn]
  BY LimitsAssumption DEF Commit, IInv, TypeOK
<1>1. ASSUME NEW s \in Requests PROVE Lasting(txn[s])' /\ (s \notin stale' => StillTrue(txn[s])')
  <2>1. CASE txn'[s] = NoTxn
    BY <2>1 DEF NoTxn, Lasting, StillTrue, Answering
  <2>2. CASE txn'[s] # NoTxn
    <3>1. /\ s # t /\ txn'[s] = txn[s] /\ s \in stale' /\ txn[s] \in Txn
          /\ Lasting(txn[s]) /\ Apart(txn[s], txn[t])
      BY <1>0, <2>2 DEF IInv, Decisions
    <3>2. txn[s].op \in Answering \cup {"invite"} => txn[s].inv \in Invitations
      BY <3>1, DecisionTypes
    <3>3. Lasting(txn[s])'
      BY <1>0, <3>1, <3>2 DEF Lasting, Apart
    <3> QED BY <3>1, <3>3
  <2> QED BY <2>1, <2>2
<1>2. ASSUME NEW r \in Requests, NEW s \in Requests, r # s PROVE Apart(txn[r], txn[s])'
  <2>1. Apart(txn[r], txn[s])
    BY <1>2 DEF IInv, Decisions
  <2>2. (txn'[r] = txn[r] \/ txn'[r].op = "none") /\ (txn'[s] = txn[s] \/ txn'[s].op = "none")
    BY <1>0 DEF NoTxn
  <2> QED BY <1>0, <2>1, <2>2 DEF Apart
<1> QED BY <1>1, <1>2 DEF Decisions

(* What a commit leaves typed, and the races it remembers.                 *)
LEMMA CommitTypes ==
  ASSUME IInv, NEW t \in Requests, Commit(t), txn[t] # NoTxn
  PROVE  /\ txn' \in [Requests -> Txn] /\ stale' \subseteq Requests
         /\ profiles' = profiles /\ deliveries' = deliveries
         /\ raced \subseteq raced' /\ raced' \subseteq {"members", "answers", "invite", "created"}
         /\ txn[t].op \in {"leave", "remove", "change", "transfer"} /\ "members" \notin raced'
              => t \notin stale
         /\ txn[t].op \in Answering /\ "answers" \notin raced' => t \notin stale
         /\ txn[t].op = "invite" /\ "invite" \notin raced' => t \notin stale
<1> USE DEF IInv, TypeOK, Commit
<1>1. txn[t].op \in {"leave", "remove", "change", "transfer", "invite", "created"} \cup Answering
  BY AnswersAre DEF Txn, NoTxn, Answering
<1>2. /\ txn[t].op \in {"leave", "remove", "change", "transfer"} => Kind(txn[t].op) = "members"
      /\ txn[t].op \in Answering => Kind(txn[t].op) = "answers"
      /\ txn[t].op \in {"invite", "created"} => Kind(txn[t].op) = txn[t].op
  BY AnswersAre DEF Kind, Answering
<1>3. txn' \in [Requests -> Txn] /\ stale' \subseteq Requests
  BY DEF Txn
<1> QED BY <1>1, <1>2, <1>3

(* Commits that only make roles other than OWNER, of members that were not *)
(* owners, or that end memberships, keep the invariant; so does a transfer. *)
LEMMA MembersInv ==
  ASSUME IInv, NEW t \in Requests, Commit(t),
         txn[t].op \in {"leave", "remove", "change", "transfer"},
         UNCHANGED <<rowId, invitation, admitted, blind>>,
         member' \in [Users -> Role \cup {"NONE"}],
         \A u \in Users : Joined(u)' => Joined(u),
         OwnerNamed'
  PROVE  IInv'
<1>0. txn[t] # NoTxn
  BY DEF NoTxn
<1>1. TypeOK'
  BY <1>0, CommitTypes DEF IInv, TypeOK
<1>2. NothingUnfounded' /\ DeliveredIfFounded'
  BY <1>0, CommitTypes DEF IInv, NothingUnfounded, DeliveredIfFounded, Founded
<1>3. AcceptedAdmitsOnce'
  BY <1>0, CommitTypes DEF IInv, AcceptedAdmitsOnce
<1>4. PendingIsSound'
  BY <1>0, CommitTypes DEF IInv, TypeOK, PendingIsSound, Pending
<1>5. Decisions'
  BY CommitKeepsDecisions DEF Founded
<1> QED BY <1>1, <1>2, <1>3, <1>4, <1>5 DEF IInv

(* A membership that ends, after the count, is not the last owner's.       *)
LEMMA CommitDeleteInv ==
  ASSUME IInv, NEW t \in Requests, CommitDelete(t)
  PROVE  IInv'
<1> DEFINE d == txn[t]
<1>0. /\ d.op \in {"leave", "remove"} /\ d.target \in Users /\ d \in Txn
      /\ Commit(t) /\ UNCHANGED <<rowId, invitation, admitted, blind>>
      /\ member' = member \/ member' = [member EXCEPT ![d.target] = "NONE"]
      /\ member \in [Users -> Role \cup {"NONE"}]
  BY DecisionTypes DEF CommitDelete, IInv, TypeOK
<1>1. t \notin stale => StillTrue(d)
  BY DEF IInv, Decisions
<1>2. "members" \notin raced' => "members" \notin raced /\ StillTrue(d)
  BY <1>0, <1>1, CommitTypes DEF NoTxn
<1>3. deliveries' = deliveries /\ Founded' = Founded
  BY <1>0 DEF Commit, Founded
<1> HIDE DEF d
<1>4. OwnerNamed'
  <2> SUFFICES ASSUME Founded, "members" \notin raced'
               PROVE  /\ \E o \in Users : o \in Owners'
                      /\ deliveries = 1 => \E o \in Users : Owners' = {o}
    BY <1>3 DEF OwnerNamed
  <2>1. /\ \E o \in Users : o \in Owners
        /\ deliveries = 1 => \E o \in Users : Owners = {o}
        /\ Owners \ {d.target} # {}
    BY <1>0, <1>2 DEF IInv, OwnerNamed, StillTrue, Owners
  <2>2. Owners \ {d.target} \subseteq Owners' /\ Owners' \subseteq Owners
    BY <1>0 DEF Owners
  <2>3. Owners \subseteq Users
    BY DEF Owners
  <2> QED BY <2>1, <2>2, <2>3
<1>5. member' \in [Users -> Role \cup {"NONE"}] /\ \A u \in Users : Joined(u)' => Joined(u)
  BY <1>0 DEF Joined
<1> QED BY <1>0, <1>4, <1>5, MembersInv DEF d

(* A role that changes was not OWNER and does not become it.               *)
LEMMA CommitRoleInv ==
  ASSUME IInv, NEW t \in Requests, CommitRole(t)
  PROVE  IInv'
<1> DEFINE d == txn[t]
<1>0. /\ d.op = "change" /\ d.target \in Users /\ d.role \in Role /\ d.role # "OWNER"
      /\ Commit(t) /\ UNCHANGED <<rowId, invitation, admitted, blind>>
      /\ \/ member' = member
         \/ Joined(d.target) /\ member' = [member EXCEPT ![d.target] = d.role]
      /\ member \in [Users -> Role \cup {"NONE"}]
  BY DecisionTypes DEF CommitRole, RowAt, IInv, TypeOK, Decisions, Lasting
<1>1. t \notin stale => StillTrue(d)
  BY DEF IInv, Decisions
<1>2. "members" \notin raced' => "members" \notin raced /\ StillTrue(d)
  BY <1>0, <1>1, CommitTypes DEF NoTxn
<1>3. deliveries' = deliveries /\ Founded' = Founded
  BY <1>0 DEF Commit, Founded
<1> HIDE DEF d
<1>4. OwnerNamed'
  <2>1. "members" \notin raced' => Owners' = Owners
    BY <1>0, <1>2 DEF Owners, StillTrue
  <2> QED BY <1>2, <1>3, <2>1 DEF IInv, OwnerNamed
<1>5. member' \in [Users -> Role \cup {"NONE"}] /\ \A u \in Users : Joined(u)' => Joined(u)
  BY <1>0 DEF Joined
<1> QED BY <1>0, <1>4, <1>5, MembersInv DEF d

(* A transfer that has not raced leaves an owner, the target.              *)
LEMMA CommitTransferInv ==
  ASSUME IInv, NEW t \in Requests, CommitTransfer(t)
  PROVE  IInv'
<1> DEFINE d == txn[t]
<1>0. /\ d.op = "transfer" /\ d.target \in Users /\ d.actor \in Users
      /\ Commit(t) /\ UNCHANGED <<rowId, invitation, admitted, blind>>
      /\ member' = [u \in Users |->
           IF u = d.target /\ d.promote /\ RowAt(u, d.row) THEN "OWNER"
           ELSE IF u = d.actor /\ RowAt(u, d.actorRow) THEN "ADMIN"
           ELSE member[u]]
      /\ member \in [Users -> Role \cup {"NONE"}]
  BY DecisionTypes DEF CommitTransfer, IInv, TypeOK
<1>1. t \notin stale => StillTrue(d)
  BY DEF IInv, Decisions
<1>2. "members" \notin raced' => "members" \notin raced /\ StillTrue(d)
  BY <1>0, <1>1, CommitTypes DEF NoTxn
<1>3. deliveries' = deliveries /\ Founded' = Founded
  BY <1>0 DEF Commit, Founded
<1> HIDE DEF d
<1>4. OwnerNamed'
  <2> SUFFICES ASSUME Founded, "members" \notin raced'
               PROVE  /\ \E o \in Users : o \in Owners'
                      /\ deliveries = 1 => \E o \in Users : Owners' = {o}
    BY <1>3 DEF OwnerNamed
  <2>1. /\ d.actor # d.target /\ RowAt(d.target, d.row) /\ d.actor \in Owners
        /\ d.promote \/ member[d.target] = "OWNER"
        /\ RowAt(d.actor, d.actorRow)
    BY <1>0, <1>2 DEF StillTrue, Owners, RowAt, Joined
  <2>2. member'[d.target] = "OWNER" /\ member'[d.actor] = "ADMIN"
    BY <1>0, <2>1
  <2>3. deliveries = 1 => Owners = {d.actor}
    BY <1>2, <2>1 DEF IInv, OwnerNamed
  <2>4. \A u \in Users \ {d.target, d.actor} : member'[u] = member[u]
    BY <1>0
  <2>5. d.target \in Owners'
    BY <1>0, <2>2 DEF Owners
  <2>6. deliveries = 1 => Owners' = {d.target}
    BY <1>0, <2>2, <2>3, <2>4 DEF Owners
  <2> QED BY <1>0, <2>5, <2>6
<1>5. member' \in [Users -> Role \cup {"NONE"}] /\ \A u \in Users : Joined(u)' => Joined(u)
  BY <1>0 DEF Joined, RowAt, Role
<1> QED BY <1>0, <1>4, <1>5, MembersInv DEF d

(* An invitation that is created is the only pending one of its address,   *)
(* and of nobody known to be a member.                                     *)
LEMMA CommitInviteInv ==
  ASSUME IInv, NEW t \in Requests, CommitInvite(t)
  PROVE  IInv'
<1> DEFINE d == txn[t]
<1>0. /\ d.op = "invite" /\ d.inv \in Invitations /\ d.user \in Users /\ d.known \in BOOLEAN
      /\ d.role \in Role \ {"OWNER"} /\ Founded /\ invitation[d.inv].status = "ABSENT"
      /\ invitation' = [invitation EXCEPT ![d.inv] =
           [status |-> "PENDING", user |-> d.user, role |-> d.role, expired |-> FALSE]]
      /\ blind' = IF d.known THEN blind ELSE blind \cup {d.inv}
      /\ Commit(t) /\ UNCHANGED <<member, rowId, admitted>>
  BY DecisionTypes DEF CommitInvite, IInv, TypeOK, Decisions, Lasting
<1>1. t \notin stale => StillTrue(d)
  BY DEF IInv, Decisions
<1>2. "invite" \notin raced' =>
        "invite" \notin raced /\ ~PendingFor(d.user) /\ (d.known => ~Joined(d.user))
  BY <1>0, <1>1, CommitTypes DEF NoTxn, StillTrue
<1>3. /\ txn' \in [Requests -> Txn] /\ stale' \subseteq Requests
      /\ profiles' = profiles /\ deliveries' = deliveries
      /\ raced \subseteq raced' /\ raced' \subseteq {"members", "answers", "invite", "created"}
  BY <1>0, CommitTypes DEF NoTxn
<1>4. Decisions'
  <2>1. Founded' = Founded
    BY <1>0 DEF Founded
  <2>2. invitation \in [Invitations -> [status : Status, user : Users, role : Role \ {"OWNER"},
                                        expired : BOOLEAN]]
    BY DEF IInv, TypeOK
  <2>3. \A i \in Invitations : invitation[i].status # "ABSENT" => invitation'[i].status # "ABSENT"
    BY <1>0, <2>2
  <2>4. \A i \in Invitations :
          invitation[i].status = "ABSENT" /\ ~(d.op = "invite" /\ d.inv = i)
            => invitation'[i].status = "ABSENT"
    BY <1>0, <2>2
  <2> QED BY <1>0, <2>1, <2>3, <2>4, CommitKeepsDecisions
<1> HIDE DEF d
<1>5. TypeOK'
  BY <1>0, <1>3 DEF IInv, TypeOK, Status
<1>6. NothingUnfounded' /\ DeliveredIfFounded' /\ OwnerNamed'
  BY <1>0, <1>3 DEF IInv, NothingUnfounded, DeliveredIfFounded, OwnerNamed, Founded, Owners
<1>7. AcceptedAdmitsOnce'
  BY <1>0, <1>3 DEF IInv, TypeOK, AcceptedAdmitsOnce
<1>8. PendingIsSound'
  <2> SUFFICES ASSUME "invite" \notin raced', NEW i \in Invitations, Pending(i)'
               PROVE  /\ \A j \in Invitations :
                           Pending(j)' /\ invitation'[i].user = invitation'[j].user => i = j
                      /\ deliveries <= 1 /\ "answers" \notin raced' /\ Joined(invitation'[i].user)
                           => i \in blind'
    BY <1>0, <1>3 DEF PendingIsSound, Joined
  <2>1. \A j \in Invitations \ {d.inv} : invitation'[j] = invitation[j]
    BY <1>0 DEF IInv, TypeOK
  <2>2. invitation'[d.inv].user = d.user
    BY <1>0 DEF IInv, TypeOK
  <2>3. \A j \in Invitations : Pending(j) => invitation[j].user # d.user
    BY <1>2 DEF PendingFor, Pending
  <2>4. \A j \in Invitations : Pending(j)' => j = d.inv \/ Pending(j)
    BY <2>1 DEF Pending
  <2>5. CASE i = d.inv
    BY <1>0, <1>2, <2>1, <2>2, <2>3, <2>4, <2>5
  <2>6. CASE i # d.inv
    BY <1>0, <1>2, <1>3, <2>1, <2>2, <2>3, <2>4, <2>6 DEF IInv, PendingIsSound
  <2> QED BY <2>5, <2>6
<1> QED BY <1>4, <1>5, <1>6, <1>7, <1>8 DEF IInv

(* What the commit of an answer changes.                                   *)
LEMMA AnswerWritten ==
  ASSUME IInv, NEW t \in Requests, txn[t].op \in Answering, Commit(t), WriteAnswer(t)
  PROVE  LET inv == txn[t].inv IN
         /\ inv \in Invitations /\ Founded /\ invitation[inv].status # "ABSENT"
         /\ invitation' \in [Invitations -> [status : Status, user : Users,
                                             role : Role \ {"OWNER"}, expired : BOOLEAN]]
         /\ \A i \in Invitations : invitation'[i].user = invitation[i].user
         /\ \A i \in Invitations \ {inv} : invitation'[i] = invitation[i]
         /\ invitation'[inv].status = Answers[txn[t].op]
         /\ Answers[txn[t].op] \notin {"ABSENT", "PENDING"}
         /\ Answers[txn[t].op] = "ACCEPTED" <=> txn[t].op = "accept"
         /\ "answers" \notin raced' => "answers" \notin raced /\ Pending(inv)
<1> DEFINE inv == txn[t].inv
           ans == Answers[txn[t].op]
<1>1. inv \in Invitations /\ Founded /\ invitation[inv].status # "ABSENT"
  BY DecisionTypes DEF IInv, TypeOK, Decisions, Lasting, Answering
<1>2. ans \in {"ACCEPTED", "REJECTED", "CANCELLED"} /\ (ans = "ACCEPTED" <=> txn[t].op = "accept")
  BY AnswersAre DEF Answering
<1>3. t \notin stale => Pending(inv)
  BY DEF IInv, Decisions, StillTrue
<1>4. "answers" \notin raced' => "answers" \notin raced /\ Pending(inv)
  BY <1>3, CommitTypes DEF NoTxn, Answering
<1>5. /\ invitation' = [invitation EXCEPT ![inv].status = ans]
      /\ invitation \in [Invitations -> [status : Status, user : Users,
                                         role : Role \ {"OWNER"}, expired : BOOLEAN]]
  BY DEF WriteAnswer, IInv, TypeOK
<1> HIDE DEF inv, ans
<1>6. /\ invitation' \in [Invitations -> [status : Status, user : Users,
                                         role : Role \ {"OWNER"}, expired : BOOLEAN]]
      /\ \A i \in Invitations : invitation'[i].user = invitation[i].user
      /\ \A i \in Invitations \ {inv} : invitation'[i] = invitation[i]
      /\ invitation'[inv].status = ans
  BY <1>1, <1>2, <1>5 DEF Status
<1> QED BY <1>1, <1>2, <1>4, <1>6 DEF inv, ans

(* An acceptance admits whom its invitation names, who had no other.       *)
LEMMA CommitAcceptInv ==
  ASSUME IInv, NEW t \in Requests, CommitAccept(t)
  PROVE  IInv'
<1> DEFINE inv == txn[t].inv
           u == invitation[inv].user
           role == invitation[inv].role
<1>0. /\ txn[t].op = "accept" /\ txn[t].op \in Answering
      /\ ~Joined(u) /\ member' = [member EXCEPT ![u] = role]
      /\ rowId' = [rowId EXCEPT ![u] = @ + 1]
      /\ admitted' = [admitted EXCEPT ![inv] = @ + 1]
      /\ WriteAnswer(t) /\ Commit(t) /\ blind' = blind
      /\ member \in [Users -> Role \cup {"NONE"}] /\ rowId \in [Users -> Nat]
      /\ admitted \in [Invitations -> Nat]
  BY DEF CommitAccept, Insert, Answering, IInv, TypeOK
<1>1. /\ inv \in Invitations /\ Founded /\ invitation[inv].status # "ABSENT"
      /\ invitation' \in [Invitations -> [status : Status, user : Users,
                                         role : Role \ {"OWNER"}, expired : BOOLEAN]]
      /\ \A i \in Invitations : invitation'[i].user = invitation[i].user
      /\ \A i \in Invitations \ {inv} : invitation'[i] = invitation[i]
      /\ invitation'[inv].status = "ACCEPTED"
      /\ "answers" \notin raced' => "answers" \notin raced /\ Pending(inv)
  <2>1. Answers[txn[t].op] = "ACCEPTED"
    BY <1>0, AnswersAre
  <2> QED BY <1>0, <2>1, AnswerWritten
<1>2. u \in Users /\ role \in Role \ {"OWNER"}
  BY <1>1 DEF IInv, TypeOK
<1>3. /\ txn' \in [Requests -> Txn] /\ stale' \subseteq Requests
      /\ profiles' = profiles /\ deliveries' = deliveries
      /\ raced \subseteq raced' /\ raced' \subseteq {"members", "answers", "invite", "created"}
  BY <1>0, CommitTypes DEF NoTxn
<1> HIDE DEF inv, u, role
<1>4. Founded'
  <2>1. rowId[Founder] \in Nat /\ rowId[Founder] > 0
    BY <1>0, <1>1, FounderAssumption DEF Founded
  <2>2. rowId'[Founder] = rowId[Founder] \/ rowId'[Founder] = rowId[Founder] + 1
    BY <1>0, <1>2, FounderAssumption
  <2> QED BY <2>1, <2>2 DEF Founded
<1>5. Decisions'
  <2>1. \A i \in Invitations : invitation[i].status # "ABSENT" => invitation'[i].status # "ABSENT"
    BY <1>1
  <2>2. \A i \in Invitations : invitation[i].status = "ABSENT" => invitation'[i].status = "ABSENT"
    BY <1>1
  <2> QED BY <1>0, <1>1, <1>4, <2>1, <2>2, CommitKeepsDecisions
<1>6. TypeOK'
  <2>1. /\ member' \in [Users -> Role \cup {"NONE"}] /\ rowId' \in [Users -> Nat]
        /\ admitted' \in [Invitations -> Nat]
    BY <1>0, <1>1, <1>2
  <2> QED BY <1>0, <1>1, <1>3, <2>1 DEF IInv, TypeOK
<1>7. NothingUnfounded' /\ DeliveredIfFounded'
  BY <1>1, <1>3, <1>4 DEF IInv, NothingUnfounded, DeliveredIfFounded
<1>8. OwnerNamed'
  <2>1. Owners' = Owners
    BY <1>0, <1>2 DEF Owners, Joined
  <2> QED BY <1>1, <1>3, <2>1 DEF IInv, OwnerNamed
<1>9. AcceptedAdmitsOnce'
  <2> SUFFICES ASSUME "answers" \notin raced', NEW i \in Invitations
               PROVE  admitted'[i] = IF invitation'[i].status = "ACCEPTED" THEN 1 ELSE 0
    BY DEF AcceptedAdmitsOnce
  <2>1. \A j \in Invitations :
          admitted[j] = IF invitation[j].status = "ACCEPTED" THEN 1 ELSE 0
    BY <1>1 DEF IInv, AcceptedAdmitsOnce
  <2>2. invitation[inv].status = "PENDING"
    BY <1>1 DEF Pending
  <2> QED BY <1>0, <1>1, <2>1, <2>2
<1>10. PendingIsSound'
  <2> SUFFICES ASSUME "invite" \notin raced', NEW i \in Invitations, Pending(i)'
               PROVE  /\ \A j \in Invitations :
                           Pending(j)' /\ invitation'[i].user = invitation'[j].user => i = j
                      /\ deliveries <= 1 /\ "answers" \notin raced' 
                           /\ member'[invitation'[i].user] # "NONE"
                           => i \in blind
    BY <1>0, <1>3 DEF PendingIsSound, Joined
  <2>1. \A j \in Invitations : Pending(j)' => j # inv /\ Pending(j)
    BY <1>1 DEF Pending
  <2>2. \A j \in Invitations : Pending(j) /\ invitation[i].user = invitation[j].user => i = j
    BY <1>3, <2>1 DEF IInv, PendingIsSound
  <2>3. ASSUME deliveries <= 1, "answers" \notin raced', member'[invitation'[i].user] # "NONE"
        PROVE  i \in blind
    <3>1. invitation[i].user # u
      BY <1>1, <2>1, <2>2, <2>3 DEF u
    <3>2. invitation'[i].user = invitation[i].user /\ invitation[i].user \in Users
      BY <1>1 DEF IInv, TypeOK
    <3>3. Joined(invitation[i].user)
      BY <1>0, <1>2, <2>3, <3>1, <3>2 DEF Joined
    <3> QED BY <1>1, <1>3, <2>1, <2>3, <3>3 DEF IInv, PendingIsSound
  <2> QED BY <1>1, <2>1, <2>2, <2>3
<1> QED BY <1>5, <1>6, <1>7, <1>8, <1>9, <1>10 DEF IInv

(* A refusal admits nobody.                                                *)
LEMMA CommitRefusalInv ==
  ASSUME IInv, NEW t \in Requests, CommitRefusal(t)
  PROVE  IInv'
<1> DEFINE inv == txn[t].inv
<1>0. /\ txn[t].op \in {"reject", "cancel"} /\ txn[t].op \in Answering
      /\ WriteAnswer(t) /\ Commit(t) /\ UNCHANGED <<member, rowId, admitted, blind>>
  BY DEF CommitRefusal, Answering
<1>1. /\ inv \in Invitations /\ Founded /\ invitation[inv].status # "ABSENT"
      /\ invitation' \in [Invitations -> [status : Status, user : Users,
                                         role : Role \ {"OWNER"}, expired : BOOLEAN]]
      /\ \A i \in Invitations : invitation'[i].user = invitation[i].user
      /\ \A i \in Invitations \ {inv} : invitation'[i] = invitation[i]
      /\ invitation'[inv].status \notin {"ABSENT", "PENDING", "ACCEPTED"}
      /\ "answers" \notin raced' => "answers" \notin raced /\ Pending(inv)
  BY <1>0, AnswerWritten
<1>2. /\ txn' \in [Requests -> Txn] /\ stale' \subseteq Requests
      /\ profiles' = profiles /\ deliveries' = deliveries
      /\ raced \subseteq raced' /\ raced' \subseteq {"members", "answers", "invite", "created"}
  BY <1>0, CommitTypes DEF NoTxn
<1> HIDE DEF inv
<1>3. Decisions'
  <2>1. \A i \in Invitations : invitation[i].status # "ABSENT" => invitation'[i].status # "ABSENT"
    BY <1>1
  <2>2. \A i \in Invitations : invitation[i].status = "ABSENT" => invitation'[i].status = "ABSENT"
    BY <1>1
  <2> QED BY <1>0, <2>1, <2>2, CommitKeepsDecisions DEF Founded
<1>4. TypeOK'
  BY <1>0, <1>1, <1>2 DEF IInv, TypeOK
<1>5. NothingUnfounded' /\ DeliveredIfFounded' /\ OwnerNamed'
  BY <1>0, <1>1, <1>2 DEF IInv, NothingUnfounded, DeliveredIfFounded, OwnerNamed, Founded, Owners
<1>6. AcceptedAdmitsOnce'
  BY <1>0, <1>1 DEF IInv, AcceptedAdmitsOnce, Pending
<1>7. PendingIsSound'
  <2>1. \A j \in Invitations : Pending(j)' => Pending(j)
    BY <1>1 DEF Pending
  <2> QED BY <1>0, <1>1, <1>2, <2>1 DEF IInv, PendingIsSound, Joined
<1> QED BY <1>3, <1>4, <1>5, <1>6, <1>7 DEF IInv

(* The founder of one delivery joins first, and alone.                     *)
LEMMA CommitCreatedInv ==
  ASSUME IInv, NEW t \in Requests, CommitCreated(t)
  PROVE  IInv'
<1>0. /\ txn[t].op = "created" /\ txn[t] # NoTxn /\ deliveries > 0 /\ deliveries \in Nat
      /\ deliveries = 1 => ~Founded
      /\ ~Joined(Founder) /\ member' = [member EXCEPT ![Founder] = "OWNER"]
      /\ rowId' = [rowId EXCEPT ![Founder] = @ + 1]
      /\ Commit(t) /\ UNCHANGED <<invitation, admitted, blind>>
      /\ member \in [Users -> Role \cup {"NONE"}] /\ rowId \in [Users -> Nat]
  BY LimitsAssumption DEF CommitCreated, Insert, IInv, TypeOK, Decisions, Lasting, NoTxn
<1>1. /\ txn' \in [Requests -> Txn] /\ stale' \subseteq Requests
      /\ profiles' = profiles /\ deliveries' = deliveries
      /\ raced \subseteq raced' /\ raced' \subseteq {"members", "answers", "invite", "created"}
  BY <1>0, CommitTypes
<1>2. Founded'
  <2>1. rowId[Founder] \in Nat /\ rowId'[Founder] = rowId[Founder] + 1
    BY <1>0, FounderAssumption
  <2> QED BY <2>1 DEF Founded
<1>3. Decisions'
  BY <1>0, <1>2, CommitKeepsDecisions
<1>4. TypeOK'
  <2>1. member' \in [Users -> Role \cup {"NONE"}] /\ rowId' \in [Users -> Nat]
    BY <1>0, FounderAssumption DEF Role
  <2> QED BY <1>0, <1>1, <2>1 DEF IInv, TypeOK
<1>5. NothingUnfounded' /\ DeliveredIfFounded'
  BY <1>0, <1>1, <1>2 DEF NothingUnfounded, DeliveredIfFounded
<1>6. OwnerNamed'
  <2>1. Owners' = Owners \cup {Founder}
    BY <1>0, FounderAssumption DEF Owners
  <2>2. deliveries = 1 => Owners = {}
    BY <1>0 DEF IInv, NothingUnfounded, Owners, Joined
  <2> QED BY <1>1, <2>1, <2>2, FounderAssumption DEF OwnerNamed
<1>7. AcceptedAdmitsOnce'
  BY <1>0, <1>1 DEF IInv, AcceptedAdmitsOnce
<1>8. PendingIsSound'
  <2>1. deliveries <= 1 => \A i \in Invitations : ~Pending(i)
    BY <1>0 DEF IInv, NothingUnfounded, Pending
  <2>2. \A i \in Invitations : Pending(i)' <=> Pending(i)
    BY <1>0 DEF Pending
  <2> QED BY <1>0, <1>1, <2>1, <2>2 DEF IInv, PendingIsSound
<1> QED BY <1>3, <1>4, <1>5, <1>6, <1>7, <1>8 DEF IInv

(* An invitation that expires stays pending: nobody saves that it has.     *)
LEMMA InvitationExpiresInv ==
  ASSUME IInv, NEW i \in Invitations, InvitationExpires(i)
  PROVE  IInv'
<1>0. /\ invitation' = [invitation EXCEPT ![i].expired = TRUE]
      /\ UNCHANGED <<member, rowId, profiles, txn, stale, deliveries, raced, admitted, blind>>
      /\ invitation \in [Invitations -> [status : Status, user : Users, role : Role \ {"OWNER"},
                                        expired : BOOLEAN]]
  BY DEF InvitationExpires, IInv, TypeOK, history
<1>1. /\ invitation' \in [Invitations -> [status : Status, user : Users, role : Role \ {"OWNER"},
                                         expired : BOOLEAN]]
      /\ \A j \in Invitations :
           invitation'[j].status = invitation[j].status /\ invitation'[j].user = invitation[j].user
  BY <1>0
<1>2. TypeOK'
  BY <1>0, <1>1 DEF IInv, TypeOK
<1>3. NothingUnfounded' /\ DeliveredIfFounded' /\ OwnerNamed'
  BY <1>0, <1>1
  DEF IInv, NothingUnfounded, DeliveredIfFounded, OwnerNamed, Founded, Owners, Joined
<1>4. AcceptedAdmitsOnce' /\ PendingIsSound'
  BY <1>0, <1>1 DEF IInv, AcceptedAdmitsOnce, PendingIsSound, Pending, Joined
<1>5. Decisions'
  <2>1. ASSUME NEW s \in Requests
        PROVE  Lasting(txn[s])' /\ (s \notin stale' => StillTrue(txn[s])')
    <3>1. Lasting(txn[s]) /\ (s \notin stale => StillTrue(txn[s])) /\ txn[s] \in Txn
      BY DEF IInv, TypeOK, Decisions
    <3>2. txn[s].op \in Answering \cup {"invite"} => txn[s].inv \in Invitations
      BY <3>1, DecisionTypes
    <3>3. Lasting(txn[s])'
      BY <1>0, <1>1, <3>1, <3>2 DEF Lasting, Founded
    <3>4. ASSUME StillTrue(txn[s]) PROVE StillTrue(txn[s])'
      BY <1>0, <1>1, <3>2, <3>4 DEF StillTrue, Owners, RowAt, Joined, PendingFor, Pending
    <3> QED BY <1>0, <3>1, <3>3, <3>4
  <2> QED BY <1>0, <2>1 DEF IInv, Decisions, Apart
<1> QED BY <1>2, <1>3, <1>4, <1>5 DEF IInv

(* Nothing of the invariant is about profiles, or about who has given up.  *)
LEMMA RestInv ==
  ASSUME IInv, UNCHANGED <<tables, deliveries, history>>, profiles' \subseteq Users,
         stale' \subseteq Requests,
         \/ UNCHANGED <<txn, stale>>
         \/ \E t \in Requests : txn' = [txn EXCEPT ![t] = NoTxn] /\ stale' = stale \ {t}
  PROVE  IInv'
<1> USE DEF tables, history, IInv
<1>1. TypeOK'
  BY DEF TypeOK, Txn
<1>2. NothingUnfounded' /\ DeliveredIfFounded' /\ OwnerNamed'
  BY DEF NothingUnfounded, DeliveredIfFounded, OwnerNamed, Founded, Owners, Joined
<1>3. AcceptedAdmitsOnce' /\ PendingIsSound'
  BY DEF AcceptedAdmitsOnce, PendingIsSound, Pending, Joined
<1>4. Decisions'
  <2>1. \A x : Lasting(x)' = Lasting(x) /\ StillTrue(x)' = StillTrue(x)
    BY DEF Lasting, StillTrue, Founded, Owners, RowAt, Joined, PendingFor, Pending
  <2>2. Lasting(NoTxn) /\ StillTrue(NoTxn)
    BY DEF NoTxn, Lasting, StillTrue, Answering
  <2>3. ASSUME NEW s \in Requests
        PROVE  Lasting(txn[s])' /\ (s \notin stale' => StillTrue(txn[s])')
    BY <2>1, <2>2 DEF Decisions, TypeOK
  <2>4. \A s \in Requests : txn'[s] = txn[s] \/ txn'[s].op = "none"
    BY DEF TypeOK, NoTxn
  <2>5. \A r, s \in Requests : r # s => Apart(txn[r], txn[s])'
    BY <2>4 DEF Decisions, Apart
  <2> QED BY <2>3, <2>5 DEF Decisions
<1> QED BY <1>1, <1>2, <1>3, <1>4
-----------------------------------------------------------------------------
(* Every step keeps the invariant.                                         *)
LEMMA StepInv ==
  ASSUME IInv, [Next]_vars
  PROVE  IInv'
<1>1. ASSUME NEW t \in Requests, Handle(t) PROVE IInv'
  <2>1. ASSUME NEW actor \in Users, NEW i \in Invitations,
               \/ AcceptInvitation(t, i) \/ RejectInvitation(t, i)
               \/ CancelInvitation(t, actor, i)
        PROVE  IInv'
    BY <2>1, AnswerInv
    DEF AcceptInvitation, RejectInvitation, CancelInvitation, Pending, Answering
  <2> QED
    BY <1>1, <2>1, LeaveWorkspaceInv, RemoveMemberInv, TransferOwnershipInv, ChangeRoleInv,
       InviteMemberInv, HandleWorkspaceCreatedInv, FounderAssumption
    DEF Handle
<1>2. ASSUME NEW t \in Requests, Abort(t) PROVE IInv'
  <2>1. profiles' \subseteq Users /\ stale' \subseteq Requests
    BY <1>2 DEF Abort, IInv, TypeOK
  <2> QED BY <1>2, <2>1, RestInv DEF Abort
<1>3. ASSUME NEW t \in Requests, Finish(t) PROVE IInv'
  BY <1>2, <1>3, CommitDeleteInv, CommitRoleInv, CommitTransferInv, CommitInviteInv,
     CommitAcceptInv, CommitRefusalInv, CommitCreatedInv
  DEF Finish
<1>4. ASSUME NEW u \in Users, ProjectProfile(u) PROVE IInv'
  <2>1. profiles' \subseteq Users /\ stale' \subseteq Requests
    BY <1>4 DEF ProjectProfile, IInv, TypeOK
  <2> QED BY <1>4, <2>1, RestInv DEF ProjectProfile
<1>5. CASE UNCHANGED vars
  <2>1. profiles' \subseteq Users /\ stale' \subseteq Requests
    BY <1>5 DEF vars, IInv, TypeOK
  <2> QED BY <1>5, <2>1, RestInv DEF vars
<1> QED BY <1>1, <1>3, <1>4, <1>5, InvitationExpiresInv DEF Next

(* The invariant holds throughout.                                         *)
LEMMA Invariance == Spec => []IInv
  BY InitInv, StepInv, PTL DEF Spec

(* The rows and decisions of a workspace's membership are typed.           *)
THEOREM MembershipTypeOK == Spec => []TypeOK
<1>1. IInv => TypeOK
  BY DEF IInv
<1> QED BY Invariance, <1>1, PTL

(* Unless handlers on members raced, a founded workspace has an owner, and *)
(* no second one when workspace.created was delivered once.                *)
THEOREM OwnershipIsKept == Spec => []OneOwner
<1>1. IInv => OneOwner
  <2> SUFFICES ASSUME IInv, Founded, "members" \notin raced
               PROVE  Owners # {} /\ (deliveries = 1 => Cardinality(Owners) = 1)
    BY DEF OneOwner
  <2>1. Owners # {} /\ (deliveries = 1 => \E o \in Users : Owners = {o})
    BY DEF IInv, OwnerNamed
  <2> QED BY <2>1, FS_Singleton
<1> QED BY Invariance, <1>1, PTL

(* Unless answers raced, exactly the accepted invitations have admitted a  *)
(* member, and one each.                                                   *)
THEOREM InvitationsAdmitOnce == Spec => []AcceptedAdmitsOnce
<1>1. IInv => AcceptedAdmitsOnce
  BY DEF IInv
<1> QED BY Invariance, <1>1, PTL

(* Unless invites raced, an address has one pending invitation, and a      *)
(* member none but for the causes named.                                   *)
THEOREM InvitationsArePlausible == Spec => []PendingIsSound
<1>1. IInv => PendingIsSound
  BY DEF IInv
<1> QED BY Invariance, <1>1, PTL

(* Unless answers raced, an invitation keeps the answer it has got.        *)
THEOREM AnswersExclude == Spec => AnswersAreFinal
<1> DEFINE Final == \A i \in Invitations :
             invitation[i].status \notin {"ABSENT", "PENDING"} /\ "answers" \notin raced'
               => invitation'[i].status = invitation[i].status
<1>1. ASSUME IInv, Next PROVE Final \/ UNCHANGED vars
  <2>0. invitation \in [Invitations -> [status : Status, user : Users, role : Role \ {"OWNER"},
                                       expired : BOOLEAN]]
    BY <1>1 DEF IInv, TypeOK
  <2>1. ASSUME NEW t \in Requests, CommitAccept(t) \/ CommitRefusal(t) PROVE Final
    <3>1. txn[t].op \in Answering /\ Commit(t) /\ WriteAnswer(t)
      BY <2>1 DEF CommitAccept, CommitRefusal, Answering
    <3> QED BY <1>1, <3>1, AnswerWritten DEF Pending
  <2>2. ASSUME NEW t \in Requests, CommitInvite(t) PROVE Final
    <3>1. invitation[txn[t].inv].status = "ABSENT"
      BY <1>1, <2>2 DEF IInv, Decisions, Lasting, CommitInvite
    <3> QED BY <2>0, <2>2, <3>1 DEF CommitInvite
  <2>3. ASSUME NEW i \in Invitations, InvitationExpires(i) PROVE Final
    BY <2>0, <2>3 DEF InvitationExpires
  <2>4. ASSUME NEW t \in Requests, NEW d, Decide(t, d) PROVE UNCHANGED invitation
    BY <2>4 DEF Decide, tables
  <2>5. ASSUME NEW t \in Requests, Handle(t) PROVE UNCHANGED invitation
    BY <2>4, <2>5
    DEF Handle, LeaveWorkspace, RemoveMember, TransferOwnership, ChangeRole, InviteMember,
        NewInvitation, AcceptInvitation, RejectInvitation, CancelInvitation, Answer,
        HandleWorkspaceCreated
  <2>6. ASSUME NEW t \in Requests,
               CommitDelete(t) \/ CommitRole(t) \/ CommitTransfer(t) \/ CommitCreated(t) \/ Abort(t)
        PROVE  UNCHANGED invitation
    BY <2>6 DEF CommitDelete, CommitRole, CommitTransfer, CommitCreated, Abort, tables
  <2>7. ASSUME NEW u \in Users, ProjectProfile(u) PROVE UNCHANGED invitation
    BY <2>7 DEF ProjectProfile, tables
  <2>8. CASE UNCHANGED invitation
    BY <2>8
  <2> HIDE DEF Final
  <2> QED BY <1>1, <2>1, <2>2, <2>3, <2>5, <2>6, <2>7, <2>8 DEF Next, Finish
<1>2. IInv /\ [Next]_vars => [Final]_vars
  BY <1>1
<1> QED BY Invariance, <1>2, PTL DEF Spec, AnswersAreFinal
=============================================================================
