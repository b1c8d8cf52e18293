------------------------------ MODULE Profiles ------------------------------
(***************************************************************************)
(* The copies of user profiles that the workspace, membership and project  *)
(* modules keep, fed by the profile events of Identity.                    *)
(*                                                                         *)
(* An event reaches a listener on several paths: the relay emits it in its *)
(* own process and the consumer again from the queue.  Outbox and Consumer *)
(* say when; here a path delivers any stored event, in any order, as often *)
(* as it likes, and while another path is delivering another one.          *)
(*                                                                         *)
(* The emitter logs what a listener throws and goes on: the event counts   *)
(* as delivered.  And a listener runs outside of any request, so it reads  *)
(* through the entity manager its process keeps for as long as it lives: a *)
(* profile found once is found again as it was then.                       *)
(*                                                                         *)
(* The three modules share nothing, so one of them is watched.             *)
(***************************************************************************)
EXTENDS Identity

CONSTANTS
  Paths,    \* the ways an event reaches the listeners
  Watched   \* the modules whose copies may be watched

Modules == {"workspace", "membership", "project"}

ASSUME ProfilesAssumption == Watched \subseteq Modules

VARIABLES
  watched,    \* the module whose profiles are watched
  profile,    \* its table of user profiles
  copy,       \* the profiles each path's process has found, as it holds them
  work,       \* the listener each path is running
  heard,      \* history: the events a listener has taken in, or had refused
  applied     \* history: the event whose columns a profile has, or 0

profileVars == <<watched, profile, copy, work, heard, applied>>
vars == <<idVars, profileVars>>

(* Membership and project keep the name only, workspace the status too;    *)
(* the address never changes.                                              *)
NoProfile == [name |-> NoName, status |-> "NONE"]

(* Mutant: a status of its own, which no rule of the module knows. *)
MutantColumns(x) == [name |-> x.name, status |-> "VERIFIED"]

WorkspaceColumns(x)  == [name |-> x.name, status |-> x.status]
MembershipColumns(x) == [name |-> x.name, status |-> "NONE"]
ProjectColumns(x)    == [name |-> x.name, status |-> "NONE"]

Columns(x) ==
  CASE watched = "workspace" -> WorkspaceColumns(x)
    [] watched = "membership" -> MembershipColumns(x)
    [] watched = "project" -> ProjectColumns(x)

NoWork   == [event |-> 0, seen |-> NoProfile]
NoCopies == [u \in Users |-> NoProfile]

ProfilesInit ==
  /\ Init
  /\ watched \in Watched
  /\ profile = NoCopies
  /\ copy = [p \in Paths |-> NoCopies]
  /\ work = [p \in Paths |-> NoWork]
  /\ heard = {}
  /\ applied = [u \in Users |-> 0]
-----------------------------------------------------------------------------
(* What was delivered may come again.                                      *)
Pending(p, e) == work[p] = NoWork /\ e \in DOMAIN events

Subject(p) == events[work[p].event].user

(* The process's copy, or the row.                                         *)
Found(p, u) == IF copy[p][u] # NoProfile THEN copy[p][u] ELSE profile[u]

(* The listener of user.registered and user.profile_updated looks the      *)
(* profile up, and save looks again: a profile found is held, and one that *)
(* was not found is created or updated by what the second look-up says.    *)
FindByUserId(p, e) ==
  LET u == events[e].user IN
  /\ Pending(p, e)
  /\ work' = [work EXCEPT ![p] = [event |-> e, seen |-> Found(p, u)]]
  /\ copy' = [copy EXCEPT ![p][u] = Found(p, u)]
  /\ UNCHANGED <<idVars, watched, profile, heard, applied>>

(* The listener returns to the emitter.                                    *)
Return(p) ==
  /\ work' = [work EXCEPT ![p] = NoWork]
  /\ heard' = heard \cup {work[p].event}

(* Mutant: an existing profile is left as it is. *)
MutantKeepProfile(stored, seen, row) == stored

(* updateProfile and save: the columns that differ from the copy.          *)
UpdateColumns(stored, seen, row) == Merge(stored, seen, row)

(* Nothing compares the event with what the profile was last set from.     *)
Upsert(p) ==
  LET w == work[p]
      u == Subject(p)
      row == Columns(events[w.event])
  IN
  /\ w # NoWork
  /\ w.seen = NoProfile => profile[u] = NoProfile
  /\ profile' = [profile EXCEPT ![u] = IF w.seen = NoProfile THEN row ELSE UpdateColumns(@, w.seen, row)]
  /\ copy' = [copy EXCEPT ![p][u] = row]
  /\ applied' = [applied EXCEPT ![u] = IF w.seen = profile[u] THEN w.event
                                      ELSE IF row = w.seen THEN @ ELSE 0]
  /\ Return(p)
  /\ UNCHANGED <<idVars, watched>>

(* The unique user id refuses a second insert.  The emitter forgets the    *)
(* error, and there is nothing left to do.                                 *)
InsertRefused(p) ==
  /\ work[p] # NoWork
  /\ work[p].seen = NoProfile /\ profile[Subject(p)] # NoProfile
  /\ Return(p)
  /\ UNCHANGED <<idVars, watched, profile, copy, applied>>

(* Any other error of a look-up or a save, which writes nothing.  The      *)
(* emitter forgets it too: the event counts as delivered.                  *)
ListenerFails(p) ==
  /\ work[p] # NoWork
  /\ work' = [work EXCEPT ![p] = NoWork]
  /\ UNCHANGED <<idVars, watched, profile, copy, heard, applied>>

Listen(p) ==
  \/ \E e \in DOMAIN events : FindByUserId(p, e)
  \/ Upsert(p)
  \/ InsertRefused(p)
  \/ ListenerFails(p)

(* A process stops at any time and starts again with nothing in hand.      *)
Restart(p) ==
  /\ work' = [work EXCEPT ![p] = NoWork]
  /\ copy' = [copy EXCEPT ![p] = NoCopies]
  /\ UNCHANGED <<idVars, watched, profile, heard, applied>>

ProfilesNext ==
  \/ Next /\ UNCHANGED profileVars
  \/ \E p \in Paths : Listen(p) \/ Restart(p)

ProfilesSpec == ProfilesInit /\ [][ProfilesNext]_vars
-----------------------------------------------------------------------------
(* Every variable holds values of its table or of a delivery.              *)
ProfilesTypeOK ==
  LET Row == [name : Names \cup {NoName}, status : {"NONE", "UNVERIFIED", "ACTIVE"}] IN
  /\ TypeOK
  /\ watched \in Modules
  /\ profile \in [Users -> Row]
  /\ copy \in [Paths -> [Users -> Row]]
  /\ work \in [Paths -> [event : 0..Len(events), seen : Row]]
  /\ heard \subseteq DOMAIN events
  /\ applied \in [Users -> 0..Len(events)]

NewestEvent(u, e) ==
  /\ e \in DOMAIN events /\ events[e].user = u
  /\ \A f \in DOMAIN events : events[f].user = u => f <= e

(* An event a listener has taken in leaves its user with a profile, and so *)
(* does one whose insert was refused, though that error is forgotten: only *)
(* another listener's profile refuses it.  An event whose listener failed  *)
(* otherwise counts as delivered too, and leaves nothing.                  *)
(*                                                                         *)
(* And a profile last set from its user's newest event, by a process whose *)
(* copy of it was the row, says what the user's row says: each event       *)
(* carries the whole profile, and its handler's commit is the row's last   *)
(* change.  Unless that handler had read the row before another one        *)
(* changed it: it then publishes the other column's old value, or a name   *)
(* its flush did not write because it is the one it had read.  A process   *)
(* with an older copy writes only what differs from that copy.             *)
ProfilesFollow ==
  /\ \A e \in heard : profile[events[e].user] # NoProfile
  /\ \A u \in Users :
       NewestEvent(u, applied[u]) /\ ~events[applied[u]].overlap => profile[u] = Columns(users[u])
=============================================================================
