------------------------------ MODULE Identity ------------------------------
(***************************************************************************)
(* Accounts and sessions: the handlers of the identity module, the guard   *)
(* in front of them, the token issuer and the mails with tokens.           *)
(*                                                                         *)
(* A handler is one READ COMMITTED transaction.  It reads and checks       *)
(* (phase "read"); a handler that updates the user's row then flushes it,  *)
(* holds its row lock, and does what is left to do before the commit:      *)
(* sends a mail, or starts the statement that revokes every session, which *)
(* sees the sessions committed by then (phase "flushed"); the commit makes *)
(* the writes visible.  A handler that only writes sessions has nothing to *)
(* tell apart between its statement and its commit.  Either step may fail  *)
(* instead, and nothing is written.                                        *)
(*                                                                         *)
(* Time zones, user agents and addresses are in nobody's rules.  No code   *)
(* suspends or deletes an account, so User.isActive holds of every row.    *)
(***************************************************************************)
EXTENDS Integers, Sequences, FiniteSets, Functions

CONSTANTS
  Users,          \* e-mail addresses, one account each
  Passwords,
  Names,
  NoName,         \* stands for an absent field
  Requests,       \* requests handled at the same time
  Offers,         \* sets of operations that clients are watched asking for together
  MaxSessions,    \* bound: rows there ever are in sessions
  MaxMails,       \* bound: mails handed to the transport
  MaxEvents,      \* bound: profile events stored in the outbox
  MaxRevokeAlls,  \* bound: handlers that revoke all of a user's sessions
  MaxTotal        \* bound: sessions, mails and revocations together

ASSUME IdentityAssumption ==
  /\ NoName \notin Names \cup Passwords
  /\ IsFiniteSet(Requests)
  /\ {MaxSessions, MaxMails, MaxEvents, MaxRevokeAlls, MaxTotal} \subseteq Nat

VARIABLES
  offered,    \* the operations watched
  users,      \* the table users
  sessions,   \* the table sessions, in the order of their commits
  mails,      \* mails with tokens, in the order they were sent
  events,     \* profile events committed to the outbox
  txn,        \* what each request is doing
  revokeAlls  \* history: how often all sessions of a user were revoked

tables == <<users, sessions, mails, events>>
idVars == <<offered, users, sessions, mails, events, txn, revokeAlls>>

Operation ==
  {"signup", "login", "refresh", "logout", "logoutAll", "revokeSession", "changePassword",
   "forgotPassword", "resetPassword", "updateProfile", "sendVerification", "verifyEmail"}

ASSUME OffersAssumption == Offers \subseteq SUBSET Operation

(* Operations without @Public: the guard asks for a live session.          *)
Guarded ==
  {"logout", "logoutAll", "revokeSession", "changePassword", "updateProfile", "sendVerification"}

Issuers  == {"signup", "login", "refresh"}
Revokers == {"logoutAll", "changePassword", "resetPassword"}

(* A row of users; status "NONE" is an account nobody has registered.      *)
(* Tokens are the mails they were sent in, 0 is null.                      *)
UserRow ==
  [status : {"NONE", "UNVERIFIED", "ACTIVE"}, password : Passwords \cup {NoName},
   name : Names \cup {NoName}, reset : Nat, verification : Nat]
NoUser ==
  [status |-> "NONE", password |-> NoName, name |-> NoName, reset |-> 0, verification |-> 0]

(* parent is the session whose refresh token was exchanged for this one.   *)
(* History: excused counts the revocations of all the user's sessions that *)
(* were committed when this session was, or under way; ended says that a   *)
(* logout of it, or a revocation, was answered with success and that no    *)
(* exchange of its token went on meanwhile.                                *)
SessionRow ==
  [user : Users, status : {"ACTIVE", "EXPIRED", "REVOKED"}, parent : Nat,
   excused : Nat, ended : BOOLEAN]

(* History: sent is "LIVE" once the token's transaction has committed; uses *)
(* counts the uses that did not overlap another one; crossed says that a   *)
(* use of an older token was under way when this one was stored; overlap,  *)
(* of an event, that the handler had read a row changed since.             *)
Mail ==
  [user : Users, kind : {"reset", "verification"}, sent : {"PENDING", "LIVE", "LOST"},
   expired : BOOLEAN, uses : Nat, crossed : BOOLEAN]

Event == [user : Users, type : {"REGISTERED", "UPDATED"}, name : Names,
          status : {"UNVERIFIED", "ACTIVE"}, overlap : BOOLEAN]

(* own is the session the guard saw, target the session or token acted on; *)
(* view is the row the handler read and row the one it wants; doomed is    *)
(* what its revoke-all statement sees.                                     *)
Idle ==
  [op |-> "none", phase |-> "idle", user |-> NoName, own |-> 0, target |-> 0, view |-> NoUser,
   row |-> NoUser, doomed |-> {}, overtaken |-> FALSE, usesRead |-> 0, overlap |-> FALSE]

Init ==
  /\ offered \in Offers
  /\ users = [u \in Users |-> NoUser]
  /\ sessions = <<>>
  /\ mails = <<>>
  /\ events = <<>>
  /\ txn = [r \in Requests |-> Idle]
  /\ revokeAlls = [u \in Users |-> 0]
-----------------------------------------------------------------------------
(* Rows, tokens and what the repositories write.                           *)

Registered(u) == users[u].status # "NONE"

(* Session.isActive; revokedAt and expiresAt are one status here.          *)
IsActive(s) == s \in DOMAIN sessions /\ sessions[s].status = "ACTIVE"

ActiveSessions(u) == {s \in DOMAIN sessions : sessions[s].user = u /\ IsActive(s)}

(* User.create.                                                            *)
NewUser(p, n) ==
  [status |-> "UNVERIFIED", password |-> p, name |-> n, reset |-> 0, verification |-> 0]

(* A flush writes the columns that differ from the row that was read.      *)
Merge(stored, view, row) ==
  [c \in DOMAIN stored |-> IF row[c] # view[c] THEN row[c] ELSE stored[c]]

(* Mutant: the flush writes every column of the row that was read. *)
MutantWholeRow(stored, view, row) == row

SaveUser(stored, view, row) == Merge(stored, view, row)

Flushing(u, ops) == {r \in Requests : txn[r].phase = "flushed" /\ txn[r].user = u /\ txn[r].op \in ops}

(* The row lock of the user's row.                                         *)
RowFree(u) == Flushing(u, Operation \ {"logoutAll"}) = {}

(* The session of issueTokenPairForSession, as its insert commits.         *)
NewSession(u, parent) ==
  [user |-> u, status |-> "ACTIVE", parent |-> parent,
   excused |-> revokeAlls[u] + Cardinality(Flushing(u, Revokers)), ended |-> FALSE]

Revoke(table, S) ==
  [s \in DOMAIN table |->
     IF s \in S /\ table[s].status = "ACTIVE" THEN [table[s] EXCEPT !.status = "REVOKED"]
     ELSE table[s]]

(* findByPasswordResetToken and findByEmailVerificationToken with the      *)
(* check of the expiry date.                                               *)
HoldsReset(u, m)        == m # 0 /\ users[u].reset = m /\ ~mails[m].expired
HoldsVerification(u, m) == m # 0 /\ users[u].verification = m /\ ~mails[m].expired

ProfileEvent(t, type, row) ==
  [user |-> t.user, type |-> type, name |-> row.name, status |-> row.status,
   overlap |-> t.overlap]

InFlight(ops) == Cardinality({r \in Requests : txn[r].op \in ops})

Mailers   == {"forgotPassword", "sendVerification"}
Announcers == {"signup", "updateProfile", "verifyEmail"}

(* Bounds on what is started, whatever becomes of it.                      *)
Room(op) ==
  LET revoked == FoldFunction(+, 0, revokeAlls) + InFlight(Revokers)
      issued  == Len(sessions) + InFlight(Issuers)
      mailed  == Len(mails) + InFlight(Mailers)
  IN
  /\ op \in offered
  /\ op \in Issuers => issued < MaxSessions
  /\ op \in Revokers => revoked < MaxRevokeAlls
  /\ op \in Mailers => mailed < MaxMails
  /\ op \in Announcers => Len(events) + InFlight(Announcers) < MaxEvents
  /\ op \in Issuers \cup Revokers \cup Mailers => issued + revoked + mailed < MaxTotal

(* The record t with the fields of more. *)
With(t, more) == [f \in DOMAIN t |-> IF f \in DOMAIN more THEN more[f] ELSE t[f]]

Keep(r, t) == txn' = [txn EXCEPT ![r] = t] /\ UNCHANGED <<offered, tables, revokeAlls>>
-----------------------------------------------------------------------------
(* The guard: JwtStrategy.validate runs once, before the handler and       *)
(* outside its transaction.                                                *)
Validate(r, op, s) ==
  /\ txn[r] = Idle /\ op \in Guarded /\ Room(op)
  /\ IsActive(s)
  /\ Keep(r, [Idle EXCEPT !.op = op, !.phase = "guarded", !.user = sessions[s].user, !.own = s])

(* Reads and checks.  A request whose checks fail ends without a write.    *)
Start(r, op, u, more) ==
  /\ txn[r] = Idle /\ Room(op)
  /\ Keep(r, With([Idle EXCEPT !.op = op, !.phase = "read", !.user = u, !.view = users[u]], more))

Entered(r, op) == txn[r].op = op /\ txn[r].phase = "guarded"

Read(r, more) ==
  Keep(r, With([txn[r] EXCEPT !.phase = "read", !.view = users[txn[r].user]], more))

Signup(r, u) == \E p \in Passwords, n \in Names :
  /\ ~Registered(u)
  /\ Start(r, "signup", u, [row |-> NewUser(p, n)])

Login(r, u) == \E p \in Passwords :
  /\ Registered(u)
  /\ p = users[u].password
  /\ Start(r, "login", u, <<>>)

(* rotateRefreshToken up to its guarded update.                            *)
RefreshToken(r, s) ==
  /\ IsActive(s)
  /\ Start(r, "refresh", sessions[s].user, [target |-> s])

Logout(r) ==
  /\ Entered(r, "logout")
  /\ IsActive(txn[r].own)
  /\ Read(r, [target |-> txn[r].own])

(* The handler finds its session ended already, and answers with success.  *)
LogoutAgain(r) ==
  /\ Entered(r, "logout")
  /\ ~IsActive(txn[r].own)
  /\ txn' = [txn EXCEPT ![r] = Idle]
  /\ sessions' = [sessions EXCEPT ![txn[r].own].ended = @ \/ ~txn[r].overtaken]
  /\ UNCHANGED <<offered, users, mails, events, revokeAlls>>

RevokeSession(r, s) ==
  /\ Entered(r, "revokeSession")
  /\ IsActive(s) /\ sessions[s].user = txn[r].user
  /\ Read(r, [target |-> s])

LogoutAllDevices(r) == Entered(r, "logoutAll") /\ Read(r, <<>>)

ChangePassword(r) == \E p, q \in Passwords :
  /\ Entered(r, "changePassword")
  /\ p = users[txn[r].user].password
  /\ Read(r, [row |-> [users[txn[r].user] EXCEPT !.password = q]])

ForgotPassword(r, u) ==
  /\ Registered(u)
  /\ Start(r, "forgotPassword", u, [row |-> users[u]])

ResetPassword(r, u, m) == \E q \in Passwords :
  /\ HoldsReset(u, m)
  /\ Start(r, "resetPassword", u,
       [target |-> m, usesRead |-> mails[m].uses,
        row |-> [users[u] EXCEPT !.password = q, !.reset = 0]])

(* An update of only the time zone stores no event.                        *)
UpdateProfile(r) == \E n \in Names \cup {NoName} :
  /\ Entered(r, "updateProfile")
  /\ Read(r, [target |-> IF n = NoName THEN 0 ELSE 1,
        row |-> IF n = NoName THEN users[txn[r].user] ELSE [users[txn[r].user] EXCEPT !.name = n]])

SendVerificationEmail(r) ==
  /\ Entered(r, "sendVerification")
  /\ Read(r, [row |-> users[txn[r].user]])

VerifyEmail(r, u, m) ==
  /\ HoldsVerification(u, m)
  /\ Start(r, "verifyEmail", u,
       [target |-> m, usesRead |-> mails[m].uses,
        row |-> [users[u] EXCEPT !.status = "ACTIVE", !.verification = 0]])

(* The checks fail on what the handler reads after the guard, or a query   *)
(* or the mail transport fails: the transaction is rolled back.            *)
Fail(r) ==
  /\ txn[r] # Idle
  /\ txn' = [txn EXCEPT ![r] = Idle]
  /\ mails' = [m \in DOMAIN mails |->
                 IF mails[m].sent = "PENDING" /\ txn[r].phase = "flushed" /\ txn[r].target = m
                      /\ txn[r].op \in {"forgotPassword", "sendVerification"}
                 THEN [mails[m] EXCEPT !.sent = "LOST"] ELSE mails[m]]
  /\ UNCHANGED <<offered, users, sessions, events, revokeAlls>>
-----------------------------------------------------------------------------
(* Flush: the update of the user's row and what follows it.                *)

FlushUser(r, ops) ==
  /\ txn[r].phase = "read" /\ txn[r].op \in ops
  /\ RowFree(txn[r].user)

(* Mutant: a changed password ends no session. *)
MutantKeepSessions(r) ==
  /\ FlushUser(r, {"changePassword", "resetPassword"})
  /\ Keep(r, [txn[r] EXCEPT !.phase = "flushed"])

(* revokeAllByUserId after the save, in the same transaction.              *)
FlushPassword(r) ==
  /\ FlushUser(r, {"changePassword", "resetPassword"})
  /\ Keep(r, [txn[r] EXCEPT !.phase = "flushed", !.doomed = ActiveSessions(txn[r].user)])

RevokeAllByUserId(r) ==
  /\ txn[r].phase = "read" /\ txn[r].op = "logoutAll"
  /\ Keep(r, [txn[r] EXCEPT !.phase = "flushed", !.doomed = ActiveSessions(txn[r].user)])

FlushProfile(r) ==
  /\ FlushUser(r, {"updateProfile", "verifyEmail"})
  /\ Keep(r, [txn[r] EXCEPT !.phase = "flushed"])

(* The mail leaves before the commit that makes its token valid.           *)
SendMail(r, kind, field) ==
  LET m == Len(mails) + 1 IN
  /\ RowFree(txn[r].user)
  /\ mails' = Append(mails, [user |-> txn[r].user, kind |-> kind, sent |-> "PENDING",
                             expired |-> FALSE, uses |-> 0, crossed |-> FALSE])
  /\ txn' = [txn EXCEPT ![r].phase = "flushed", ![r].target = m, ![r].row[field] = m]
  /\ UNCHANGED <<offered, users, sessions, events, revokeAlls>>

SendPasswordResetEmail(r) ==
  /\ txn[r].phase = "read" /\ txn[r].op = "forgotPassword"
  /\ SendMail(r, "reset", "reset")

SendEmailVerificationEmail(r) ==
  /\ txn[r].phase = "read" /\ txn[r].op = "sendVerification"
  /\ SendMail(r, "verification", "verification")
-----------------------------------------------------------------------------
(* Commits.                                                                *)

Ready(r, ops, phase) == txn[r].op \in ops /\ txn[r].phase = phase

(* The request ends.  History: what its commit overtakes in the others.    *)
End(r, overtakes(_)) ==
  txn' = [q \in Requests |-> IF q = r THEN Idle ELSE overtakes(txn[q])]

(* A handler has read the row before its name or status was changed.       *)
SeesOldProfile(u, t) ==
  IF /\ t.user = u /\ t.phase \in {"read", "flushed"}
     /\ t.op \in {"updateProfile", "verifyEmail"}
  THEN [t EXCEPT !.overlap = TRUE] ELSE t

(* A logout, or a revocation, of a session whose token was just exchanged. *)
MissesSuccessor(s, t) ==
  IF \/ t.op \in {"logout", "revokeSession"} /\ t.target = s
     \/ t.op = "logout" /\ t.own = s
  THEN [t EXCEPT !.overtaken = TRUE] ELSE t

(* A use of token m counts unless another use of it has committed since it *)
(* was read; a newer token it meets has crossed it.                        *)
Used(m, usesRead, stored) ==
  [i \in DOMAIN mails |->
     IF i = m /\ mails[i].uses = usesRead THEN [mails[i] EXCEPT !.uses = @ + 1]
     ELSE IF i = stored /\ i # m THEN [mails[i] EXCEPT !.crossed = TRUE] ELSE mails[i]]

(* users_email_unique refuses the second of two signups.                   *)
CommitSignup(r) ==
  LET t == txn[r] IN
  /\ Ready(r, {"signup"}, "read")
  /\ ~Registered(t.user)
  /\ users' = [users EXCEPT ![t.user] = t.row]
  /\ events' = Append(events, ProfileEvent(t, "REGISTERED", t.row))
  /\ sessions' = Append(sessions, NewSession(t.user, 0))
  /\ End(r, LAMBDA x : x)
  /\ UNCHANGED <<offered, mails, revokeAlls>>

CommitLogin(r) ==
  /\ Ready(r, {"login"}, "read")
  /\ sessions' = Append(sessions, NewSession(txn[r].user, 0))
  /\ End(r, LAMBDA x : x)
  /\ UNCHANGED <<offered, users, mails, events, revokeAlls>>

(* Mutant: the exchange trusts what it read and updates without a guard. *)
MutantRevokeById(s) == TRUE

(* The guarded update of the exchange affects a row.                       *)
RevokeActiveById(s) == IsActive(s)

CommitRefresh(r) ==
  LET s == txn[r].target IN
  /\ Ready(r, {"refresh"}, "read")
  /\ RevokeActiveById(s)
  /\ sessions' = Append(Revoke(sessions, {s}), NewSession(txn[r].user, s))
  /\ End(r, LAMBDA x : MissesSuccessor(s, x))
  /\ UNCHANGED <<offered, users, mails, events, revokeAlls>>

(* Mutant: logging out leaves the row as it is. *)
MutantForgetSession(table, s, clean) == [table EXCEPT ![s].ended = @ \/ clean]

EndSession(table, s, clean) ==
  [Revoke(table, {s}) EXCEPT ![s].ended = @ \/ clean]

(* Logout and RevokeSession.                                               *)
CommitEndSession(r) ==
  /\ Ready(r, {"logout", "revokeSession"}, "read")
  /\ sessions' = EndSession(sessions, txn[r].target, ~txn[r].overtaken)
  /\ End(r, LAMBDA x : x)
  /\ UNCHANGED <<offered, users, mails, events, revokeAlls>>

CommitLogoutAll(r) ==
  /\ Ready(r, {"logoutAll"}, "flushed")
  /\ sessions' = Revoke(sessions, txn[r].doomed)
  /\ revokeAlls' = [revokeAlls EXCEPT ![txn[r].user] = @ + 1]
  /\ End(r, LAMBDA x : x)
  /\ UNCHANGED <<offered, users, mails, events>>

CommitPassword(r) ==
  LET t == txn[r] IN
  /\ Ready(r, {"changePassword", "resetPassword"}, "flushed")
  /\ users' = [users EXCEPT ![t.user] = SaveUser(@, t.view, t.row)]
  /\ sessions' = Revoke(sessions, t.doomed)
  /\ revokeAlls' = [revokeAlls EXCEPT ![t.user] = @ + 1]
  /\ mails' = IF t.op = "resetPassword" THEN Used(t.target, t.usesRead, users[t.user].reset) ELSE mails
  /\ End(r, LAMBDA x : x)
  /\ UNCHANGED <<offered, events>>

CommitMail(r) ==
  LET t == txn[r] IN
  /\ Ready(r, {"forgotPassword", "sendVerification"}, "flushed")
  /\ users' = [users EXCEPT ![t.user] = SaveUser(@, t.view, t.row)]
  /\ mails' = [mails EXCEPT ![t.target].sent = "LIVE"]
  /\ End(r, LAMBDA x : x)
  /\ UNCHANGED <<offered, sessions, events, revokeAlls>>

(* The event carries the handler's own view of every field.                *)
CommitUpdateProfile(r) ==
  LET t == txn[r] IN
  /\ Ready(r, {"updateProfile"}, "flushed")
  /\ users' = [users EXCEPT ![t.user] = SaveUser(@, t.view, t.row)]
  /\ events' = IF t.target = 1 THEN Append(events, ProfileEvent(t, "UPDATED", t.row)) ELSE events
  /\ End(r, LAMBDA x : SeesOldProfile(t.user, x))
  /\ UNCHANGED <<offered, sessions, mails, revokeAlls>>

CommitVerifyEmail(r) ==
  LET t == txn[r] IN
  /\ Ready(r, {"verifyEmail"}, "flushed")
  /\ users' = [users EXCEPT ![t.user] = SaveUser(@, t.view, t.row)]
  /\ mails' = Used(t.target, t.usesRead, users[t.user].verification)
  /\ events' = Append(events, ProfileEvent(t, "UPDATED", t.row))
  /\ End(r, LAMBDA x : SeesOldProfile(t.user, x))
  /\ UNCHANGED <<offered, sessions, revokeAlls>>

(* Time: expiresAt of a session, or of a token, passes.                    *)
ExpireSession(s) ==
  /\ IsActive(s)
  /\ sessions' = [sessions EXCEPT ![s].status = "EXPIRED"]
  /\ UNCHANGED <<offered, users, mails, events, txn, revokeAlls>>

ExpireToken(m) ==
  /\ ~mails[m].expired
  /\ mails' = [mails EXCEPT ![m].expired = TRUE]
  /\ UNCHANGED <<offered, users, sessions, events, txn, revokeAlls>>

Next ==
  \/ \E r \in Requests :
       \/ \E u \in Users : Signup(r, u) \/ Login(r, u) \/ ForgotPassword(r, u)
       \/ \E s \in DOMAIN sessions :
            \/ RefreshToken(r, s) \/ RevokeSession(r, s)
            \/ \E op \in Guarded : Validate(r, op, s)
       \/ \E u \in Users, m \in DOMAIN mails : ResetPassword(r, u, m) \/ VerifyEmail(r, u, m)
       \/ Logout(r) \/ LogoutAgain(r) \/ LogoutAllDevices(r) \/ ChangePassword(r)
       \/ UpdateProfile(r) \/ SendVerificationEmail(r) \/ Fail(r)
       \/ FlushPassword(r) \/ RevokeAllByUserId(r) \/ FlushProfile(r)
       \/ SendPasswordResetEmail(r) \/ SendEmailVerificationEmail(r)
       \/ CommitSignup(r) \/ CommitLogin(r) \/ CommitRefresh(r) \/ CommitEndSession(r)
       \/ CommitLogoutAll(r) \/ CommitPassword(r) \/ CommitMail(r)
       \/ CommitUpdateProfile(r) \/ CommitVerifyEmail(r)
  \/ \E s \in DOMAIN sessions : ExpireSession(s)
  \/ \E m \in DOMAIN mails : ExpireToken(m)

Spec == Init /\ [][Next]_idVars
-----------------------------------------------------------------------------
(* Every variable holds values of its table or of a request.               *)
TypeOK ==
  /\ offered \subseteq Operation
  /\ users \in [Users -> UserRow]
  /\ \A u \in Users :
       /\ Registered(u) => users[u].password \in Passwords /\ users[u].name \in Names
       /\ {users[u].reset, users[u].verification} \subseteq 0..Len(mails)
  /\ \A s \in DOMAIN sessions : sessions[s] \in SessionRow
  /\ \A m \in DOMAIN mails : mails[m] \in Mail
  /\ \A e \in DOMAIN events : events[e] \in Event
  /\ \A r \in Requests :
       /\ DOMAIN txn[r] = DOMAIN Idle
       /\ txn[r].op \in Operation \cup {"none"}
       /\ txn[r].phase \in {"idle", "guarded", "read", "flushed"}
       /\ txn[r].doomed \subseteq DOMAIN sessions
  /\ revokeAlls \in [Users -> Nat]

(* A refresh token is exchanged at most once, whatever requests present it *)
(* at the same time: the guarded update of rotateRefreshToken lets one of  *)
(* them through.  A mailed token changes a password, or verifies an        *)
(* address, at most once, unless two requests present it at the same time. *)
TokensWorkOnce ==
  /\ \A s, t \in DOMAIN sessions :
       sessions[s].parent # 0 /\ sessions[s].parent = sessions[t].parent => s = t
  /\ \A m \in DOMAIN mails : mails[m].uses <= 1

(* Changing or resetting the password, and logging out of all devices, end *)
(* every session of the user: one that is active was issued by a request   *)
(* that committed after the last of them or overlapped it.                 *)
RevokeAllIsComplete ==
  \A s \in DOMAIN sessions :
    IsActive(s) => sessions[s].excused >= revokeAlls[sessions[s].user]

(* A session that was logged out or revoked has no active descendant: a    *)
(* refresh that read it before cannot issue another one afterwards.  Only  *)
(* a refresh that committed while the request was served gets away.        *)
EndedForGood ==
  \A s, t \in DOMAIN sessions :
    sessions[s].ended /\ (t = s \/ sessions[t].parent = s) => ~IsActive(t)

(* Of the mails whose request succeeded the newest one's token is stored,  *)
(* though each is sent before the commit: the row lock orders the mails as *)
(* it orders the tokens.  Unless it was used, or a use of an older token   *)
(* was under way, which clears whatever token it finds.                    *)
NewestMailWorks ==
  \A u \in Users, kind \in {"reset", "verification"} :
    LET live == {m \in DOMAIN mails :
                   mails[m].user = u /\ mails[m].kind = kind /\ mails[m].sent = "LIVE"} IN
    \A m \in live :
      (\A n \in live : n <= m) =>
         \/ m = IF kind = "reset" THEN users[u].reset ELSE users[u].verification
         \/ mails[m].uses > 0 \/ mails[m].crossed

(* A verified address stays verified, also when a profile update that read *)
(* the row before the verification commits after it.                       *)
VerifiedStays ==
  [][\A u \in Users : users[u].status = "ACTIVE" => users'[u].status = "ACTIVE"]_users
=============================================================================
