--------------------------- MODULE IdentityProofs ---------------------------
(***************************************************************************)
(* Proofs about accounts, sessions and mailed tokens, and about the copies *)
(* of profiles, for any number of users, requests, sessions and mails.     *)
(*                                                                         *)
(* A handler decides on what it has read and writes later, so the          *)
(* invariant says of every request what its reads still mean while others  *)
(* commit.  It comes in layers, each resting on the first: what a request  *)
(* wants of the row it read (TypeInv); which sessions it acts on and which *)
(* revocations a session has not seen yet (SessionInv); what a token in a  *)
(* user's row can still do (TokenInv); what the newest event of a user     *)
(* says (EventInv), and what a listener has seen (ProfileInv).             *)
(***************************************************************************)
EXTENDS Profiles, FiniteSetTheorems, TLAPS

Updaters == {"changePassword", "resetPassword", "updateProfile", "verifyEmail"} \cup Mailers
Enders   == {"logout", "revokeSession"}
InRow    == {"read", "flushed"}

Complete(row) == row.status # "NONE" /\ row.password \in Passwords /\ row.name \in Names

(* What a handler that updates the user's row makes of the row it read: a  *)
(* column no operation of its kind writes is the one it read.              *)
Wants(x) ==
  /\ Complete(x.view) /\ Complete(x.row)
  /\ x.op # "updateProfile" \/ x.target # 1 => x.row.name = x.view.name
  /\ IF x.op = "verifyEmail" THEN x.row.status = "ACTIVE" ELSE x.row.status = x.view.status
  /\ x.op \notin {"changePassword", "resetPassword"} => x.row.password = x.view.password
  /\ x.op \notin {"resetPassword", "forgotPassword"} => x.row.reset = x.view.reset
  /\ x.op \notin {"verifyEmail", "sendVerification"} => x.row.verification = x.view.verification
  /\ x.op = "resetPassword" => x.row.reset = 0 /\ x.view.reset = x.target /\ x.target # 0
  /\ x.op = "verifyEmail" =>
       x.row.verification = 0 /\ x.view.verification = x.target /\ x.target # 0
  /\ x.op = "forgotPassword" =>
       x.row.reset = IF x.phase = "read" THEN x.view.reset ELSE x.target
  /\ x.op = "sendVerification" =>
       x.row.verification = IF x.phase = "read" THEN x.view.verification ELSE x.target
  /\ x.op \in Mailers /\ x.phase = "flushed" =>
       x.view.reset < x.target /\ x.view.verification < x.target

Marked(x) == x.overtaken \in BOOLEAN /\ x.overlap \in BOOLEAN

(* A request, whatever the tables hold. *)
Asks(x) ==
  /\ DOMAIN x = DOMAIN Idle
  /\ x.op \in Operation \cup {"none"}
  /\ x.phase \in {"idle", "guarded"} \cup InRow
  /\ x.op = "none" <=> x.phase = "idle"
  /\ x.op # "none" => x.user \in Users
  /\ x.phase = "guarded" => x.op \in Guarded /\ x.target = 0
  /\ x.phase = "flushed" => x.op \in Updaters \cup {"logoutAll"}
  /\ x.view \in UserRow /\ x.row \in UserRow
  /\ x.own \in Nat /\ x.target \in Nat /\ x.usesRead \in Nat /\ Marked(x)
  /\ x.op = "signup" => Complete(x.row) /\ x.row.reset = 0 /\ x.row.verification = 0
  /\ x.op \in Updaters /\ x.phase \in InRow => Wants(x)

(* What a request knows of the tables, and they will not take back. *)
Knows(x) ==
  /\ x.op \notin {"none", "signup"} => Registered(x.user)
  /\ x.doomed \subseteq DOMAIN sessions
  /\ x.op \in Guarded => x.own \in DOMAIN sessions
  /\ x.op \in Enders \cup {"refresh"} /\ x.phase = "read" => x.target \in DOMAIN sessions
  /\ x.op \in Updaters /\ x.phase \in InRow =>
       x.view.reset <= Len(mails) /\ x.view.verification <= Len(mails)
  /\ x.op \in Mailers /\ x.phase = "flushed" => x.target <= Len(mails)

TablesInv ==
  /\ offered \subseteq Operation
  /\ users \in [Users -> UserRow]
  /\ \A u \in Users :
       /\ users[u].reset <= Len(mails) /\ users[u].verification <= Len(mails)
       /\ IF Registered(u) THEN Complete(users[u])
          ELSE users[u].reset = 0 /\ users[u].verification = 0
  /\ sessions \in Seq(SessionRow) /\ \A s \in DOMAIN sessions : Registered(sessions[s].user)
  /\ mails \in Seq(Mail) /\ \A m \in DOMAIN mails : Registered(mails[m].user)
  /\ events \in Seq(Event) /\ \A e \in DOMAIN events : Registered(events[e].user)
  /\ revokeAlls \in [Users -> Nat]

TypeInv ==
  /\ TablesInv
  /\ DOMAIN txn = Requests
  /\ \A r \in Requests : Asks(txn[r]) /\ Knows(txn[r])

(* The sessions.  A session without children was not exchanged.            *)
Childless(s) == \A t \in DOMAIN sessions : sessions[t].parent # s

ParentsRest ==
  \A s \in DOMAIN sessions :
    LET p == sessions[s].parent IN p = 0 \/ (p \in DOMAIN sessions /\ ~IsActive(p))

ExchangedOnce ==
  \A s, t \in DOMAIN sessions :
    sessions[s].parent # 0 /\ sessions[s].parent = sessions[t].parent => s = t

(* A request that ends a session has not missed a successor of it unless   *)
(* it was told.                                                            *)
Ends(x) ==
  /\ x.op \in Enders /\ x.phase = "read" /\ ~x.overtaken => Childless(x.target)
  /\ x.op = "logout" /\ ~x.overtaken => Childless(x.own)

(* The revocations under way that will not see session s. *)
Missing(s) == {r \in Flushing(sessions[s].user, Revokers) : s \notin txn[r].doomed}

RevocationsCounted ==
  \A s \in DOMAIN sessions :
    IsActive(s) =>
      sessions[s].excused >= revokeAlls[sessions[s].user] + Cardinality(Missing(s))

SessionInv ==
  /\ ParentsRest
  /\ ExchangedOnce
  /\ EndedForGood
  /\ \A r \in Requests : Ends(txn[r])
  /\ RevocationsCounted

(* The tokens.  One request at a time has flushed a user's row.            *)
RowLocked ==
  \A q, r \in Requests :
    /\ txn[q].phase = "flushed" /\ txn[r].phase = "flushed"
    /\ "logoutAll" \notin {txn[q].op, txn[r].op} /\ txn[q].user = txn[r].user
    => q = r

Token(row, kind) == IF kind = "reset" THEN row.reset ELSE row.verification

Sent(m, u, kind, state) == mails[m].user = u /\ mails[m].kind = kind /\ mails[m].sent = state

(* A token in a user's row has never worked. *)
StoredUnused ==
  \A u \in Users, kind \in {"reset", "verification"} :
    LET m == Token(users[u], kind) IN m # 0 => Sent(m, u, kind, "LIVE") /\ mails[m].uses = 0

(* A use found its token unused; what a request is mailing is the newest.  *)
Holds(x) ==
  /\ x.op = "resetPassword" =>
       x.usesRead = 0 /\ x.target \in DOMAIN mails /\ Sent(x.target, x.user, "reset", "LIVE")
  /\ x.op = "verifyEmail" =>
       x.usesRead = 0 /\ x.target \in DOMAIN mails /\ Sent(x.target, x.user, "verification", "LIVE")
  /\ x.op \in Mailers /\ x.phase = "flushed" =>
       /\ x.target \in DOMAIN mails
       /\ Sent(x.target, x.user, IF x.op = "forgotPassword" THEN "reset" ELSE "verification", "PENDING")
       /\ mails[x.target].uses = 0
       /\ \A m \in DOMAIN mails : mails[m].user = x.user => m <= x.target

UsedOnce == \A m \in DOMAIN mails : mails[m].uses <= 1

(* The newest mail of a kind that counts works, or something was done.     *)
Done(mail) == mail.uses > 0 \/ mail.crossed

Newest(m, u, kind) ==
  /\ m \in DOMAIN mails /\ Sent(m, u, kind, "LIVE")
  /\ \A n \in DOMAIN mails : Sent(n, u, kind, "LIVE") => n <= m

NewestWorks ==
  \A u \in Users, kind \in {"reset", "verification"}, m \in DOMAIN mails :
    Newest(m, u, kind) => m = Token(users[u], kind) \/ Done(mails[m])

TokenInv ==
  /\ RowLocked
  /\ StoredUnused
  /\ UsedOnce
  /\ NewestWorks
  /\ \A r \in Requests : Holds(txn[r])

(* The profile events.  Who has read the row since, says what it says.     *)
SameProfile(x, y) == x.name = y.name /\ x.status = y.status

Overlapped(x) == x.overlap

ReadsProfile(x) ==
  x.op \in {"updateProfile", "verifyEmail"} /\ x.phase \in InRow
    => Overlapped(x) \/ SameProfile(x.view, users[x.user])

NewestSays ==
  \A u \in Users, e \in DOMAIN events :
    NewestEvent(u, e) => Overlapped(events[e]) \/ SameProfile(events[e], users[u])

EventInv == NewestSays /\ \A r \in Requests : ReadsProfile(txn[r])

(* The listeners.  Who holds or has found a profile will find one.         *)
ProfileRow == [name : Names \cup {NoName}, status : {"NONE", "UNVERIFIED", "ACTIVE"}]
Work       == [event : Nat, seen : ProfileRow]

Listens(w) ==
  /\ w.event \in 0 .. Len(events)
  /\ w.event = 0 => w = NoWork
  /\ w.event # 0 /\ w.seen # NoProfile => profile[events[w.event].user] # NoProfile

Applied(u) ==
  /\ applied[u] \in 0 .. Len(events)
  /\ applied[u] # 0 => events[applied[u]].user = u /\ profile[u] = Columns(events[applied[u]])

ProfileInv ==
  /\ watched \in Modules
  /\ profile \in [Users -> ProfileRow]
  /\ \A u \in Users : profile[u] # NoProfile => profile[u].name \in Names
  /\ copy \in [Paths -> [Users -> ProfileRow]]
  /\ \A p \in Paths, u \in Users : copy[p][u] # NoProfile => profile[u] # NoProfile
  /\ applied \in [Users -> Nat] /\ \A u \in Users : Applied(u)
  /\ heard \subseteq DOMAIN events /\ \A e \in heard : profile[events[e].user] # NoProfile
  /\ work \in [Paths -> Work] /\ \A p \in Paths : Listens(work[p])
-----------------------------------------------------------------------------
(* The commit of another request only marks one. *)
Ages(x, y) == y \in {x, [x EXCEPT !.overlap = TRUE], [x EXCEPT !.overtaken = TRUE]}

(* The operations are twelve, and no session, mail or account disappears.  *)
LEMMA RequestsAre == Asks(Idle) /\ Idle.op = "none" /\ Idle.doomed = {}
  BY DEF Asks, Idle, NoUser, UserRow, InRow, Guarded, Updaters, Mailers, Marked

(* A marked request asks and knows what it did. *)
LEMMA AgesKeeps ==
  ASSUME NEW x, NEW y, Asks(x), Knows(x), Ages(x, y),
         \A u \in Users : Registered(u) => Registered(u)',
         DOMAIN sessions \subseteq DOMAIN sessions', Len(mails) <= Len(mails'),
         Len(mails) \in Nat, Len(mails') \in Nat
  PROVE  Asks(y) /\ Knows(y)'
<1>1. /\ DOMAIN y = DOMAIN Idle /\ y.op = x.op /\ y.phase = x.phase /\ y.user = x.user
      /\ y.own = x.own /\ y.target = x.target /\ y.view = x.view /\ y.row = x.row
      /\ y.doomed = x.doomed /\ y.usesRead = x.usesRead
  BY DEF Ages, Asks, Idle
<1>2. Marked(y)
  BY Zenon DEF Ages, Asks, Idle, Marked
<1>3. Wants(x) => Wants(y)
  BY <1>1 DEF Wants
<1>a. Asks(y)
  BY <1>1, <1>2, <1>3 DEF Asks
<1>4. x.op \in Updaters /\ x.phase \in InRow =>
        x.view.reset <= Len(mails') /\ x.view.verification <= Len(mails')
  BY DEF Asks, Knows, UserRow
<1>5. x.op \in Mailers /\ x.phase = "flushed" => x.target <= Len(mails')
  BY DEF Asks, Knows
<1> QED BY <1>1, <1>a, <1>4, <1>5 DEF Knows, Asks

(* What it takes to be a request that has read. *)
LEMMA ReaderAsks ==
  ASSUME NEW x, DOMAIN x = DOMAIN Idle, x.op \in Operation, x.phase \in InRow, x.user \in Users,
         x.phase = "flushed" => x.op \in Updaters \cup {"logoutAll"},
         x.view \in UserRow, x.row \in UserRow,
         x.own \in Nat, x.target \in Nat, x.usesRead \in Nat, Marked(x),
         x.op = "signup" => Complete(x.row) /\ x.row.reset = 0 /\ x.row.verification = 0,
         x.op \in Updaters => Wants(x)
  PROVE  Asks(x)
<1>1. x.op # "none" /\ x.phase \notin {"idle", "guarded"}
  BY DEF Operation, InRow
<1> QED BY <1>1 DEF Asks

(* A step that leaves typed tables and one request as it should be.        *)
LEMMA TypeStep ==
  ASSUME TypeInv, NEW r \in Requests, TablesInv', DOMAIN txn' = Requests,
         \A u \in Users : Registered(u) => Registered(u)',
         DOMAIN sessions \subseteq DOMAIN sessions', Len(mails) <= Len(mails'),
         \A q \in Requests \ {r} : Ages(txn[q], txn'[q]),
         Asks(txn[r])', Knows(txn[r])'
  PROVE  TypeInv'
<1>1. Len(mails) \in Nat /\ Len(mails') \in Nat
  BY DEF TypeInv, TablesInv
<1>2. ASSUME NEW q \in Requests \ {r} PROVE Asks(txn[q])' /\ Knows(txn[q])'
  <2>1. PICK x : x = txn[q]
    OBVIOUS
  <2>2. PICK y : y = txn'[q]
    OBVIOUS
  <2>3. Asks(x) /\ Knows(x) /\ Ages(x, y)
    BY <2>1, <2>2 DEF TypeInv
  <2>4. Asks(y) /\ Knows(y)'
    BY <1>1, <2>3, AgesKeeps
  <2>5. Asks(txn[q])'
    BY <2>2, <2>4
  <2>6. Knows(txn[q])'
    BY <2>2, <2>4 DEF Knows
  <2> QED BY <2>5, <2>6
<1> QED BY <1>2 DEF TypeInv

(* A request that only reads, or starts to flush.                          *)
LEMMA KeepType ==
  ASSUME TypeInv, NEW r \in Requests, NEW t, Keep(r, t), Asks(t), Knows(t)
  PROVE  TypeInv'
<1>1. TablesInv'
  BY DEF TypeInv, TablesInv, Keep, tables, Registered, Complete
<1>2. txn'[r] = t /\ DOMAIN txn' = Requests
  BY DEF Keep, TypeInv
<1>3. Asks(txn[r])'
  BY <1>2
<1>4. Knows(txn[r])'
  BY <1>2 DEF Knows, Keep, tables, Registered
<1>5. \A q \in Requests \ {r} : Ages(txn[q], txn'[q])
  BY DEF Keep, Ages, TypeInv
<1>6. /\ \A u \in Users : Registered(u) => Registered(u)'
      /\ DOMAIN sessions \subseteq DOMAIN sessions' /\ Len(mails) <= Len(mails')
  BY DEF Keep, tables, Registered, TypeInv, TablesInv
<1> QED BY <1>1, <1>2, <1>3, <1>4, <1>5, <1>6, TypeStep
-----------------------------------------------------------------------------
(* The records of requests that read.                                      *)
Begun(op, u, more) ==
  With([Idle EXCEPT !.op = op, !.phase = "read", !.user = u, !.view = users[u]], more)
Entering(r, more) == With([txn[r] EXCEPT !.phase = "read", !.view = users[txn[r].user]], more)

(* What the tables say of the row read. *)
LEMMA RowsAre ==
  ASSUME TypeInv, NEW u \in Users
  PROVE  /\ users[u] \in UserRow
         /\ users[u].reset \in Nat /\ users[u].verification \in Nat
         /\ users[u].reset <= Len(mails) /\ users[u].verification <= Len(mails)
         /\ Registered(u) => Complete(users[u])
         /\ Len(mails) \in Nat /\ DOMAIN mails = 1 .. Len(mails)
  BY DEF TypeInv, TablesInv, UserRow

(* A request that starts has read the row of its user. *)
LEMMA BegunType ==
  ASSUME TypeInv, NEW r \in Requests, NEW op \in Operation \ Guarded, NEW u \in Users, NEW more,
         DOMAIN more \subseteq {"target", "row", "usesRead"}, Start(r, op, u, more),
         NEW x, x = Begun(op, u, more),
         x.row \in UserRow, x.target \in Nat, x.usesRead \in Nat,
         op # "signup" => Registered(u),
         op = "signup" => Complete(x.row) /\ x.row.reset = 0 /\ x.row.verification = 0,
         op = "refresh" => x.target \in DOMAIN sessions,
         op \in Updaters => Wants(x)
  PROVE  TypeInv'
<1>1. /\ DOMAIN x = DOMAIN Idle /\ x.op = op /\ x.phase = "read" /\ x.user = u
      /\ x.view = users[u] /\ x.own = 0 /\ x.doomed = {}
  BY DEF Begun, With, Idle
<1>2. Marked(x)
  BY Zenon DEF Begun, With, Idle, Marked
<1>3. Asks(x)
  BY <1>1, <1>2, RowsAre, ReaderAsks DEF InRow
<1>4. Knows(x)
  BY <1>1, RowsAre DEF Knows, Operation, Guarded, Enders
<1>5. Keep(r, x)
  BY DEF Start, Begun
<1> QED BY <1>3, <1>4, <1>5, KeepType

(* And of the user of a session or a mail. *)
LEMMA SessionsAre ==
  ASSUME TypeInv, NEW s \in DOMAIN sessions
  PROVE  /\ sessions[s] \in SessionRow /\ sessions[s].user \in Users
         /\ Registered(sessions[s].user) /\ s \in Nat /\ s # 0
<1>1. sessions \in Seq(SessionRow) /\ Registered(sessions[s].user)
  BY DEF TypeInv, TablesInv
<1>2. sessions[s] \in SessionRow /\ s \in Nat /\ s # 0
  BY <1>1
<1> QED BY <1>1, <1>2 DEF SessionRow

(* A mail is one of a user who has signed up.                              *)
LEMMA MailsAre ==
  ASSUME TypeInv, NEW m \in DOMAIN mails
  PROVE  /\ mails[m] \in Mail /\ mails[m].user \in Users /\ mails[m].uses \in Nat
         /\ Registered(mails[m].user) /\ m \in Nat /\ m # 0
<1>1. mails \in Seq(Mail) /\ Registered(mails[m].user)
  BY DEF TypeInv, TablesInv
<1>2. mails[m] \in Mail /\ m \in Nat /\ m # 0
  BY <1>1
<1> QED BY <1>1, <1>2 DEF Mail

(* The rows that the handlers want.  The row of a reset.                   *)
LEMMA ResetRow ==
  ASSUME NEW row \in UserRow, NEW p \in Passwords, NEW x, x = [row EXCEPT !.password = p, !.reset = 0]
  PROVE  /\ x \in UserRow /\ x.password = p /\ x.reset = 0 /\ x.name = row.name
         /\ x.status = row.status /\ x.verification = row.verification
  BY DEF UserRow

(* The row of a verification.                                              *)
LEMMA VerifiedRow ==
  ASSUME NEW row \in UserRow, NEW x, x = [row EXCEPT !.status = "ACTIVE", !.verification = 0]
  PROVE  /\ x \in UserRow /\ x.password = row.password /\ x.reset = row.reset
         /\ x.name = row.name /\ x.status = "ACTIVE" /\ x.verification = 0
  BY DEF UserRow

(* The row of a changed password.                                          *)
LEMMA PasswordRow ==
  ASSUME NEW row \in UserRow, NEW p \in Passwords, NEW x, x = [row EXCEPT !.password = p]
  PROVE  /\ x \in UserRow /\ x.password = p /\ x.reset = row.reset /\ x.name = row.name
         /\ x.status = row.status /\ x.verification = row.verification
  BY DEF UserRow

(* The row of a changed name.                                              *)
LEMMA NamedRow ==
  ASSUME NEW row \in UserRow, NEW n \in Names, NEW x, x = [row EXCEPT !.name = n]
  PROVE  /\ x \in UserRow /\ x.password = row.password /\ x.reset = row.reset
         /\ x.name = n /\ x.status = row.status /\ x.verification = row.verification
  BY DEF UserRow

(* Requests that start without the guard. *)
LEMMA StartType ==
  ASSUME TypeInv, NEW r \in Requests, NEW u \in Users,
         Signup(r, u) \/ Login(r, u) \/ ForgotPassword(r, u)
  PROVE  TypeInv'
<1>1. CASE Signup(r, u)
  <2>1. PICK p \in Passwords, n \in Names : Start(r, "signup", u, [row |-> NewUser(p, n)])
    BY <1>1 DEF Signup
  <2>2. PICK x : x = Begun("signup", u, [row |-> NewUser(p, n)])
    OBVIOUS
  <2>3. x.row = NewUser(p, n) /\ x.target = 0 /\ x.usesRead = 0
    BY <2>2 DEF Begun, With, Idle
  <2>4. x.row \in UserRow /\ Complete(x.row) /\ x.row.reset = 0 /\ x.row.verification = 0
    BY <2>3 DEF NewUser, UserRow, Complete
  <2>5. "signup" \in Operation \ Guarded /\ "signup" \notin Updaters
    BY DEF Operation, Guarded, Updaters, Mailers
  <2> QED BY <2>1, <2>2, <2>3, <2>4, <2>5, BegunType
<1>2. CASE Login(r, u)
  <2>1. Start(r, "login", u, <<>>) /\ Registered(u)
    BY <1>2 DEF Login
  <2>2. PICK x : x = Begun("login", u, <<>>)
    OBVIOUS
  <2>3. DOMAIN <<>> = {}
    OBVIOUS
  <2>4. x.row = NoUser /\ x.target = 0 /\ x.usesRead = 0
    BY <2>2, <2>3 DEF Begun, With, Idle
  <2>5. "login" \in Operation \ Guarded /\ "login" \notin Updaters /\ NoUser \in UserRow
    BY DEF Operation, Guarded, Updaters, Mailers, NoUser, UserRow
  <2> QED BY <2>1, <2>2, <2>3, <2>4, <2>5, BegunType
<1>3. CASE ForgotPassword(r, u)
  <2>1. Start(r, "forgotPassword", u, [row |-> users[u]]) /\ Registered(u)
    BY <1>3 DEF ForgotPassword
  <2>2. PICK x : x = Begun("forgotPassword", u, [row |-> users[u]])
    OBVIOUS
  <2>3. /\ x.op = "forgotPassword" /\ x.phase = "read" /\ x.view = users[u]
        /\ x.row = users[u] /\ x.target = 0 /\ x.usesRead = 0
    BY <2>2 DEF Begun, With, Idle
  <2>4. x.row \in UserRow /\ Wants(x)
    BY <2>1, <2>3, RowsAre DEF Wants
  <2>5. "forgotPassword" \in Operation \ Guarded
    BY DEF Operation, Guarded
  <2> QED BY <2>1, <2>2, <2>3, <2>4, <2>5, BegunType
<1> QED BY <1>1, <1>2, <1>3

(* An exchange starts with a session that is there. *)
LEMMA RefreshTokenType ==
  ASSUME TypeInv, NEW r \in Requests, NEW s \in DOMAIN sessions, RefreshToken(r, s)
  PROVE  TypeInv'
<1>1. /\ Start(r, "refresh", sessions[s].user, [target |-> s])
      /\ sessions[s].user \in Users /\ Registered(sessions[s].user) /\ s \in Nat
  BY SessionsAre DEF RefreshToken
<1>2. PICK x : x = Begun("refresh", sessions[s].user, [target |-> s])
  OBVIOUS
<1>3. x.row = NoUser /\ x.target = s /\ x.usesRead = 0
  BY <1>2 DEF Begun, With, Idle
<1>4. "refresh" \in Operation \ Guarded /\ "refresh" \notin Updaters /\ NoUser \in UserRow
  BY DEF Operation, Guarded, Updaters, Mailers, NoUser, UserRow
<1> QED BY <1>1, <1>2, <1>3, <1>4, BegunType

(* A token that is found belongs to an account that is there. *)
LEMMA UseTokenType ==
  ASSUME TypeInv, NEW r \in Requests, NEW u \in Users, NEW m \in DOMAIN mails,
         ResetPassword(r, u, m) \/ VerifyEmail(r, u, m)
  PROVE  TypeInv'
<1>1. users[u] \in UserRow /\ m \in Nat /\ mails[m].uses \in Nat
  BY MailsAre, RowsAre
<1>2. HoldsReset(u, m) \/ HoldsVerification(u, m) => Registered(u)
  BY DEF TypeInv, TablesInv, HoldsReset, HoldsVerification
<1>3. CASE ResetPassword(r, u, m)
  <2>1. PICK q \in Passwords :
          /\ HoldsReset(u, m)
          /\ Start(r, "resetPassword", u,
               [target |-> m, usesRead |-> mails[m].uses,
                row |-> [users[u] EXCEPT !.password = q, !.reset = 0]])
    BY <1>3 DEF ResetPassword
  <2>2. PICK x : x = Begun("resetPassword", u,
               [target |-> m, usesRead |-> mails[m].uses,
                row |-> [users[u] EXCEPT !.password = q, !.reset = 0]])
    OBVIOUS
  <2>3. /\ x.op = "resetPassword" /\ x.phase = "read" /\ x.view = users[u] /\ x.target = m
        /\ x.usesRead = mails[m].uses /\ x.row = [users[u] EXCEPT !.password = q, !.reset = 0]
    BY <2>2 DEF Begun, With, Idle
  <2>4. /\ x.row \in UserRow /\ x.row.password = q /\ x.row.reset = 0 /\ x.row.name = users[u].name
        /\ x.row.status = users[u].status /\ x.row.verification = users[u].verification
    <3>1. PICK row : row = users[u]
      OBVIOUS
    <3>2. row \in UserRow /\ x.row = [row EXCEPT !.password = q, !.reset = 0]
      BY <1>1, <2>3, <3>1
    <3>3. PICK w : w = x.row
      OBVIOUS
    <3>4. q \in Passwords
      BY <2>1
    <3>5. /\ w \in UserRow /\ w.password = q /\ w.reset = 0 /\ w.name = row.name
          /\ w.status = row.status /\ w.verification = row.verification
      <4>1. row \in UserRow /\ w = [row EXCEPT !.password = q, !.reset = 0]
        BY <3>2, <3>3
      <4> QED BY <3>4, <4>1, ResetRow, ZenonT(60)
    <3> QED BY <3>1, <3>3, <3>4, <3>5
  <2>5. Wants(x)
    BY <1>2, <2>1, <2>3, <2>4, RowsAre DEF Wants, HoldsReset, Complete, Mailers
  <2>6. "resetPassword" \in Operation \ Guarded
    BY DEF Operation, Guarded
  <2> QED BY <1>1, <1>2, <2>1, <2>2, <2>3, <2>4, <2>5, <2>6, BegunType
<1>4. CASE VerifyEmail(r, u, m)
  <2>1. /\ HoldsVerification(u, m)
        /\ Start(r, "verifyEmail", u,
             [target |-> m, usesRead |-> mails[m].uses,
              row |-> [users[u] EXCEPT !.status = "ACTIVE", !.verification = 0]])
    BY <1>4 DEF VerifyEmail
  <2>2. PICK x : x = Begun("verifyEmail", u,
             [target |-> m, usesRead |-> mails[m].uses,
              row |-> [users[u] EXCEPT !.status = "ACTIVE", !.verification = 0]])
    OBVIOUS
  <2>3. /\ x.op = "verifyEmail" /\ x.phase = "read" /\ x.view = users[u] /\ x.target = m
        /\ x.usesRead = mails[m].uses
        /\ x.row = [users[u] EXCEPT !.status = "ACTIVE", !.verification = 0]
    BY <2>2 DEF Begun, With, Idle
  <2>4. /\ x.row \in UserRow /\ x.row.password = users[u].password /\ x.row.reset = users[u].reset
        /\ x.row.name = users[u].name /\ x.row.status = "ACTIVE" /\ x.row.verification = 0
    BY <1>1, <2>3, VerifiedRow
  <2>5. Wants(x)
    BY <1>2, <2>1, <2>3, <2>4, RowsAre DEF Wants, HoldsVerification, Complete, Mailers
  <2>6. "verifyEmail" \in Operation \ Guarded
    BY DEF Operation, Guarded
  <2> QED BY <1>1, <1>2, <2>1, <2>2, <2>3, <2>4, <2>5, <2>6, BegunType
<1> QED BY <1>3, <1>4

(* The guard admits the user of a session. *)
LEMMA ValidateType ==
  ASSUME TypeInv, NEW r \in Requests, NEW s \in DOMAIN sessions, NEW op \in Guarded,
         Validate(r, op, s)
  PROVE  TypeInv'
<1>1. PICK x : x = [Idle EXCEPT !.op = op, !.phase = "guarded", !.user = sessions[s].user, !.own = s]
  OBVIOUS
<1>2. /\ DOMAIN x = DOMAIN Idle /\ x.op = op /\ x.phase = "guarded" /\ x.user = sessions[s].user
      /\ x.own = s /\ x.target = 0 /\ x.view = NoUser /\ x.row = NoUser /\ x.usesRead = 0
      /\ x.doomed = {}
  BY <1>1 DEF Idle
<1>3. Marked(x)
  BY <1>1, Zenon DEF Idle, Marked
<1>4. /\ sessions[s].user \in Users /\ Registered(sessions[s].user) /\ s \in Nat
      /\ NoUser \in UserRow
  BY SessionsAre DEF NoUser, UserRow
<1>5. op \in Operation /\ op \notin {"none", "signup"}
  BY DEF Guarded, Operation
<1>6. Asks(x)
  BY <1>2, <1>3, <1>4, <1>5 DEF Asks, InRow
<1>7. Knows(x)
  BY <1>2, <1>4, <1>5 DEF Knows, InRow
<1>8. Keep(r, x)
  BY <1>1 DEF Validate
<1> QED BY <1>6, <1>7, <1>8, KeepType

(* A guarded request that reads has found what its checks ask for. *)
LEMMA EnteringType ==
  ASSUME TypeInv, NEW r \in Requests, NEW op \in Guarded, Entered(r, op), NEW more,
         DOMAIN more \subseteq {"target", "row"}, Read(r, more),
         NEW x, x = Entering(r, more), x.row \in UserRow, x.target \in Nat,
         op \in Enders => x.target \in DOMAIN sessions,
         op \in Updaters => Wants(x)
  PROVE  TypeInv'
<1>1. /\ DOMAIN x = DOMAIN Idle /\ x.op = op /\ x.phase = "read" /\ x.user = txn[r].user
      /\ x.view = users[txn[r].user] /\ x.own = txn[r].own /\ x.doomed = txn[r].doomed
      /\ x.usesRead = txn[r].usesRead
  BY DEF Entering, With, Idle, Entered, TypeInv, Asks
<1>2. op \in Operation /\ op \notin {"none", "signup", "refresh"}
  BY DEF Guarded, Operation
<1>3. /\ txn[r].user \in Users /\ Registered(txn[r].user) /\ txn[r].own \in DOMAIN sessions
      /\ txn[r].own \in Nat /\ txn[r].usesRead \in Nat /\ txn[r].doomed \subseteq DOMAIN sessions
  BY <1>2 DEF Entered, TypeInv, Asks, Knows
<1>4. Marked(txn[r]) /\ DOMAIN txn[r] = DOMAIN Idle
  BY DEF TypeInv, Asks
<1>5. Marked(x)
  BY <1>4, Zenon DEF Entering, With, Idle, Marked
<1>6. Asks(x)
  BY <1>1, <1>2, <1>3, <1>5, RowsAre, ReaderAsks DEF InRow
<1>7. Knows(x)
  BY <1>1, <1>2, <1>3, RowsAre DEF Knows
<1>8. Keep(r, x)
  BY DEF Read, Entering
<1> QED BY <1>6, <1>7, <1>8, KeepType

(* Requests that read behind the guard. *)
LEMMA ReadType ==
  ASSUME TypeInv, NEW r \in Requests,
         \/ Logout(r) \/ LogoutAllDevices(r) \/ ChangePassword(r) \/ UpdateProfile(r)
         \/ SendVerificationEmail(r) \/ \E s \in DOMAIN sessions : RevokeSession(r, s)
  PROVE  TypeInv'
<1> DEFINE u == txn[r].user
<1>1. /\ {"logout", "logoutAll", "changePassword", "updateProfile", "sendVerification",
          "revokeSession"} \subseteq Guarded
      /\ {"logout", "logoutAll", "revokeSession"} \cap Updaters = {}
      /\ {"logoutAll", "changePassword", "updateProfile", "sendVerification"} \cap Enders = {}
  BY DEF Guarded, Updaters, Mailers, Enders
<1>2. ASSUME NEW op \in Guarded, Entered(r, op)
      PROVE  /\ u \in Users /\ Registered(u) /\ users[u] \in UserRow /\ Complete(users[u])
             /\ txn[r].row \in UserRow /\ txn[r].target = 0 /\ txn[r].op = op
             /\ txn[r].own \in DOMAIN sessions /\ DOMAIN txn[r] = DOMAIN Idle
  <2>1. txn[r].op = op /\ op \notin {"none", "signup"} /\ Asks(txn[r]) /\ Knows(txn[r])
        /\ txn[r].phase = "guarded"
    BY <1>2 DEF Entered, TypeInv, Guarded
  <2>2. u \in Users /\ Registered(u)
    BY <2>1 DEF Asks, Knows
  <2> QED BY <1>2, <2>1, <2>2, RowsAre DEF Asks, Knows
<1>3. CASE Logout(r)
  <2>1. Entered(r, "logout") /\ Read(r, [target |-> txn[r].own])
    BY <1>3 DEF Logout
  <2>2. PICK x : x = Entering(r, [target |-> txn[r].own])
    OBVIOUS
  <2>3. x.row = txn[r].row /\ x.target = txn[r].own /\ txn[r].own \in Nat
    BY <1>1, <1>2, <2>1, <2>2, SessionsAre DEF Entering, With, Idle
  <2> QED BY <1>1, <1>2, <2>1, <2>2, <2>3, EnteringType
<1>4. CASE LogoutAllDevices(r)
  <2>1. Entered(r, "logoutAll") /\ Read(r, <<>>)
    BY <1>4 DEF LogoutAllDevices
  <2>2. PICK x : x = Entering(r, <<>>)
    OBVIOUS
  <2>3. DOMAIN <<>> = {}
    OBVIOUS
  <2>4. x.row = txn[r].row /\ x.target = 0
    BY <1>1, <1>2, <2>1, <2>2, <2>3 DEF Entering, With, Idle
  <2> QED BY <1>1, <1>2, <2>1, <2>2, <2>3, <2>4, EnteringType
<1>5. CASE ChangePassword(r)
  <2>1. PICK q \in Passwords :
          Entered(r, "changePassword") /\ Read(r, [row |-> [users[u] EXCEPT !.password = q]])
    BY <1>5 DEF ChangePassword
  <2>2. PICK x : x = Entering(r, [row |-> [users[u] EXCEPT !.password = q]])
    OBVIOUS
  <2>3. /\ x.row = [users[u] EXCEPT !.password = q] /\ x.view = users[u] /\ x.target = 0
        /\ x.op = "changePassword"
    BY <1>1, <1>2, <2>1, <2>2 DEF Entering, With, Idle
  <2>4. x.row \in UserRow /\ Wants(x)
    <3>1. /\ x.row \in UserRow /\ x.row.password = q /\ x.row.reset = users[u].reset
          /\ x.row.name = users[u].name /\ x.row.status = users[u].status
          /\ x.row.verification = users[u].verification /\ Complete(users[u])
      BY <1>1, <1>2, <2>1, <2>3, PasswordRow
    <3> QED BY <2>3, <3>1 DEF Wants, Complete, Mailers
  <2> QED BY <1>1, <2>1, <2>2, <2>3, <2>4, EnteringType
<1>6. CASE UpdateProfile(r)
  <2>1. PICK n \in Names \cup {NoName} :
          /\ Entered(r, "updateProfile")
          /\ Read(r, [target |-> IF n = NoName THEN 0 ELSE 1,
                      row |-> IF n = NoName THEN users[u] ELSE [users[u] EXCEPT !.name = n]])
    BY <1>6 DEF UpdateProfile
  <2>2. PICK x : x = Entering(r, [target |-> IF n = NoName THEN 0 ELSE 1,
                      row |-> IF n = NoName THEN users[u] ELSE [users[u] EXCEPT !.name = n]])
    OBVIOUS
  <2>3. /\ x.row = IF n = NoName THEN users[u] ELSE [users[u] EXCEPT !.name = n]
        /\ x.target = IF n = NoName THEN 0 ELSE 1
        /\ x.view = users[u] /\ x.op = "updateProfile"
    BY <1>1, <1>2, <2>1, <2>2 DEF Entering, With, Idle
  <2>4. x.row \in UserRow /\ Wants(x)
    <3>1. users[u] \in UserRow /\ Complete(users[u])
      BY <1>1, <1>2, <2>1
    <3>2. CASE n = NoName
      BY <2>3, <3>1, <3>2 DEF Wants, Mailers
    <3>3. CASE n \in Names /\ n # NoName
      <4>1. /\ x.row \in UserRow /\ x.row.password = users[u].password
            /\ x.row.reset = users[u].reset /\ x.row.name = n
            /\ x.row.status = users[u].status /\ x.row.verification = users[u].verification
        BY <2>3, <3>1, <3>3, NamedRow
      <4> QED BY <2>3, <3>1, <3>3, <4>1 DEF Wants, Complete, Mailers
    <3> QED BY <3>2, <3>3
  <2> QED BY <1>1, <2>1, <2>2, <2>3, <2>4, EnteringType
<1>7. CASE SendVerificationEmail(r)
  <2>1. Entered(r, "sendVerification") /\ Read(r, [row |-> users[u]])
    BY <1>7 DEF SendVerificationEmail
  <2>2. PICK x : x = Entering(r, [row |-> users[u]])
    OBVIOUS
  <2>3. /\ x.row = users[u] /\ x.view = users[u] /\ x.target = 0 /\ x.op = "sendVerification"
        /\ x.phase = "read"
    BY <1>1, <1>2, <2>1, <2>2 DEF Entering, With, Idle
  <2>4. x.row \in UserRow /\ Wants(x)
    BY <1>1, <1>2, <2>1, <2>3 DEF Wants
  <2> QED BY <1>1, <2>1, <2>2, <2>3, <2>4, EnteringType
<1>8. CASE \E s \in DOMAIN sessions : RevokeSession(r, s)
  <2>1. PICK s \in DOMAIN sessions : Entered(r, "revokeSession") /\ Read(r, [target |-> s])
    BY <1>8 DEF RevokeSession
  <2>2. PICK x : x = Entering(r, [target |-> s])
    OBVIOUS
  <2>3. x.row = txn[r].row /\ x.target = s /\ s \in Nat
    BY <1>1, <1>2, <2>1, <2>2, SessionsAre DEF Entering, With, Idle
  <2> QED BY <1>1, <1>2, <2>1, <2>2, <2>3, EnteringType
<1> QED BY <1>3, <1>4, <1>5, <1>6, <1>7, <1>8

(* A request that flushes wants what it wanted. *)
LEMMA FlushType ==
  ASSUME TypeInv, NEW r \in Requests,
         FlushPassword(r) \/ RevokeAllByUserId(r) \/ FlushProfile(r)
  PROVE  TypeInv'
<1>1. /\ txn[r].phase = "read" /\ Asks(txn[r]) /\ Knows(txn[r])
      /\ txn[r].op \in {"changePassword", "resetPassword", "logoutAll", "updateProfile", "verifyEmail"}
  BY DEF FlushPassword, RevokeAllByUserId, FlushProfile, FlushUser, TypeInv
<1>2. PICK D \in SUBSET DOMAIN sessions :
        \/ Keep(r, [txn[r] EXCEPT !.phase = "flushed", !.doomed = D])
        \/ Keep(r, [txn[r] EXCEPT !.phase = "flushed"]) /\ D = {}
  BY DEF FlushPassword, RevokeAllByUserId, FlushProfile, ActiveSessions
<1>3. ASSUME NEW x,
             \/ x = [txn[r] EXCEPT !.phase = "flushed", !.doomed = D]
             \/ x = [txn[r] EXCEPT !.phase = "flushed"]
      PROVE  Asks(x) /\ Knows(x)
  <2>1. /\ DOMAIN x = DOMAIN Idle /\ x.phase = "flushed" /\ x.op = txn[r].op
        /\ x.user = txn[r].user /\ x.own = txn[r].own /\ x.target = txn[r].target
        /\ x.view = txn[r].view /\ x.row = txn[r].row /\ x.usesRead = txn[r].usesRead
        /\ x.doomed \in {D, txn[r].doomed}
    BY <1>1, <1>3 DEF Asks, Idle
  <2>2. Marked(x)
    <3>1. Marked(txn[r]) /\ DOMAIN txn[r] = DOMAIN Idle
      BY <1>1 DEF Asks
    <3> QED BY <1>3, <3>1, Zenon DEF Marked, Idle
  <2>3. x.op \in Updaters => Wants(x)
    <3>1. x.op \notin Mailers
      BY <1>1, <2>1 DEF Mailers
    <3>2. x.op \in Updaters => Wants(txn[r])
      BY <1>1, <2>1 DEF Asks, InRow
    <3> QED BY <2>1, <3>1, <3>2 DEF Wants, Mailers
  <2>4. x.op \in Operation /\ x.op \in Updaters \cup {"logoutAll"} /\ x.op # "signup"
    BY <1>1, <2>1 DEF Operation, Updaters
  <2>5. Asks(x)
    BY <1>1, <2>1, <2>2, <2>3, <2>4, ReaderAsks DEF InRow, Asks
  <2>6. Knows(x)
    <3>1. x.op \notin Mailers \cup Enders \cup {"refresh"}
      BY <1>1, <2>1 DEF Mailers, Enders
    <3> QED BY <1>1, <2>1, <3>1 DEF Knows, InRow
  <2> QED BY <2>5, <2>6
<1> QED BY <1>2, <1>3, KeepType
-----------------------------------------------------------------------------
(* What the operators on tables return.                                    *)

(* A flush writes a column or leaves it. *)
LEMMA MergeIs ==
  ASSUME NEW stored \in UserRow, NEW view \in UserRow, NEW row \in UserRow,
         NEW x, x = Merge(stored, view, row)
  PROVE  /\ x \in UserRow
         /\ x.status = IF row.status # view.status THEN row.status ELSE stored.status
         /\ x.password = IF row.password # view.password THEN row.password ELSE stored.password
         /\ x.name = IF row.name # view.name THEN row.name ELSE stored.name
         /\ x.reset = IF row.reset # view.reset THEN row.reset ELSE stored.reset
         /\ x.verification =
              IF row.verification # view.verification THEN row.verification ELSE stored.verification
<1>1. DOMAIN stored = {"status", "password", "name", "reset", "verification"}
  BY DEF UserRow
<1>2. x = [c \in DOMAIN stored |-> IF row[c] # view[c] THEN row[c] ELSE stored[c]]
  BY DEF Merge
<1>3. /\ x.status = IF row.status # view.status THEN row.status ELSE stored.status
      /\ x.password = IF row.password # view.password THEN row.password ELSE stored.password
      /\ x.name = IF row.name # view.name THEN row.name ELSE stored.name
      /\ x.reset = IF row.reset # view.reset THEN row.reset ELSE stored.reset
      /\ x.verification =
              IF row.verification # view.verification THEN row.verification ELSE stored.verification
  BY <1>1, <1>2
<1>4. x = [status |-> x.status, password |-> x.password, name |-> x.name, reset |-> x.reset,
           verification |-> x.verification]
  BY <1>1, <1>2
<1>5. x \in UserRow
  BY <1>3, <1>4 DEF UserRow
<1> QED BY <1>3, <1>5

(* A row of sessions with another status, or marked as ended. *)
LEMMA SessionRowWith ==
  ASSUME NEW row \in SessionRow, NEW status \in {"EXPIRED", "REVOKED"}, NEW x,
         x = [row EXCEPT !.status = status]
  PROVE  /\ x \in SessionRow /\ x.status = status /\ x.user = row.user
         /\ x.parent = row.parent /\ x.excused = row.excused /\ x.ended = row.ended
  BY DEF SessionRow

(* A row of sessions that is marked as ended, or is not.                   *)
LEMMA SessionRowEnded ==
  ASSUME NEW row \in SessionRow, NEW ended \in BOOLEAN, NEW x, x = [row EXCEPT !.ended = ended]
  PROVE  /\ x \in SessionRow /\ x.status = row.status /\ x.user = row.user
         /\ x.parent = row.parent /\ x.excused = row.excused /\ x.ended = ended
  BY DEF SessionRow

(* A revocation changes the status of sessions that are active. *)
LEMMA RevokeIs ==
  ASSUME NEW table \in Seq(SessionRow), NEW S, NEW x, x = Revoke(table, S)
  PROVE  /\ x \in Seq(SessionRow) /\ Len(x) = Len(table) /\ DOMAIN x = DOMAIN table
         /\ \A s \in DOMAIN table :
              /\ x[s].user = table[s].user /\ x[s].parent = table[s].parent
              /\ x[s].excused = table[s].excused /\ x[s].ended = table[s].ended
              /\ x[s].status = IF s \in S /\ table[s].status = "ACTIVE" THEN "REVOKED"
                               ELSE table[s].status
<1>1. x = [s \in 1 .. Len(table) |->
             IF s \in S /\ table[s].status = "ACTIVE"
             THEN [table[s] EXCEPT !.status = "REVOKED"] ELSE table[s]]
  BY DEF Revoke
<1>2. ASSUME NEW s \in 1 .. Len(table)
      PROVE  /\ x[s] \in SessionRow
             /\ x[s].user = table[s].user /\ x[s].parent = table[s].parent
             /\ x[s].excused = table[s].excused /\ x[s].ended = table[s].ended
             /\ x[s].status = IF s \in S /\ table[s].status = "ACTIVE" THEN "REVOKED"
                              ELSE table[s].status
  <2>1. PICK row \in SessionRow : row = table[s]
    OBVIOUS
  <2>2. PICK y : y = x[s]
    OBVIOUS
  <2>3. y = IF s \in S /\ row.status = "ACTIVE" THEN [row EXCEPT !.status = "REVOKED"] ELSE row
    BY <1>1, <2>1, <2>2
  <2>4. CASE s \in S /\ row.status = "ACTIVE"
    BY <2>1, <2>2, <2>3, <2>4, SessionRowWith
  <2>5. CASE ~(s \in S /\ row.status = "ACTIVE")
    BY <2>1, <2>2, <2>3, <2>5
  <2> QED BY <2>4, <2>5
<1>4. x \in [1 .. Len(table) -> SessionRow] /\ Len(table) \in Nat
  BY <1>1, <1>2
<1>5. x \in Seq(SessionRow) /\ Len(x) = Len(table) /\ DOMAIN x = DOMAIN table
  BY <1>4
<1> QED BY <1>2, <1>5

(* So does a request that ends one, and marks it.                          *)
Mark(table, e, t) == [table EXCEPT ![e].ended = @ \/ ~t.overtaken]

(* A mark changes nothing else of a session.                               *)
LEMMA MarkedIs ==
  ASSUME NEW table \in Seq(SessionRow), NEW e \in DOMAIN table, NEW t,
         NEW x, x = Mark(table, e, t)
  PROVE  /\ x \in Seq(SessionRow) /\ Len(x) = Len(table) /\ DOMAIN x = DOMAIN table
         /\ \A s \in DOMAIN table :
              /\ x[s].user = table[s].user /\ x[s].parent = table[s].parent
              /\ x[s].excused = table[s].excused /\ x[s].status = table[s].status
<1>1. PICK row \in SessionRow : row = table[e]
  OBVIOUS
<1>2. PICK ended \in BOOLEAN : ended = (row.ended \/ ~t.overtaken)
  BY Zenon
<1>3. PICK y : y = [row EXCEPT !.ended = ended]
  OBVIOUS
<1>4. /\ y \in SessionRow /\ y.status = row.status /\ y.user = row.user
      /\ y.parent = row.parent /\ y.excused = row.excused /\ y.ended = ended
  BY <1>3, SessionRowEnded
<1>5. x = [table EXCEPT ![e] = y]
  BY <1>1, <1>2, <1>3, Zenon DEF Mark
<1>6. x \in Seq(SessionRow) /\ Len(x) = Len(table) /\ DOMAIN x = DOMAIN table
  BY <1>4, <1>5
<1>7. x[e] = y /\ \A s \in DOMAIN table : s # e => x[s] = table[s]
  BY <1>5
<1> QED BY <1>1, <1>4, <1>6, <1>7

(* The marks are in a lemma of their own, for the sake of the provers.     *)
Marks(x, table, e, t) ==
  \A s \in DOMAIN table : x[s].ended => table[s].ended \/ (s = e /\ ~t.overtaken)

(* Only the session a request ends is marked, and not if the request was   *)
(* overtaken.                                                              *)
LEMMA MarkedEnds ==
  ASSUME NEW table \in Seq(SessionRow), NEW e \in DOMAIN table, NEW t,
         NEW x, x = Mark(table, e, t)
  PROVE  Marks(x, table, e, t)
<1>1. PICK row \in SessionRow : row = table[e]
  OBVIOUS
<1>2. "ended" \in DOMAIN row
  BY DEF SessionRow
<1> QED BY <1>1, <1>2, Zenon DEF Marks, Mark

(* A request that ends a session changes the status of that one, if it     *)
(* is active.                                                              *)
LEMMA EndSessionIs ==
  ASSUME NEW table \in Seq(SessionRow), NEW e \in DOMAIN table, NEW t,
         NEW x, x = Mark(Revoke(table, {e}), e, t)
  PROVE  /\ x \in Seq(SessionRow) /\ Len(x) = Len(table) /\ DOMAIN x = DOMAIN table
         /\ \A s \in DOMAIN table :
              /\ x[s].user = table[s].user /\ x[s].parent = table[s].parent
              /\ x[s].excused = table[s].excused
              /\ x[s].status = IF s = e /\ table[s].status = "ACTIVE" THEN "REVOKED"
                               ELSE table[s].status
<1>1. PICK y : y = Revoke(table, {e})
  OBVIOUS
<1>2. /\ y \in Seq(SessionRow) /\ Len(y) = Len(table) /\ DOMAIN y = DOMAIN table
      /\ \A s \in DOMAIN table :
           /\ y[s].user = table[s].user /\ y[s].parent = table[s].parent
           /\ y[s].excused = table[s].excused
           /\ y[s].status = IF s \in {e} /\ table[s].status = "ACTIVE" THEN "REVOKED"
                            ELSE table[s].status
  BY <1>1, RevokeIs
<1>3. x = Mark(y, e, t)
  BY <1>1
<1>4. /\ x \in Seq(SessionRow) /\ Len(x) = Len(y) /\ DOMAIN x = DOMAIN y
      /\ \A s \in DOMAIN y :
           /\ x[s].user = y[s].user /\ x[s].parent = y[s].parent
           /\ x[s].excused = y[s].excused /\ x[s].status = y[s].status
  <2>1. e \in DOMAIN y /\ y \in Seq(SessionRow)
    BY <1>2
  <2> QED BY ONLY <1>3, <2>1, MarkedIs
<1> QED BY <1>2, <1>4

(* A request that ends a session marks no other one.                       *)
LEMMA EndSessionEnds ==
  ASSUME NEW table \in Seq(SessionRow), NEW e \in DOMAIN table, NEW t,
         NEW x, x = Mark(Revoke(table, {e}), e, t)
  PROVE  Marks(x, table, e, t)
<1>1. PICK y : y = Revoke(table, {e})
  OBVIOUS
<1>2. /\ y \in Seq(SessionRow) /\ e \in DOMAIN y /\ DOMAIN y = DOMAIN table
  BY <1>1, RevokeIs
<1>3. \A s \in DOMAIN table : y[s].ended = table[s].ended
  BY <1>1, RevokeIs
<1>4. x = Mark(y, e, t)
  BY <1>1
<1>5. Marks(x, y, e, t)
  BY <1>2, <1>4, MarkedEnds
<1> QED BY <1>2, <1>3, <1>5, Zenon DEF Marks

(* A row of mails with what happens to it. *)
LEMMA MailSent ==
  ASSUME NEW row \in Mail, NEW sent \in {"LIVE", "LOST"}, NEW x, x = [row EXCEPT !.sent = sent]
  PROVE  /\ x \in Mail /\ x.user = row.user /\ x.kind = row.kind /\ x.sent = sent
         /\ x.uses = row.uses /\ x.crossed = row.crossed
  BY DEF Mail

(* A row of mails whose token has expired.                                 *)
LEMMA MailExpired ==
  ASSUME NEW row \in Mail, NEW x, x = [row EXCEPT !.expired = TRUE]
  PROVE  /\ x \in Mail /\ x.user = row.user /\ x.kind = row.kind /\ x.sent = row.sent
         /\ x.uses = row.uses /\ x.crossed = row.crossed
  BY DEF Mail

(* A row of mails whose token has been used once more.                     *)
LEMMA MailUsed ==
  ASSUME NEW row \in Mail, NEW x, x = [row EXCEPT !.uses = @ + 1]
  PROVE  /\ x \in Mail /\ x.user = row.user /\ x.kind = row.kind /\ x.sent = row.sent
         /\ x.uses = row.uses + 1 /\ x.crossed = row.crossed
  BY DEF Mail

(* A row of mails whose token another use has cleared.                     *)
LEMMA MailCrossed ==
  ASSUME NEW row \in Mail, NEW x, x = [row EXCEPT !.crossed = TRUE]
  PROVE  /\ x \in Mail /\ x.user = row.user /\ x.kind = row.kind /\ x.sent = row.sent
         /\ x.uses = row.uses /\ x.crossed
  BY DEF Mail

(* A use counts for the token used, and marks the token stored. *)
LEMMA UsedIs ==
  ASSUME mails \in Seq(Mail), NEW m, NEW uses, NEW stored, NEW x, x = Used(m, uses, stored)
  PROVE  /\ x \in Seq(Mail) /\ Len(x) = Len(mails) /\ DOMAIN x = DOMAIN mails
         /\ \A i \in DOMAIN mails :
              /\ x[i].user = mails[i].user /\ x[i].kind = mails[i].kind /\ x[i].sent = mails[i].sent
              /\ x[i].uses = IF i = m /\ mails[i].uses = uses THEN mails[i].uses + 1 ELSE mails[i].uses
              /\ mails[i].crossed \/ (i = stored /\ i # m) => x[i].crossed
<1>1. x = [i \in 1 .. Len(mails) |->
             IF i = m /\ mails[i].uses = uses THEN [mails[i] EXCEPT !.uses = @ + 1]
             ELSE IF i = stored /\ i # m THEN [mails[i] EXCEPT !.crossed = TRUE] ELSE mails[i]]
  BY DEF Used
<1>2. ASSUME NEW i \in 1 .. Len(mails)
      PROVE  /\ x[i] \in Mail
             /\ x[i].user = mails[i].user /\ x[i].kind = mails[i].kind /\ x[i].sent = mails[i].sent
             /\ x[i].uses = IF i = m /\ mails[i].uses = uses THEN mails[i].uses + 1 ELSE mails[i].uses
             /\ mails[i].crossed \/ (i = stored /\ i # m) => x[i].crossed
  <2>1. PICK row \in Mail : row = mails[i]
    OBVIOUS
  <2>2. PICK y : y = x[i]
    OBVIOUS
  <2>3. y = IF i = m /\ row.uses = uses THEN [row EXCEPT !.uses = @ + 1]
            ELSE IF i = stored /\ i # m THEN [row EXCEPT !.crossed = TRUE] ELSE row
    BY <1>1, <2>1, <2>2
  <2>4. CASE i = m /\ row.uses = uses
    BY <2>1, <2>2, <2>3, <2>4, MailUsed
  <2>5. CASE ~(i = m /\ row.uses = uses) /\ i = stored /\ i # m
    BY <2>1, <2>2, <2>3, <2>5, MailCrossed
  <2>6. CASE ~(i = m /\ row.uses = uses) /\ ~(i = stored /\ i # m)
    BY <2>1, <2>2, <2>3, <2>6
  <2> QED BY <2>4, <2>5, <2>6
<1>3. x \in [1 .. Len(mails) -> Mail] /\ Len(mails) \in Nat
  BY <1>1, <1>2
<1>4. x \in Seq(Mail) /\ Len(x) = Len(mails) /\ DOMAIN x = DOMAIN mails
  BY <1>3
<1> QED BY <1>2, <1>4
-----------------------------------------------------------------------------
(* Commits.  The request ends, and the others are marked at most.          *)
LEMMA EndAges ==
  ASSUME TypeInv, NEW r \in Requests, NEW s, NEW u,
         \/ txn' = [q \in Requests |-> IF q = r THEN Idle ELSE txn[q]]
         \/ txn' = [q \in Requests |-> IF q = r THEN Idle ELSE MissesSuccessor(s, txn[q])]
         \/ txn' = [q \in Requests |-> IF q = r THEN Idle ELSE SeesOldProfile(u, txn[q])]
  PROVE  /\ DOMAIN txn' = Requests /\ txn'[r] = Idle
         /\ \A q \in Requests \ {r} : Ages(txn[q], txn'[q])
<1>1. \A x : Ages(x, x) /\ Ages(x, MissesSuccessor(s, x)) /\ Ages(x, SeesOldProfile(u, x))
  BY DEF Ages, MissesSuccessor, SeesOldProfile
<1> QED BY <1>1

(* Then the request is as good as any, if the tables are.                  *)
LEMMA EndType ==
  ASSUME TypeInv, NEW r \in Requests, TablesInv',
         DOMAIN txn' = Requests, txn'[r] = Idle,
         \A q \in Requests \ {r} : Ages(txn[q], txn'[q]),
         \A u \in Users : Registered(u) => Registered(u)',
         DOMAIN sessions \subseteq DOMAIN sessions', Len(mails) <= Len(mails')
  PROVE  TypeInv'
<1>1. Asks(txn[r])' /\ Knows(txn[r])'
  BY RequestsAre DEF Knows, Guarded, Enders, Updaters, Mailers
<1> QED BY <1>1, TypeStep

(* What a flush makes of the user's row, and that nobody is unregistered.  *)
LEMMA SavedUsers ==
  ASSUME TypeInv, NEW r \in Requests, NEW t, t = txn[r], NEW u, u = t.user,
         t.op \in Updaters, t.phase = "flushed",
         users' = [users EXCEPT ![u] = SaveUser(@, t.view, t.row)],
         Len(mails') = Len(mails)
  PROVE  /\ u \in Users /\ Registered(u) /\ users' \in [Users -> UserRow]
         /\ \A v \in Users :
              /\ Registered(v)' <=> Registered(v)
              /\ users'[v].reset <= Len(mails') /\ users'[v].verification <= Len(mails')
              /\ IF Registered(v)' THEN Complete(users'[v])
                 ELSE users'[v].reset = 0 /\ users'[v].verification = 0
              /\ v # u => users'[v] = users[v]
         /\ users'[u].status = IF t.row.status # t.view.status THEN t.row.status ELSE users[u].status
         /\ users'[u].name = IF t.row.name # t.view.name THEN t.row.name ELSE users[u].name
         /\ users'[u].reset = IF t.row.reset # t.view.reset THEN t.row.reset ELSE users[u].reset
         /\ users'[u].verification =
              IF t.row.verification # t.view.verification THEN t.row.verification
              ELSE users[u].verification
<1>1. /\ u \in Users /\ Registered(u) /\ t.view \in UserRow /\ t.row \in UserRow /\ Wants(t)
      /\ t.view.reset <= Len(mails) /\ t.view.verification <= Len(mails)
      /\ t.op \in Mailers => t.target <= Len(mails)
  <2>1. t.op \notin {"none", "signup"} /\ t.phase \in InRow
    BY DEF Updaters, Mailers, InRow
  <2> QED BY <2>1 DEF TypeInv, Asks, Knows
<1>2. users \in [Users -> UserRow] /\ users[u] \in UserRow /\ Complete(users[u])
      /\ users[u].reset <= Len(mails) /\ users[u].verification <= Len(mails) /\ Len(mails) \in Nat
  BY <1>1, RowsAre DEF TypeInv, TablesInv
<1>3. PICK x : x = Merge(users[u], t.view, t.row)
  OBVIOUS
<1>4. users' = [users EXCEPT ![u] = x]
  BY <1>3 DEF SaveUser
<1>5. /\ x \in UserRow
      /\ x.status = IF t.row.status # t.view.status THEN t.row.status ELSE users[u].status
      /\ x.password = IF t.row.password # t.view.password THEN t.row.password ELSE users[u].password
      /\ x.name = IF t.row.name # t.view.name THEN t.row.name ELSE users[u].name
      /\ x.reset = IF t.row.reset # t.view.reset THEN t.row.reset ELSE users[u].reset
      /\ x.verification =
           IF t.row.verification # t.view.verification THEN t.row.verification
           ELSE users[u].verification
  BY <1>1, <1>2, <1>3, MergeIs
<1>6. Complete(x)
  BY <1>1, <1>2, <1>5 DEF Wants, Complete
<1>7. x.reset <= Len(mails) /\ x.verification <= Len(mails)
  <2>1. t.row.reset \in {0, t.view.reset} \/ (t.op \in Mailers /\ t.row.reset = t.target)
    BY <1>1 DEF Wants, Mailers
  <2>2. t.row.verification \in {0, t.view.verification}
        \/ (t.op \in Mailers /\ t.row.verification = t.target)
    BY <1>1 DEF Wants, Mailers
  <2> QED BY <1>1, <1>2, <1>5, <2>1, <2>2 DEF UserRow
<1>8. users'[u] = x /\ users' \in [Users -> UserRow] /\ \A v \in Users : v # u => users'[v] = users[v]
  BY <1>1, <1>2, <1>4, <1>5
<1>9. ASSUME NEW v \in Users
      PROVE  /\ Registered(v)' <=> Registered(v)
             /\ users'[v].reset <= Len(mails') /\ users'[v].verification <= Len(mails')
             /\ IF Registered(v)' THEN Complete(users'[v])
                ELSE users'[v].reset = 0 /\ users'[v].verification = 0
  <2>1. CASE v = u
    BY <1>1, <1>6, <1>7, <1>8, <2>1 DEF Registered, Complete
  <2>2. CASE v # u
    BY <1>8, <2>2 DEF Registered, TypeInv, TablesInv
  <2> QED BY <2>1, <2>2
<1> QED BY <1>1, <1>5, <1>8, <1>9

(* What an issuer adds to the sessions, and an announcement to the events. *)
LEMMA NewSessionIs ==
  ASSUME TypeInv, NEW u \in Users, NEW parent \in Nat, NEW x, x = NewSession(u, parent)
  PROVE  /\ x \in SessionRow /\ x.user = u /\ x.status = "ACTIVE" /\ x.parent = parent
         /\ x.excused = revokeAlls[u] + Cardinality(Flushing(u, Revokers)) /\ ~x.ended
<1>1. Flushing(u, Revokers) \subseteq Requests
  BY DEF Flushing
<1>2. Cardinality(Flushing(u, Revokers)) \in Nat
  BY <1>1, IdentityAssumption, FS_Subset, FS_CardinalityType
<1>3. revokeAlls[u] \in Nat
  BY DEF TypeInv, TablesInv
<1>4. PICK n \in Nat : n = revokeAlls[u] + Cardinality(Flushing(u, Revokers))
  BY <1>2, <1>3
<1>5. x = [user |-> u, status |-> "ACTIVE", parent |-> parent, excused |-> n, ended |-> FALSE]
  BY <1>4 DEF NewSession
<1> QED BY <1>4, <1>5 DEF SessionRow

(* An event says what the row its handler saves says of name and status.   *)
LEMMA ProfileEventIs ==
  ASSUME NEW t, NEW type \in {"REGISTERED", "UPDATED"}, NEW row \in UserRow,
         t.user \in Users, Marked(t), Complete(row), NEW x, x = ProfileEvent(t, type, row)
  PROVE  /\ x \in Event /\ x.user = t.user /\ x.name = row.name /\ x.status = row.status
<1>1. PICK overlap \in BOOLEAN : overlap = t.overlap
  BY Zenon DEF Marked
<1>2. x = [user |-> t.user, type |-> type, name |-> row.name, status |-> row.status,
           overlap |-> overlap]
  BY <1>1 DEF ProfileEvent
<1>3. row.status \in {"UNVERIFIED", "ACTIVE"} /\ row.name \in Names
  BY DEF UserRow, Complete
<1>4. x \in Event
  BY <1>2, <1>3 DEF Event
<1> QED BY <1>2, <1>4

(* The table a step does not write says what it said. *)
LEMMA Unwritten ==
  ASSUME TypeInv
  PROVE  /\ users' = users =>
              /\ users' \in [Users -> UserRow]
              /\ \A u \in Users : Registered(u)' <=> Registered(u)
              /\ Len(mails') \in Nat /\ Len(mails) <= Len(mails') => \A u \in Users :
                   /\ users'[u].reset <= Len(mails') /\ users'[u].verification <= Len(mails')
                   /\ IF Registered(u)' THEN Complete(users'[u])
                      ELSE users'[u].reset = 0 /\ users'[u].verification = 0
         /\ Len(mails) \in Nat /\ Len(sessions) \in Nat /\ Len(events) \in Nat
         /\ DOMAIN sessions = 1 .. Len(sessions) /\ DOMAIN mails = 1 .. Len(mails)
         /\ DOMAIN events = 1 .. Len(events)
         /\ sessions \in Seq(SessionRow) /\ mails \in Seq(Mail) /\ events \in Seq(Event)
         /\ \A s \in DOMAIN sessions : sessions[s].user \in Users /\ Registered(sessions[s].user)
         /\ \A m \in DOMAIN mails : mails[m].user \in Users /\ Registered(mails[m].user)
         /\ \A e \in DOMAIN events : events[e].user \in Users /\ Registered(events[e].user)
         /\ revokeAlls \in [Users -> Nat] /\ offered \subseteq Operation /\ users \in [Users -> UserRow]
<1>1. ASSUME users' = users
      PROVE  /\ users' \in [Users -> UserRow]
             /\ \A u \in Users : Registered(u)' <=> Registered(u)
             /\ Len(mails') \in Nat /\ Len(mails) <= Len(mails') => \A u \in Users :
                   /\ users'[u].reset <= Len(mails') /\ users'[u].verification <= Len(mails')
                   /\ IF Registered(u)' THEN Complete(users'[u])
                      ELSE users'[u].reset = 0 /\ users'[u].verification = 0
  <2>1. \A u \in Users : users[u].reset \in Nat /\ users[u].verification \in Nat
    BY RowsAre
  <2>2. Len(mails) \in Nat
    BY DEF TypeInv, TablesInv
  <2> QED BY <1>1, <2>1, <2>2 DEF Registered, TypeInv, TablesInv
<1>2. /\ Len(mails) \in Nat /\ Len(sessions) \in Nat /\ Len(events) \in Nat
      /\ DOMAIN sessions = 1 .. Len(sessions) /\ DOMAIN mails = 1 .. Len(mails)
      /\ DOMAIN events = 1 .. Len(events)
      /\ sessions \in Seq(SessionRow) /\ mails \in Seq(Mail) /\ events \in Seq(Event)
      /\ revokeAlls \in [Users -> Nat] /\ offered \subseteq Operation /\ users \in [Users -> UserRow]
  BY DEF TypeInv, TablesInv
<1>3. \A e \in DOMAIN events : events[e].user \in Users /\ Registered(events[e].user)
  <2>1. \A e \in DOMAIN events : events[e] \in Event /\ Registered(events[e].user)
    BY <1>2 DEF TypeInv, TablesInv
  <2> QED BY <2>1 DEF Event
<1> QED BY <1>1, <1>2, <1>3, SessionsAre, MailsAre

(* The tables after a step that writes sessions, and maybe counts them.    *)
LEMMA SessionsTables ==
  ASSUME TypeInv, UNCHANGED <<offered, users, mails, events>>, revokeAlls' \in [Users -> Nat],
         sessions' \in Seq(SessionRow), DOMAIN sessions \subseteq DOMAIN sessions',
         \A s \in DOMAIN sessions' : Registered(sessions'[s].user)
  PROVE  TablesInv' /\ \A v \in Users : Registered(v) => Registered(v)'
<1>1. \A v : Registered(v)' <=> Registered(v)
  BY DEF Registered
<1> QED BY <1>1, Unwritten DEF TablesInv

(* Sessions rewritten in place stay those of their users.                  *)
LEMMA SessionsRewritten ==
  ASSUME TypeInv, NEW x \in Seq(SessionRow), sessions' = x, DOMAIN x = DOMAIN sessions,
         \A s \in DOMAIN sessions : x[s].user = sessions[s].user
  PROVE  /\ sessions' \in Seq(SessionRow) /\ DOMAIN sessions \subseteq DOMAIN sessions'
         /\ \A s \in DOMAIN sessions' : Registered(sessions'[s].user)
  BY Unwritten

(* Sessions are issued, exchanged and ended; rows of users stay.           *)
LEMMA SessionsType ==
  ASSUME TypeInv, NEW r \in Requests,
         \/ CommitLogin(r) \/ CommitRefresh(r) \/ CommitEndSession(r) \/ CommitLogoutAll(r)
         \/ LogoutAgain(r)
  PROVE  TypeInv'
<1> DEFINE u == txn[r].user
<1>0. Asks(txn[r]) /\ Knows(txn[r])
  BY DEF TypeInv
<1>2. ASSUME \/ txn' = [q \in Requests |-> IF q = r THEN Idle ELSE txn[q]]
             \/ txn' = [txn EXCEPT ![r] = Idle]
             \/ \E s : txn' = [q \in Requests |-> IF q = r THEN Idle ELSE MissesSuccessor(s, txn[q])]
      PROVE  /\ DOMAIN txn' = Requests /\ txn'[r] = Idle
             /\ \A q \in Requests \ {r} : Ages(txn[q], txn'[q])
  <2>1. CASE txn' = [txn EXCEPT ![r] = Idle]
    BY <2>1 DEF TypeInv, Ages
  <2> QED BY <1>2, <2>1, EndAges
<1>3. ASSUME NEW n \in SessionRow, NEW old \in Seq(SessionRow), sessions' = Append(old, n),
             Len(old) = Len(sessions), Registered(n.user),
             \A s \in DOMAIN sessions : old[s].user = sessions[s].user
      PROVE  /\ sessions' \in Seq(SessionRow) /\ DOMAIN sessions \subseteq DOMAIN sessions'
             /\ \A s \in DOMAIN sessions' : Registered(sessions'[s].user)
  <2>1. /\ Len(sessions') = Len(sessions) + 1 /\ DOMAIN sessions' = 1 .. Len(sessions) + 1
        /\ \A s \in 1 .. Len(sessions) : sessions'[s] = old[s]
        /\ sessions'[Len(sessions) + 1] = n /\ sessions' \in Seq(SessionRow)
    BY <1>3, Unwritten
  <2> QED BY <1>3, <2>1, Unwritten
<1>4. CASE CommitLogin(r)
  <2>1. u \in Users /\ Registered(u)
    BY <1>0, <1>4 DEF CommitLogin, Ready, Asks, Knows
  <2>2. PICK n : n = NewSession(u, 0)
    OBVIOUS
  <2>3. n \in SessionRow /\ n.user = u /\ 0 \in Nat
    BY <2>1, <2>2, NewSessionIs
  <2>4. sessions' = Append(sessions, n)
    BY <1>4, <2>2 DEF CommitLogin
  <2>5. /\ sessions' \in Seq(SessionRow) /\ DOMAIN sessions \subseteq DOMAIN sessions'
        /\ \A s \in DOMAIN sessions' : Registered(sessions'[s].user)
    BY <1>3, <2>1, <2>3, <2>4, Unwritten
  <2>6. UNCHANGED <<offered, users, mails, events, revokeAlls>> 
        /\ txn' = [q \in Requests |-> IF q = r THEN Idle ELSE txn[q]]
    BY <1>4 DEF CommitLogin, End
  <2>a. TablesInv' /\ \A v \in Users : Registered(v) => Registered(v)'
    BY SessionsTables, <2>5, <2>6, Unwritten
  <2>b. /\ DOMAIN txn' = Requests /\ txn'[r] = Idle
        /\ \A q \in Requests \ {r} : Ages(txn[q], txn'[q])
    BY <1>2, <2>6
  <2>c. DOMAIN sessions \subseteq DOMAIN sessions' /\ Len(mails) <= Len(mails')
    BY <2>5, <2>6, Unwritten
  <2> QED BY <2>a, <2>b, <2>c, EndType
<1>5. CASE CommitRefresh(r)
  <2> DEFINE p == txn[r].target
  <2>1. u \in Users /\ Registered(u) /\ p \in DOMAIN sessions /\ p \in Nat
    BY <1>0, <1>5, Unwritten DEF CommitRefresh, Ready, Asks, Knows
  <2>2. PICK n : n = NewSession(u, p)
    OBVIOUS
  <2>3. n \in SessionRow /\ n.user = u
    BY <2>1, <2>2, NewSessionIs
  <2>4. PICK old : old = Revoke(sessions, {p})
    OBVIOUS
  <2>5. sessions' = Append(old, n)
    BY <1>5, <2>2, <2>4 DEF CommitRefresh
  <2>6. /\ old \in Seq(SessionRow) /\ Len(old) = Len(sessions)
        /\ \A s \in DOMAIN sessions : old[s].user = sessions[s].user
    BY <2>4, RevokeIs, Unwritten
  <2>7. /\ sessions' \in Seq(SessionRow) /\ DOMAIN sessions \subseteq DOMAIN sessions'
        /\ \A s \in DOMAIN sessions' : Registered(sessions'[s].user)
    BY <1>3, <2>1, <2>3, <2>5, <2>6
  <2>8. /\ UNCHANGED <<offered, users, mails, events, revokeAlls>>
        /\ txn' = [q \in Requests |-> IF q = r THEN Idle ELSE MissesSuccessor(p, txn[q])]
    BY <1>5 DEF CommitRefresh, End
  <2>a. TablesInv' /\ \A v \in Users : Registered(v) => Registered(v)'
    BY SessionsTables, <2>7, <2>8, Unwritten
  <2>b. /\ DOMAIN txn' = Requests /\ txn'[r] = Idle
        /\ \A q \in Requests \ {r} : Ages(txn[q], txn'[q])
    BY <1>2, <2>8
  <2>c. DOMAIN sessions \subseteq DOMAIN sessions' /\ Len(mails) <= Len(mails')
    BY <2>7, <2>8, Unwritten
  <2> QED BY <2>a, <2>b, <2>c, EndType
<1>6. CASE CommitEndSession(r)
  <2>1. txn[r].target \in DOMAIN sessions /\ Marked(txn[r])
    BY <1>0, <1>6 DEF CommitEndSession, Ready, Asks, Knows, Enders
  <2>3. sessions' = Mark(Revoke(sessions, {txn[r].target}), txn[r].target, txn[r])
    BY <1>6 DEF CommitEndSession, EndSession, Mark
  <2>4. /\ sessions' \in Seq(SessionRow) /\ DOMAIN sessions \subseteq DOMAIN sessions'
        /\ \A s \in DOMAIN sessions' : Registered(sessions'[s].user)
    <3>1. PICK x : x = sessions'
      OBVIOUS
    <3>2. PICK e \in DOMAIN sessions : x = Mark(Revoke(sessions, {e}), e, txn[r])
      BY <2>1, <2>3, <3>1
    <3>3. /\ x \in Seq(SessionRow) /\ DOMAIN x = DOMAIN sessions
          /\ \A s \in DOMAIN sessions : x[s].user = sessions[s].user
      <4>1. sessions \in Seq(SessionRow)
        BY Unwritten
      <4>2. PICK t : t = txn[r]
        OBVIOUS
      <4>3. x = Mark(Revoke(sessions, {e}), e, t)
        BY <3>2, <4>2
      <4>5. e \in DOMAIN sessions
        BY <3>2
      <4> QED BY <4>1, <4>3, <4>5, EndSessionIs
    <3> QED BY SessionsRewritten, <3>1, <3>3
  <2>5. UNCHANGED <<offered, users, mails, events, revokeAlls>> 
        /\ txn' = [q \in Requests |-> IF q = r THEN Idle ELSE txn[q]]
    BY <1>6 DEF CommitEndSession, End
  <2>a. TablesInv' /\ \A v \in Users : Registered(v) => Registered(v)'
    BY SessionsTables, <2>4, <2>5, Unwritten
  <2>b. /\ DOMAIN txn' = Requests /\ txn'[r] = Idle
        /\ \A q \in Requests \ {r} : Ages(txn[q], txn'[q])
    BY <1>2, <2>5
  <2>c. DOMAIN sessions \subseteq DOMAIN sessions' /\ Len(mails) <= Len(mails')
    BY <2>4, <2>5, Unwritten
  <2> QED BY <2>a, <2>b, <2>c, EndType
<1>7. CASE CommitLogoutAll(r)
  <2>1. u \in Users
    BY <1>0, <1>7 DEF CommitLogoutAll, Ready, Asks
  <2>2. /\ sessions' \in Seq(SessionRow) /\ DOMAIN sessions \subseteq DOMAIN sessions'
        /\ \A s \in DOMAIN sessions' : Registered(sessions'[s].user)
    <3>1. PICK x : x = sessions'
      OBVIOUS
    <3>2. PICK S : x = Revoke(sessions, S)
      BY <1>7, <3>1 DEF CommitLogoutAll
    <3>3. /\ x \in Seq(SessionRow) /\ DOMAIN x = DOMAIN sessions
          /\ \A s \in DOMAIN sessions : x[s].user = sessions[s].user
      BY <3>2, RevokeIs, Unwritten
    <3> QED BY SessionsRewritten, <3>1, <3>3
  <2>3. /\ UNCHANGED <<offered, users, mails, events>>
        /\ txn' = [q \in Requests |-> IF q = r THEN Idle ELSE txn[q]]
        /\ revokeAlls' = [revokeAlls EXCEPT ![u] = @ + 1]
    BY <1>7 DEF CommitLogoutAll, End
  <2>4. revokeAlls' \in [Users -> Nat]
    BY <2>1, <2>3, Unwritten
  <2>a. TablesInv' /\ \A v \in Users : Registered(v) => Registered(v)'
    BY SessionsTables, <2>2, <2>4, <2>3, Unwritten
  <2>b. /\ DOMAIN txn' = Requests /\ txn'[r] = Idle
        /\ \A q \in Requests \ {r} : Ages(txn[q], txn'[q])
    BY <1>2, <2>3
  <2>c. DOMAIN sessions \subseteq DOMAIN sessions' /\ Len(mails) <= Len(mails')
    BY <2>2, <2>4, <2>3, Unwritten
  <2> QED BY <2>a, <2>b, <2>c, EndType
<1>8. CASE LogoutAgain(r)
  <2>1. txn[r].own \in DOMAIN sessions /\ Marked(txn[r])
    BY <1>0, <1>8 DEF LogoutAgain, Entered, Asks, Knows, Guarded
  <2>3. sessions' = Mark(sessions, txn[r].own, txn[r])
    BY <1>8 DEF LogoutAgain, Mark
  <2>4. /\ sessions' \in Seq(SessionRow) /\ DOMAIN sessions \subseteq DOMAIN sessions'
        /\ \A s \in DOMAIN sessions' : Registered(sessions'[s].user)
    <3>1. PICK x : x = sessions'
      OBVIOUS
    <3>2. PICK e \in DOMAIN sessions : x = Mark(sessions, e, txn[r])
      BY <2>1, <2>3, <3>1
    <3>3. /\ x \in Seq(SessionRow) /\ DOMAIN x = DOMAIN sessions
          /\ \A s \in DOMAIN sessions : x[s].user = sessions[s].user
      <4>1. sessions \in Seq(SessionRow)
        BY Unwritten
      <4>2. PICK t : t = txn[r]
        OBVIOUS
      <4>3. x = Mark(sessions, e, t)
        BY <3>2, <4>2
      <4>5. e \in DOMAIN sessions
        BY <3>2
      <4> QED BY <4>1, <4>3, <4>5, MarkedIs
    <3> QED BY SessionsRewritten, <3>1, <3>3
  <2>5. UNCHANGED <<offered, users, mails, events, revokeAlls>> /\ txn' = [txn EXCEPT ![r] = Idle]
    BY <1>8 DEF LogoutAgain
  <2>a. TablesInv' /\ \A v \in Users : Registered(v) => Registered(v)'
    BY SessionsTables, <2>4, <2>5, Unwritten
  <2>b. /\ DOMAIN txn' = Requests /\ txn'[r] = Idle
        /\ \A q \in Requests \ {r} : Ages(txn[q], txn'[q])
    BY <1>2, <2>5
  <2>c. DOMAIN sessions \subseteq DOMAIN sessions' /\ Len(mails) <= Len(mails')
    BY <2>4, <2>5, Unwritten
  <2> QED BY <2>a, <2>b, <2>c, EndType
<1> QED BY <1>4, <1>5, <1>6, <1>7, <1>8

(* An expiry writes one status. *)
LEMMA ExpireType ==
  ASSUME TypeInv, NEW e \in DOMAIN sessions, ExpireSession(e)
  PROVE  TypeInv'
<1>2. /\ sessions' \in Seq(SessionRow) /\ DOMAIN sessions \subseteq DOMAIN sessions'
      /\ \A s \in DOMAIN sessions' : Registered(sessions'[s].user)
  <2>1. PICK row \in SessionRow : row = sessions[e]
    BY Unwritten
  <2>2. PICK x : x = [row EXCEPT !.status = "EXPIRED"]
    OBVIOUS
  <2>3. x \in SessionRow /\ x.user = row.user
    BY <2>2, SessionRowWith
  <2>4. sessions' = [sessions EXCEPT ![e] = x]
    BY <2>1, <2>2 DEF ExpireSession
  <2>5. PICK y : y = [sessions EXCEPT ![e] = x]
    OBVIOUS
  <2>6. /\ y \in Seq(SessionRow) /\ DOMAIN y = DOMAIN sessions
        /\ \A s \in DOMAIN sessions : y[s].user = sessions[s].user
    BY <2>1, <2>3, <2>5, Unwritten
  <2> QED BY SessionsRewritten, <2>4, <2>5, <2>6
<1>3. UNCHANGED <<offered, users, mails, events, txn, revokeAlls>>
  BY DEF ExpireSession
<1>4. TablesInv' /\ Len(mails') = Len(mails) /\ \A v : Registered(v)' <=> Registered(v)
  BY SessionsTables, <1>2, <1>3, Unwritten DEF Registered
<1>5. \A q \in Requests : Asks(txn[q])' /\ Knows(txn[q])'
  BY <1>2, <1>3, <1>4 DEF TypeInv, Knows
<1> QED BY <1>3, <1>4, <1>5 DEF TypeInv

(* The tables after a handler has saved the row of its user.               *)
LEMMA SavedType ==
  ASSUME TypeInv, NEW r \in Requests, NEW t, t = txn[r], NEW u, u = t.user,
         t.op \in Updaters, t.phase = "flushed",
         users' = [users EXCEPT ![u] = SaveUser(@, t.view, t.row)],
         mails' \in Seq(Mail), DOMAIN mails' = DOMAIN mails,
         \A m \in DOMAIN mails : mails'[m].user = mails[m].user,
         sessions' \in Seq(SessionRow), DOMAIN sessions' = DOMAIN sessions,
         \A s \in DOMAIN sessions : sessions'[s].user = sessions[s].user,
         events' \in Seq(Event), \A e \in DOMAIN events' : Registered(events'[e].user),
         offered' = offered, revokeAlls' \in [Users -> Nat],
         DOMAIN txn' = Requests, txn'[r] = Idle,
         \A q \in Requests \ {r} : Ages(txn[q], txn'[q])
  PROVE  TypeInv'
<1>1. Len(mails') = Len(mails) /\ Len(mails) \in Nat
  BY Unwritten
<1>2. /\ users' \in [Users -> UserRow]
      /\ \A v \in Users :
           /\ Registered(v)' <=> Registered(v)
           /\ users'[v].reset <= Len(mails') /\ users'[v].verification <= Len(mails')
           /\ IF Registered(v)' THEN Complete(users'[v])
              ELSE users'[v].reset = 0 /\ users'[v].verification = 0
  BY <1>1, SavedUsers
<1>3. \A v \in Users : users[v].status # "NONE" => users'[v].status # "NONE"
  BY <1>2 DEF Registered
<1>4. \A s \in DOMAIN sessions' : users'[sessions'[s].user].status # "NONE"
  BY <1>3, Unwritten DEF Registered
<1>5. \A m \in DOMAIN mails' : users'[mails'[m].user].status # "NONE"
  BY <1>3, Unwritten DEF Registered
<1>6. \A e \in DOMAIN events' : users'[events'[e].user].status # "NONE"
  <2>1. \A e \in DOMAIN events' : events'[e] \in Event
    OBVIOUS
  <2>2. \A e \in DOMAIN events' : events'[e].user \in Users
    BY <2>1 DEF Event
  <2> QED BY <1>3, <2>2 DEF Registered
<1>7. offered' \subseteq Operation
  BY Unwritten
<1>8. TablesInv'
  BY <1>2, <1>4, <1>5, <1>6, <1>7 DEF TablesInv, Registered
<1>9. \A v \in Users : Registered(v) => Registered(v)'
  BY <1>2
<1> QED BY <1>1, <1>8, <1>9, EndType

(* A table that was not written, or got an event more. *)
LEMMA EventsKept ==
  ASSUME TypeInv, events' = events
  PROVE  events' \in Seq(Event) /\ \A e \in DOMAIN events' : Registered(events'[e].user)
  BY Unwritten

(* An event more at the end of the outbox leaves the others where they     *)
(* are.                                                                    *)
LEMMA EventAdded ==
  ASSUME TypeInv, NEW x \in Event, x.user \in Users, events' = Append(events, x)
  PROVE  /\ events' \in Seq(Event) /\ Len(events') = Len(events) + 1
         /\ \A e \in DOMAIN events : events'[e] = events[e]
         /\ events'[Len(events) + 1] = x
         /\ Registered(x.user) => \A e \in DOMAIN events' : Registered(events'[e].user)
<1>1. events \in Seq(Event) /\ Len(events) \in Nat
  BY Unwritten
<1>2. /\ events' \in Seq(Event) /\ Len(events') = Len(events) + 1
      /\ \A e \in 1 .. Len(events) : events'[e] = events[e]
      /\ events'[Len(events) + 1] = x /\ DOMAIN events' = 1 .. Len(events) + 1
  BY <1>1
<1> QED BY <1>1, <1>2, Unwritten

(* The handlers that save the row of their user. *)
LEMMA SaversType ==
  ASSUME TypeInv, NEW r \in Requests,
         CommitPassword(r) \/ CommitMail(r) \/ CommitUpdateProfile(r) \/ CommitVerifyEmail(r)
  PROVE  TypeInv'
<1>1. PICK t : t = txn[r]
  OBVIOUS
<1>2. PICK u : u = t.user
  OBVIOUS
<1>3. /\ t.phase = "flushed" /\ t.op \in Updaters /\ t.row \in UserRow /\ Marked(t) /\ Wants(t)
      /\ u \in Users /\ Registered(u) /\ (t.op \in Mailers => t.target <= Len(mails))
  <2>1. t.phase = "flushed" /\ t.op \in Updaters /\ t.op \notin {"none", "signup"}
    BY <1>1 DEF CommitPassword, CommitMail, CommitUpdateProfile, CommitVerifyEmail, Ready,
             Updaters, Mailers
  <2> QED BY <1>1, <1>2, <2>1 DEF TypeInv, Asks, Knows, InRow
<1>4. users' = [users EXCEPT ![u] = SaveUser(@, t.view, t.row)] /\ offered' = offered
  BY <1>1, <1>2 DEF CommitPassword, CommitMail, CommitUpdateProfile, CommitVerifyEmail
<1>5. /\ DOMAIN txn' = Requests /\ txn'[r] = Idle
      /\ \A q \in Requests \ {r} : Ages(txn[q], txn'[q])
  <2>1. \/ txn' = [q \in Requests |-> IF q = r THEN Idle ELSE txn[q]]
        \/ txn' = [q \in Requests |-> IF q = r THEN Idle ELSE SeesOldProfile(u, txn[q])]
    BY <1>1, <1>2 DEF CommitPassword, CommitMail, CommitUpdateProfile, CommitVerifyEmail, End
  <2> QED BY <2>1, EndAges
<1>6. ASSUME sessions' = sessions
      PROVE  /\ sessions' \in Seq(SessionRow) /\ DOMAIN sessions' = DOMAIN sessions
             /\ \A s \in DOMAIN sessions : sessions'[s].user = sessions[s].user
  BY <1>6, Unwritten
<1>7. ASSUME NEW stored, mails' = Used(t.target, t.usesRead, stored)
      PROVE  /\ mails' \in Seq(Mail) /\ DOMAIN mails' = DOMAIN mails
             /\ \A m \in DOMAIN mails : mails'[m].user = mails[m].user
  <2>1. PICK x : x = mails'
    OBVIOUS
  <2>2. x = Used(t.target, t.usesRead, stored) /\ mails \in Seq(Mail)
    BY <1>7, <2>1, Unwritten
  <2>3. /\ x \in Seq(Mail) /\ DOMAIN x = DOMAIN mails
        /\ \A m \in DOMAIN mails : x[m].user = mails[m].user
    BY ONLY <2>2, UsedIs
  <2> QED BY <2>1, <2>3
<1>8. ASSUME mails' = mails
      PROVE  /\ mails' \in Seq(Mail) /\ DOMAIN mails' = DOMAIN mails
             /\ \A m \in DOMAIN mails : mails'[m].user = mails[m].user
  BY <1>8, Unwritten
<1>9. ASSUME revokeAlls' = revokeAlls
      PROVE  revokeAlls' \in [Users -> Nat]
  BY <1>9, Unwritten
<1>a. ASSUME NEW x, x = ProfileEvent(t, "UPDATED", t.row), events' = Append(events, x)
      PROVE  events' \in Seq(Event) /\ \A e \in DOMAIN events' : Registered(events'[e].user)
  <2>1. x \in Event /\ x.user = u
    BY <1>2, <1>3, <1>a, ProfileEventIs DEF Wants
  <2> QED BY <1>3, <1>a, <2>1, EventAdded
<1>b. CASE CommitPassword(r)
  <2>1. /\ sessions' = Revoke(sessions, t.doomed) /\ revokeAlls' = [revokeAlls EXCEPT ![u] = @ + 1]
        /\ mails' = mails \/ mails' = Used(t.target, t.usesRead, users[u].reset)
        /\ events' = events
    BY <1>b, <1>1, <1>2 DEF CommitPassword
  <2>2. /\ sessions' \in Seq(SessionRow) /\ DOMAIN sessions' = DOMAIN sessions
        /\ \A s \in DOMAIN sessions : sessions'[s].user = sessions[s].user
    <3>1. PICK x : x = sessions'
      OBVIOUS
    <3>2. x = Revoke(sessions, t.doomed)
      BY <2>1, <3>1
    <3> QED BY <3>1, <3>2, RevokeIs, Unwritten
  <2>3. revokeAlls' \in [Users -> Nat]
    BY <2>1, <1>3, Unwritten
  <2> QED BY <1>1, <1>2, <1>3, <1>4, <1>5, <1>7, <1>8, <2>1, <2>2, <2>3, EventsKept, SavedType
<1>c. CASE CommitMail(r)
  <2>1. mails' = [mails EXCEPT ![t.target].sent = "LIVE"] /\ UNCHANGED <<sessions, events, revokeAlls>>
    BY <1>c, <1>1 DEF CommitMail
  <2>2. t.target \in DOMAIN mails
    <3>1. t.op \in Mailers
      BY <1>c, <1>1 DEF CommitMail, Ready, Mailers
    <3>2. t.target \in Nat /\ t.view.reset < t.target /\ t.view \in UserRow
      BY <3>1, <1>1, <1>3 DEF Wants, TypeInv, Asks
    <3>3. t.view.reset \in Nat
      BY <3>2 DEF UserRow
    <3> QED BY <1>3, <3>1, <3>2, <3>3, Unwritten
  <2>3. /\ mails' \in Seq(Mail) /\ DOMAIN mails' = DOMAIN mails
        /\ \A m \in DOMAIN mails : mails'[m].user = mails[m].user
    <3>1. PICK row \in Mail : row = mails[t.target]
      BY <2>2, MailsAre
    <3>2. PICK x : x = [row EXCEPT !.sent = "LIVE"]
      OBVIOUS
    <3>3. x \in Mail /\ x.user = row.user
      BY <3>2, MailSent
    <3>4. mails' = [mails EXCEPT ![t.target] = x]
      BY <2>1, <3>1, <3>2
    <3> QED BY <2>2, <3>1, <3>3, <3>4, Unwritten
  <2> QED BY <1>1, <1>2, <1>3, <1>4, <1>5, <1>6, <1>9, <2>1, <2>3, EventsKept, SavedType
<1>d. CASE CommitUpdateProfile(r)
  <2>1. UNCHANGED <<sessions, mails, revokeAlls>>
    BY <1>d DEF CommitUpdateProfile
  <2>2. events' = events \/ events' = Append(events, ProfileEvent(t, "UPDATED", t.row))
    BY <1>d, <1>1 DEF CommitUpdateProfile
  <2>3. events' \in Seq(Event) /\ \A e \in DOMAIN events' : Registered(events'[e].user)
    BY <1>a, <2>2, EventsKept
  <2> QED BY <1>1, <1>2, <1>3, <1>4, <1>5, <1>6, <1>8, <1>9, <2>1, <2>3, SavedType
<1>e. CASE CommitVerifyEmail(r)
  <2>1. UNCHANGED <<sessions, revokeAlls>> /\ mails' = Used(t.target, t.usesRead, users[u].verification)
    BY <1>e, <1>1, <1>2 DEF CommitVerifyEmail
  <2>2. events' = Append(events, ProfileEvent(t, "UPDATED", t.row))
    BY <1>e, <1>1 DEF CommitVerifyEmail
  <2>3. events' \in Seq(Event) /\ \A e \in DOMAIN events' : Registered(events'[e].user)
    BY <1>a, <2>2
  <2> QED BY <1>1, <1>2, <1>3, <1>4, <1>5, <1>6, <1>7, <1>9, <2>1, <2>3, SavedType
<1> QED BY <1>b, <1>c, <1>d, <1>e

(* A signup that commits makes an account of an address that had none. *)
LEMMA CommitSignupType ==
  ASSUME TypeInv, NEW r \in Requests, CommitSignup(r)
  PROVE  TypeInv'
<1>1. PICK t : t = txn[r]
  OBVIOUS
<1>2. PICK u : u = t.user
  OBVIOUS
<1>3. /\ t.row \in UserRow /\ Marked(t) /\ u \in Users /\ Complete(t.row)
      /\ t.row.reset = 0 /\ t.row.verification = 0
  <2>1. t.op = "signup"
    BY <1>1 DEF CommitSignup, Ready
  <2> QED BY <1>1, <1>2, <2>1 DEF TypeInv, Asks
<1>4. PICK n : n = NewSession(u, 0)
  OBVIOUS
<1>5. PICK x : x = ProfileEvent(t, "REGISTERED", t.row)
  OBVIOUS
<1>6. /\ users' = [users EXCEPT ![u] = t.row] /\ events' = Append(events, x)
      /\ sessions' = Append(sessions, n) /\ UNCHANGED <<offered, mails, revokeAlls>>
      /\ txn' = [q \in Requests |-> IF q = r THEN Idle ELSE txn[q]]
  BY <1>1, <1>2, <1>4, <1>5 DEF CommitSignup, End
<1>7. n \in SessionRow /\ n.user = u
  <2>1. 0 \in Nat
    OBVIOUS
  <2> QED BY <1>3, <1>4, <2>1, NewSessionIs
<1>8. x \in Event /\ x.user = u
  <2>1. "REGISTERED" \in {"REGISTERED", "UPDATED"}
    OBVIOUS
  <2> QED BY <1>2, <1>3, <1>5, <2>1, ProfileEventIs
<1>9. /\ users' \in [Users -> UserRow] /\ users'[u] = t.row
      /\ \A v \in Users : v # u => users'[v] = users[v]
  BY <1>3, <1>6, Unwritten
<1>a. ASSUME NEW v \in Users
      PROVE  /\ users'[v].reset <= Len(mails') /\ users'[v].verification <= Len(mails')
             /\ users[v].status # "NONE" => users'[v].status # "NONE"
             /\ IF users'[v].status # "NONE" THEN Complete(users'[v])
                ELSE users'[v].reset = 0 /\ users'[v].verification = 0
  <2>1. CASE v = u
    BY <1>3, <1>6, <1>9, <2>1, Unwritten DEF Complete
  <2>2. CASE v # u
    BY <1>6, <1>9, <2>2 DEF TypeInv, TablesInv, Registered
  <2> QED BY <2>1, <2>2
<1>b. users'[u].status # "NONE"
  BY <1>3, <1>9 DEF Complete
<1>c. /\ sessions' \in Seq(SessionRow) /\ DOMAIN sessions \subseteq DOMAIN sessions'
      /\ \A s \in DOMAIN sessions' : users'[sessions'[s].user].status # "NONE"
  <2>1. /\ Len(sessions') = Len(sessions) + 1 /\ DOMAIN sessions' = 1 .. Len(sessions) + 1
        /\ \A s \in 1 .. Len(sessions) : sessions'[s] = sessions[s]
        /\ sessions'[Len(sessions) + 1] = n /\ sessions' \in Seq(SessionRow)
    BY <1>6, <1>7, Unwritten
  <2>2. \A s \in 1 .. Len(sessions) : users'[sessions'[s].user].status # "NONE"
    BY <1>a, <2>1, Unwritten DEF Registered
  <2>3. users'[sessions'[Len(sessions) + 1].user].status # "NONE"
    BY <1>7, <1>b, <2>1
  <2> QED BY <2>1, <2>2, <2>3, Unwritten
<1>d. /\ events' \in Seq(Event)
      /\ \A e \in DOMAIN events' : users'[events'[e].user].status # "NONE"
  <2>1. /\ events' \in Seq(Event) /\ Len(events') = Len(events) + 1
        /\ \A e \in DOMAIN events : events'[e] = events[e]
        /\ events'[Len(events) + 1] = x
    BY <1>3, <1>6, <1>8, EventAdded
  <2>2. DOMAIN events' = 1 .. Len(events) + 1
    BY <2>1
  <2> QED BY <1>8, <1>a, <1>b, <2>1, <2>2, Unwritten DEF Registered
<1>e. mails' \in Seq(Mail) /\ \A m \in DOMAIN mails' : users'[mails'[m].user].status # "NONE"
  BY <1>6, <1>a, Unwritten DEF Registered
<1>f. TablesInv'
  BY <1>6, <1>9, <1>a, <1>c, <1>d, <1>e, Unwritten DEF TablesInv, Registered
<1>g. /\ DOMAIN txn' = Requests /\ txn'[r] = Idle
      /\ \A q \in Requests \ {r} : Ages(txn[q], txn'[q])
  BY <1>6, EndAges
<1>h. \A v \in Users : Registered(v) => Registered(v)'
  BY <1>a DEF Registered
<1>i. Len(mails) <= Len(mails')
  BY <1>6, Unwritten
<1> QED BY <1>c, <1>f, <1>g, <1>h, <1>i, EndType

(* A mail more, or one of another state; nothing else is written.          *)
LEMMA MailsTables ==
  ASSUME TypeInv, UNCHANGED <<offered, users, sessions, events, revokeAlls>>,
         mails' \in Seq(Mail), Len(mails) <= Len(mails'),
         \A m \in DOMAIN mails' : Registered(mails'[m].user)
  PROVE  /\ TablesInv' /\ \A u \in Users : Registered(u) => Registered(u)'
         /\ DOMAIN sessions \subseteq DOMAIN sessions'
<1>1. \A v : Registered(v)' <=> Registered(v)
  BY DEF Registered
<1>2. Len(mails') \in Nat
  OBVIOUS
<1> QED BY <1>1, <1>2, Unwritten DEF TablesInv

(* A mailed token is newer than any other, and the request's to store. *)
LEMMA SendType ==
  ASSUME TypeInv, NEW r \in Requests,
         SendPasswordResetEmail(r) \/ SendEmailVerificationEmail(r)
  PROVE  TypeInv'
<1>1. PICK t : t = txn[r]
  OBVIOUS
<1>2. PICK m : m = Len(mails) + 1
  OBVIOUS
<1>3. PICK kind \in {"reset", "verification"} :
        /\ kind = "reset" => t.op = "forgotPassword"
        /\ kind = "verification" => t.op = "sendVerification"
        /\ SendMail(r, kind, kind)
  BY <1>1 DEF SendPasswordResetEmail, SendEmailVerificationEmail
<1>4. /\ t.phase = "read" /\ t.op \in Mailers /\ Asks(t) /\ Knows(t) /\ Wants(t)
      /\ t.user \in Users /\ Registered(t.user) /\ t.row \in UserRow /\ t.view \in UserRow
  <2>1. t.phase = "read" /\ t.op \in Mailers /\ t.op \notin {"none", "signup"}
    BY <1>1 DEF SendPasswordResetEmail, SendEmailVerificationEmail, Mailers
  <2>2. t.op \in Updaters /\ t.phase \in InRow
    BY <2>1 DEF Updaters, InRow
  <2> QED BY <1>1, <2>1, <2>2 DEF TypeInv, Asks, Knows
<1>5. PICK mail : mail = [user |-> t.user, kind |-> kind, sent |-> "PENDING",
                          expired |-> FALSE, uses |-> 0, crossed |-> FALSE]
  OBVIOUS
<1>6. mail \in Mail /\ mail.user = t.user
  BY <1>4, <1>5 DEF Mail
<1>7. mails' = Append(mails, mail) /\ UNCHANGED <<offered, users, sessions, events, revokeAlls>>
  BY <1>1, <1>3, <1>5 DEF SendMail
<1>8. /\ mails' \in Seq(Mail) /\ Len(mails') = m /\ m \in Nat /\ Len(mails) \in Nat
      /\ Len(mails) < m /\ \A i \in DOMAIN mails' : Registered(mails'[i].user)
  <2>1. /\ mails' \in Seq(Mail) /\ Len(mails') = m /\ m \in Nat /\ DOMAIN mails' = 1 .. Len(mails) + 1
        /\ \A i \in 1 .. Len(mails) : mails'[i] = mails[i]
        /\ mails'[Len(mails) + 1] = mail
    BY <1>2, <1>6, <1>7, Unwritten
  <2> QED BY <1>2, <1>4, <1>6, <2>1, Unwritten
<1>9. PICK row : row = [t.row EXCEPT ![kind] = m]
  OBVIOUS
<1>0. PICK x : x = txn'[r]
  OBVIOUS
<1>a. DOMAIN t = DOMAIN Idle
  BY <1>4 DEF Asks
<1>b. /\ DOMAIN txn' = DOMAIN txn /\ \A q \in Requests \ {r} : txn'[q] = txn[q]
      /\ DOMAIN x = DOMAIN t /\ x.phase = "flushed" /\ x.target = m /\ x.row = row
      /\ \A f \in DOMAIN t \ {"phase", "target", "row"} : x[f] = t[f]
  <2>1. txn' = [txn EXCEPT ![r].phase = "flushed", ![r].target = m, ![r].row[kind] = m]
    BY <1>2, <1>3 DEF SendMail
  <2>2. r \in DOMAIN txn
    BY DEF TypeInv
  <2>3. /\ DOMAIN txn' = DOMAIN txn /\ \A q \in Requests \ {r} : txn'[q] = txn[q]
    BY <2>1 DEF TypeInv
  <2>4. x = [t EXCEPT !.phase = "flushed", !.target = m, !.row[kind] = m]
    BY <1>0, <1>1, <2>1, <2>2
  <2>5. DOMAIN x = DOMAIN t /\ x.phase = "flushed" /\ x.target = m /\ x.row = row
    BY <1>9, <1>a, <2>4 DEF Idle
  <2>6. \A f \in DOMAIN t \ {"phase", "target", "row"} : x[f] = t[f]
    BY <2>4
  <2> QED BY <2>3, <2>5, <2>6
<1>c. /\ row \in UserRow /\ row.status = t.row.status /\ row.name = t.row.name
      /\ row.password = t.row.password
      /\ row.reset = IF kind = "reset" THEN m ELSE t.row.reset
      /\ row.verification = IF kind = "verification" THEN m ELSE t.row.verification
  BY <1>4, <1>8, <1>9 DEF UserRow
<1>d. /\ DOMAIN x = DOMAIN Idle /\ x.phase = "flushed" /\ x.target = m /\ x.row = row
      /\ x.op = t.op /\ x.user = t.user /\ x.own = t.own /\ x.view = t.view
      /\ x.usesRead = t.usesRead /\ x.doomed = t.doomed
  BY <1>a, <1>b DEF Idle
<1>e. Marked(x)
  <2>1. Marked(t)
    BY <1>4 DEF Asks
  <2>2. {"overtaken", "overlap"} \subseteq DOMAIN t \ {"phase", "target", "row"}
    BY <1>a DEF Idle
  <2> QED BY <1>b, <2>1, <2>2, Zenon DEF Marked
<1>f. t.view.reset <= Len(mails) /\ t.view.verification <= Len(mails)
  BY <1>4 DEF Knows, Updaters, InRow
<1>g. Wants(x)
  <2>1. t.view.reset \in Nat /\ t.view.verification \in Nat
    BY <1>4 DEF UserRow
  <2>2. t.view.reset < m /\ t.view.verification < m
    BY <1>8, <1>f, <2>1
  <2> QED BY <1>3, <1>4, <1>c, <1>d, <2>2 DEF Wants, Mailers, Complete
<1>h. Asks(x)
  <2>1. x.op \in Operation /\ x.op \in Updaters /\ x.op # "signup"
    BY <1>4, <1>d DEF Mailers, Operation, Updaters
  <2> QED BY <1>4, <1>8, <1>c, <1>d, <1>e, <1>g, <2>1, ReaderAsks DEF InRow, Asks
<1>i. TablesInv' /\ (\A u \in Users : Registered(u) => Registered(u)')
      /\ DOMAIN sessions \subseteq DOMAIN sessions'
  BY <1>7, <1>8, MailsTables
<1>j. txn'[r] = x /\ DOMAIN txn' = Requests /\ \A q \in Requests \ {r} : Ages(txn[q], txn'[q])
  BY <1>0, <1>b DEF TypeInv, Ages
<1>k. x.op \notin Enders \cup {"refresh"} /\ t.op # "none" /\ t.op # "signup"
  BY <1>4, <1>d DEF Mailers, Enders
<1>l. Knows(txn[r])'
  <2>1. x.doomed \subseteq DOMAIN sessions /\ (x.op \in Guarded => x.own \in DOMAIN sessions)
    BY <1>4, <1>d DEF Knows
  <2>2. x.view.reset <= Len(mails') /\ x.view.verification <= Len(mails')
    <3>1. t.view.reset \in Nat /\ t.view.verification \in Nat
      BY <1>4 DEF UserRow
    <3> QED BY <1>8, <1>d, <1>f, <3>1
  <2>3. x.target <= Len(mails')
    BY <1>8, <1>d
  <2> QED BY <1>4, <1>7, <1>d, <1>j, <1>k, <2>1, <2>2, <2>3 DEF Knows, Registered
<1>m. Asks(txn[r])'
  BY <1>h, <1>j
<1> QED BY <1>8, <1>i, <1>j, <1>l, <1>m, TypeStep

(* A request that fails, and a token that expires, only change mails.      *)
LEMMA LostType ==
  ASSUME TypeInv, (\E r \in Requests : Fail(r)) \/ (\E m \in DOMAIN mails : ExpireToken(m))
  PROVE  TypeInv'
<1>1. ASSUME NEW x \in Seq(Mail), mails' = x, DOMAIN x = DOMAIN mails,
             \A m \in DOMAIN mails : x[m].user = mails[m].user,
             UNCHANGED <<offered, users, sessions, events, revokeAlls>>
      PROVE  /\ TablesInv' /\ \A u \in Users : Registered(u) => Registered(u)'
             /\ DOMAIN sessions \subseteq DOMAIN sessions' /\ Len(mails') = Len(mails)
             /\ Len(mails) \in Nat
  <2>1. \A m \in DOMAIN mails' : Registered(mails'[m].user)
    BY <1>1, Unwritten
  <2>2. Len(mails') = Len(mails) /\ Len(mails) \in Nat
    BY <1>1, Unwritten
  <2> QED BY <1>1, <2>1, <2>2, MailsTables
<1>2. ASSUME NEW r \in Requests, Fail(r)
      PROVE  TypeInv'
  <2>1. PICK x : x = mails'
    OBVIOUS
  <2>2. PICK gone : gone = {m \in DOMAIN mails :
                     /\ mails[m].sent = "PENDING" /\ txn[r].phase = "flushed" /\ txn[r].target = m
                     /\ txn[r].op \in {"forgotPassword", "sendVerification"}}
    OBVIOUS
  <2>3. x = [m \in DOMAIN mails |->
               IF m \in gone THEN [mails[m] EXCEPT !.sent = "LOST"] ELSE mails[m]]
    BY <1>2, <2>1, <2>2 DEF Fail
  <2>4. ASSUME NEW m \in DOMAIN mails
        PROVE  x[m] \in Mail /\ x[m].user = mails[m].user
    <3>1. PICK row \in Mail : row = mails[m]
      BY MailsAre
    <3>2. PICK y : y = x[m]
      OBVIOUS
    <3>3. y = IF m \in gone THEN [row EXCEPT !.sent = "LOST"] ELSE row
      BY <2>3, <3>1, <3>2
    <3>4. CASE m \in gone
      BY <3>1, <3>2, <3>3, <3>4, MailSent
    <3>5. CASE m \notin gone
      BY <3>1, <3>2, <3>3, <3>5
    <3> QED BY <3>4, <3>5
  <2>5. x \in Seq(Mail) /\ DOMAIN x = DOMAIN mails
    BY <2>3, <2>4, Unwritten
  <2>6. UNCHANGED <<offered, users, sessions, events, revokeAlls>> /\ txn' = [txn EXCEPT ![r] = Idle]
    BY <1>2 DEF Fail
  <2>7. /\ TablesInv' /\ \A u \in Users : Registered(u) => Registered(u)'
        /\ DOMAIN sessions \subseteq DOMAIN sessions' /\ Len(mails') = Len(mails)
        /\ Len(mails) \in Nat
    BY <1>1, <2>1, <2>4, <2>5, <2>6
  <2>8. /\ DOMAIN txn' = Requests /\ txn'[r] = Idle
        /\ \A q \in Requests \ {r} : Ages(txn[q], txn'[q])
    BY <2>6 DEF TypeInv, Ages
  <2> QED BY <2>7, <2>8, EndType
<1>3. ASSUME NEW m \in DOMAIN mails, ExpireToken(m)
      PROVE  TypeInv'
  <2>1. PICK row \in Mail : row = mails[m]
    BY MailsAre
  <2>2. PICK y : y = [row EXCEPT !.expired = TRUE]
    OBVIOUS
  <2>3. y \in Mail /\ y.user = row.user
    BY <2>2, MailExpired
  <2>4. mails' = [mails EXCEPT ![m] = y] /\ UNCHANGED <<offered, users, sessions, events, txn, revokeAlls>>
    BY <1>3, <2>1, <2>2 DEF ExpireToken
  <2>5. PICK x : x = [mails EXCEPT ![m] = y]
    OBVIOUS
  <2>6. /\ x \in Seq(Mail) /\ DOMAIN x = DOMAIN mails
        /\ \A i \in DOMAIN mails : x[i].user = mails[i].user
    BY <2>1, <2>3, <2>5, Unwritten
  <2>7. TablesInv' /\ Len(mails') = Len(mails)
    BY <1>1, <2>4, <2>5, <2>6
  <2>8. \A q \in Requests : Asks(txn[q])' /\ Knows(txn[q])'
    BY <2>4, <2>7 DEF TypeInv, Knows, Registered
  <2> QED BY <2>4, <2>7, <2>8 DEF TypeInv
<1> QED BY <1>2, <1>3

(* Nobody has signed up, and every request is idle.                        *)
LEMMA TypeInit == Init => TypeInv
<1> SUFFICES ASSUME Init PROVE TypeInv
  OBVIOUS
<1>1. /\ users = [u \in Users |-> NoUser] /\ sessions = <<>> /\ mails = <<>> /\ events = <<>>
      /\ txn = [r \in Requests |-> Idle] /\ revokeAlls = [u \in Users |-> 0]
      /\ offered \subseteq Operation
  BY OffersAssumption DEF Init
<1>2. NoUser \in UserRow /\ NoUser.status = "NONE" /\ NoUser.reset = 0 /\ NoUser.verification = 0
  BY DEF NoUser, UserRow
<1>3. TablesInv
  BY <1>1, <1>2 DEF TablesInv, Registered
<1>4. Knows(Idle)
  BY RequestsAre DEF Knows, Guarded, Enders, Updaters, Mailers
<1> QED BY <1>1, <1>3, <1>4, RequestsAre DEF TypeInv

(* A step that changes none of the variables keeps the types.              *)
LEMMA TypeStays ==
  ASSUME TypeInv, UNCHANGED idVars
  PROVE  TypeInv'
<1>1. UNCHANGED <<offered, users, sessions, mails, events, txn, revokeAlls>>
  BY DEF idVars
<1>2. TablesInv'
  BY <1>1 DEF TypeInv, TablesInv, Registered, Complete
<1>3. \A q \in Requests : Asks(txn[q])' /\ Knows(txn[q])'
  BY <1>1 DEF TypeInv, Knows, Registered
<1> QED BY <1>1, <1>2, <1>3 DEF TypeInv

(* Every action keeps the types.                                           *)
LEMMA TypeNext ==
  ASSUME TypeInv, Next
  PROVE  TypeInv'
<1>1. ASSUME NEW r \in Requests,
             \/ \E u \in Users : Signup(r, u) \/ Login(r, u) \/ ForgotPassword(r, u)
             \/ \E s \in DOMAIN sessions : RefreshToken(r, s) \/ \E op \in Guarded : Validate(r, op, s)
             \/ \E u \in Users, m \in DOMAIN mails : ResetPassword(r, u, m) \/ VerifyEmail(r, u, m)
      PROVE  TypeInv'
  BY <1>1, StartType, RefreshTokenType, ValidateType, UseTokenType
<1>2. ASSUME NEW r \in Requests,
             \/ \E s \in DOMAIN sessions : RevokeSession(r, s)
             \/ Logout(r) \/ LogoutAllDevices(r) \/ ChangePassword(r)
             \/ UpdateProfile(r) \/ SendVerificationEmail(r)
             \/ FlushPassword(r) \/ RevokeAllByUserId(r) \/ FlushProfile(r)
             \/ SendPasswordResetEmail(r) \/ SendEmailVerificationEmail(r)
      PROVE  TypeInv'
  BY <1>2, ReadType, FlushType, SendType
<1>3. ASSUME NEW r \in Requests,
             \/ CommitLogin(r) \/ CommitRefresh(r) \/ CommitEndSession(r) \/ CommitLogoutAll(r)
             \/ LogoutAgain(r)
      PROVE  TypeInv'
  BY <1>3, SessionsType
<1>4. ASSUME NEW r \in Requests,
             \/ CommitSignup(r) \/ CommitPassword(r) \/ CommitMail(r)
             \/ CommitUpdateProfile(r) \/ CommitVerifyEmail(r) \/ Fail(r)
      PROVE  TypeInv'
  BY <1>4, CommitSignupType, SaversType, LostType
<1>5. CASE \E s \in DOMAIN sessions : ExpireSession(s)
  BY <1>5, ExpireType
<1>6. CASE \E m \in DOMAIN mails : ExpireToken(m)
  BY <1>6, LostType
<1> QED BY <1>1, <1>2, <1>3, <1>4, <1>5, <1>6 DEF Next

(* The variables of accounts and sessions always hold rows of their        *)
(* tables, and a request holds what its handler can have read.             *)
THEOREM IdentityTypeOK == Spec => []TypeOK
<1>1. TypeInv => TypeOK
  <2> SUFFICES ASSUME TypeInv PROVE TypeOK
    OBVIOUS
  <2>1. \A u \in Users :
          /\ Registered(u) => users[u].password \in Passwords /\ users[u].name \in Names
          /\ {users[u].reset, users[u].verification} \subseteq 0 .. Len(mails)
    <3> SUFFICES ASSUME NEW u \in Users
                 PROVE  /\ Registered(u) => users[u].password \in Passwords /\ users[u].name \in Names
                        /\ {users[u].reset, users[u].verification} \subseteq 0 .. Len(mails)
      OBVIOUS
    <3> QED BY RowsAre DEF Complete
  <2>2. \A s \in DOMAIN sessions : sessions[s] \in SessionRow
    BY SessionsAre
  <2>3. \A m \in DOMAIN mails : mails[m] \in Mail
    BY MailsAre
  <2>4. \A e \in DOMAIN events : events[e] \in Event
    BY Unwritten
  <2>5. \A r \in Requests :
          /\ DOMAIN txn[r] = DOMAIN Idle
          /\ txn[r].op \in Operation \cup {"none"}
          /\ txn[r].phase \in {"idle", "guarded", "read", "flushed"}
          /\ txn[r].doomed \subseteq DOMAIN sessions
    BY DEF TypeInv, Asks, Knows, InRow
  <2> QED BY <2>1, <2>2, <2>3, <2>4, <2>5, Unwritten DEF TypeOK
<1>2. TypeInv /\ [Next]_idVars => TypeInv'
  BY TypeStays, TypeNext
<1> QED BY <1>1, <1>2, TypeInit, PTL DEF Spec
-----------------------------------------------------------------------------
(* What a handler that saves the row of its user has in hand.              *)
LEMMA SaverIs ==
  ASSUME TypeInv, NEW r \in Requests, NEW t, t = txn[r], NEW u, u = t.user,
         CommitPassword(r) \/ CommitMail(r) \/ CommitUpdateProfile(r) \/ CommitVerifyEmail(r)
  PROVE  /\ t.phase = "flushed" /\ t.op \in Updaters /\ t.op # "signup" /\ t.op # "none"
         /\ t.row \in UserRow /\ t.view \in UserRow
         /\ Wants(t) /\ u \in Users /\ Registered(u) /\ users[u] \in UserRow
         /\ users' = [users EXCEPT ![u] = SaveUser(@, t.view, t.row)]
         /\ \/ txn' = [q \in Requests |-> IF q = r THEN Idle ELSE txn[q]]
            \/ /\ t.op \in {"updateProfile", "verifyEmail"}
               /\ txn' = [q \in Requests |-> IF q = r THEN Idle ELSE SeesOldProfile(u, txn[q])]
<1>1. t.phase = "flushed" /\ t.op \in Updaters /\ t.op # "none" /\ t.op # "signup"
  BY DEF CommitPassword, CommitMail, CommitUpdateProfile, CommitVerifyEmail, Ready,
         Updaters, Mailers
<1>2. t.row \in UserRow /\ t.view \in UserRow /\ Wants(t) /\ u \in Users /\ Registered(u)
  BY <1>1 DEF TypeInv, Asks, Knows, InRow
<1>3. users[u] \in UserRow
  BY <1>2, RowsAre
<1>4. users' = [users EXCEPT ![u] = SaveUser(@, t.view, t.row)]
  BY DEF CommitPassword, CommitMail, CommitUpdateProfile, CommitVerifyEmail
<1>5. \/ txn' = [q \in Requests |-> IF q = r THEN Idle ELSE txn[q]]
      \/ /\ t.op \in {"updateProfile", "verifyEmail"}
         /\ txn' = [q \in Requests |-> IF q = r THEN Idle ELSE SeesOldProfile(u, txn[q])]
  BY DEF CommitPassword, CommitMail, CommitUpdateProfile, CommitVerifyEmail, Ready, End
<1> QED BY <1>1, <1>2, <1>3, <1>4, <1>5

(* The row of its user is merged, and the others are left.                 *)
LEMMA SavedRow ==
  ASSUME TypeInv, NEW t, NEW u \in Users, t.row \in UserRow, t.view \in UserRow,
         users' = [users EXCEPT ![u] = SaveUser(@, t.view, t.row)]
  PROVE  /\ users'[u].status = IF t.row.status # t.view.status THEN t.row.status ELSE users[u].status
         /\ users'[u].name = IF t.row.name # t.view.name THEN t.row.name ELSE users[u].name
         /\ users'[u].reset = IF t.row.reset # t.view.reset THEN t.row.reset ELSE users[u].reset
         /\ users'[u].verification =
              IF t.row.verification # t.view.verification THEN t.row.verification
              ELSE users[u].verification
         /\ \A v \in Users : v # u => users'[v] = users[v]
<1>1. users \in [Users -> UserRow] /\ users[u] \in UserRow
  BY Unwritten
<1>2. PICK x : x = Merge(users[u], t.view, t.row)
  OBVIOUS
<1>3. users' = [users EXCEPT ![u] = x]
  BY <1>2 DEF SaveUser
<1>4. /\ x.status = IF t.row.status # t.view.status THEN t.row.status ELSE users[u].status
      /\ x.name = IF t.row.name # t.view.name THEN t.row.name ELSE users[u].name
      /\ x.reset = IF t.row.reset # t.view.reset THEN t.row.reset ELSE users[u].reset
      /\ x.verification =
           IF t.row.verification # t.view.verification THEN t.row.verification
           ELSE users[u].verification
  BY <1>1, <1>2, MergeIs
<1>5. users'[u] = x /\ \A v \in Users : v # u => users'[v] = users[v]
  BY <1>1, <1>3
<1> QED BY <1>4, <1>5

(* The other steps write no row of users, but for a signup. *)
LEMMA UsersAreSaved ==
  ASSUME [Next]_idVars
  PROVE  \/ users' = users
         \/ \E r \in Requests :
              \/ CommitSignup(r) \/ CommitPassword(r) \/ CommitMail(r)
              \/ CommitUpdateProfile(r) \/ CommitVerifyEmail(r)
<1>1. ASSUME NEW r \in Requests,
             \/ \E u \in Users : Signup(r, u) \/ Login(r, u) \/ ForgotPassword(r, u)
             \/ \E s \in DOMAIN sessions :
                  \/ RefreshToken(r, s) \/ RevokeSession(r, s)
                  \/ \E op \in Guarded : Validate(r, op, s)
             \/ \E u \in Users, m \in DOMAIN mails : ResetPassword(r, u, m) \/ VerifyEmail(r, u, m)
             \/ Logout(r) \/ LogoutAgain(r) \/ LogoutAllDevices(r) \/ ChangePassword(r)
             \/ UpdateProfile(r) \/ SendVerificationEmail(r) \/ Fail(r)
             \/ FlushPassword(r) \/ RevokeAllByUserId(r) \/ FlushProfile(r)
      PROVE  users' = users
  BY <1>1 DEF Signup, Login, ForgotPassword, RefreshToken, RevokeSession, Validate, ResetPassword,
              VerifyEmail, Logout, LogoutAgain, LogoutAllDevices, ChangePassword, UpdateProfile,
              SendVerificationEmail, Fail, FlushPassword, RevokeAllByUserId, FlushProfile,
              Start, Read, Keep, tables
<1>2. ASSUME NEW r \in Requests,
             \/ SendPasswordResetEmail(r) \/ SendEmailVerificationEmail(r)
             \/ CommitLogin(r) \/ CommitRefresh(r) \/ CommitEndSession(r) \/ CommitLogoutAll(r)
      PROVE  users' = users
  BY <1>2 DEF SendPasswordResetEmail, SendEmailVerificationEmail, SendMail, CommitLogin,
              CommitRefresh, CommitEndSession, CommitLogoutAll
<1>3. (\E s \in DOMAIN sessions : ExpireSession(s)) \/ (\E m \in DOMAIN mails : ExpireToken(m))
        => users' = users
  BY DEF ExpireSession, ExpireToken
<1>4. UNCHANGED idVars => users' = users
  BY DEF idVars
<1> QED BY <1>1, <1>2, <1>3, <1>4 DEF Next

(* A verified address stays verified: what any handler saves of a row, it  *)
(* saves by column, and none wants another status than the one it read but *)
(* the verification itself.                                                *)
THEOREM AddressesStayVerified == Spec => VerifiedStays
<1>1. ASSUME TypeInv, [Next]_idVars
      PROVE  [\A u \in Users : users[u].status = "ACTIVE" => users'[u].status = "ACTIVE"]_users
  <2> SUFFICES ASSUME NEW u \in Users, users[u].status = "ACTIVE"
               PROVE  users'[u].status = "ACTIVE" \/ users' = users
    OBVIOUS
  <2>1. ASSUME NEW r \in Requests, CommitSignup(r)
        PROVE  users'[u].status = "ACTIVE"
    <3>1. ~Registered(txn[r].user) /\ users' = [users EXCEPT ![txn[r].user] = txn[r].row]
      BY <2>1 DEF CommitSignup
    <3> QED BY <1>1, <3>1, Unwritten DEF Registered
  <2>2. ASSUME NEW r \in Requests,
               CommitPassword(r) \/ CommitMail(r) \/ CommitUpdateProfile(r) \/ CommitVerifyEmail(r)
        PROVE  users'[u].status = "ACTIVE"
    <3>1. PICK t : t = txn[r]
      OBVIOUS
    <3>2. PICK v : v = t.user
      OBVIOUS
    <3>3. /\ t.row \in UserRow /\ t.view \in UserRow /\ Wants(t) /\ v \in Users
          /\ users' = [users EXCEPT ![v] = SaveUser(@, t.view, t.row)]
      BY <1>1, <2>2, <3>1, <3>2, SaverIs
    <3>4. /\ users'[v].status = IF t.row.status # t.view.status THEN t.row.status ELSE users[v].status
          /\ \A w \in Users : w # v => users'[w] = users[w]
      BY <1>1, <3>3, SavedRow
    <3>5. t.row.status = t.view.status \/ t.row.status = "ACTIVE"
      BY <3>3 DEF Wants
    <3> QED BY <3>3, <3>4, <3>5
  <2> QED BY <1>1, <2>1, <2>2, UsersAreSaved
<1>2. TypeInv /\ [Next]_idVars => TypeInv'
  BY TypeStays, TypeNext
<1> QED BY <1>1, <1>2, TypeInit, PTL DEF Spec, VerifiedStays
-----------------------------------------------------------------------------
(* Sessions.  What a step leaves of them when it issues none.              *)
Quieter ==
  /\ DOMAIN sessions' = DOMAIN sessions
  /\ \A s \in DOMAIN sessions :
       /\ sessions'[s].user = sessions[s].user /\ sessions'[s].parent = sessions[s].parent
       /\ sessions'[s].excused = sessions[s].excused
       /\ IsActive(s)' => IsActive(s)

(* What a commit of another request leaves of one.                         *)
LEMMA AgesAre ==
  ASSUME NEW x, NEW y, DOMAIN x = DOMAIN Idle, Ages(x, y)
  PROVE  /\ DOMAIN y = DOMAIN Idle /\ y.op = x.op /\ y.phase = x.phase /\ y.user = x.user
         /\ y.own = x.own /\ y.target = x.target /\ y.view = x.view /\ y.row = x.row
         /\ y.doomed = x.doomed /\ y.usesRead = x.usesRead
  BY DEF Ages, Idle

(* A session that is active has not been exchanged. *)
LEMMA ActiveIsChildless ==
  ASSUME TypeInv, ParentsRest, NEW s, IsActive(s)
  PROVE  Childless(s)
<1>1. s \in DOMAIN sessions /\ s # 0
  BY SessionsAre DEF IsActive
<1> QED BY <1>1 DEF ParentsRest, Childless

(* A request that ends a session does so still, or has been told. *)
LEMMA AgesEnds ==
  ASSUME NEW x, NEW y, Asks(x), Knows(x), Ages(x, y), Ends(x),
         \A s \in DOMAIN sessions : Childless(s) => Childless(s)'
  PROVE  Ends(y)'
<1>1. DOMAIN x = DOMAIN Idle /\ y.op = x.op /\ y.phase = x.phase /\ y.own = x.own /\ y.target = x.target
  BY AgesAre DEF Asks
<1>2. y.overtaken \/ (y.overtaken <=> x.overtaken)
  BY <1>1, Zenon DEF Ages, Idle
<1>3. /\ x.op \in Enders /\ x.phase = "read" => x.target \in DOMAIN sessions
      /\ x.op = "logout" => x.own \in DOMAIN sessions
  BY DEF Knows, Guarded
<1> QED BY <1>1, <1>2, <1>3, Zenon DEF Ends

(* One that ends none has nothing to be told. *)
LEMMA NotEnding ==
  ASSUME NEW x, x.op \notin Enders \/ (x.phase # "read" /\ x.op # "logout")
  PROVE  Ends(x) /\ Ends(x)'
  BY DEF Ends, Enders

(* While one request takes a step, the others that end a session do so     *)
(* still.                                                                  *)
LEMMA OthersEnd ==
  ASSUME TypeInv, \A q \in Requests : Ends(txn[q]), NEW r \in Requests, DOMAIN txn' = Requests,
         \A q \in Requests \ {r} : Ages(txn[q], txn'[q]),
         \A s \in DOMAIN sessions : Childless(s) => Childless(s)',
         NEW z, z = txn'[r], Ends(z)'
  PROVE  \A q \in Requests : Ends(txn[q])'
<1> SUFFICES ASSUME NEW q \in Requests, q # r PROVE Ends(txn[q])'
  BY DEF Ends
<1>1. PICK x : x = txn[q]
  OBVIOUS
<1>2. PICK y : y = txn'[q]
  OBVIOUS
<1>3. Asks(x) /\ Knows(x) /\ Ends(x) /\ Ages(x, y)
  BY <1>1, <1>2 DEF TypeInv
<1>4. Ends(y)'
  BY <1>3, AgesEnds
<1> QED BY <1>2, <1>4 DEF Ends

(* The revocations that miss a session are finitely many, and only those   *)
(* that start after the session was there, or end, do not stay.            *)
LEMMA MissingIs ==
  ASSUME TypeInv, NEW s \in DOMAIN sessions
  PROVE  IsFiniteSet(Missing(s)) /\ Cardinality(Missing(s)) \in Nat
<1>1. Missing(s) \subseteq Requests
  BY DEF Missing, Flushing
<1> QED BY <1>1, IdentityAssumption, FS_Subset, FS_CardinalityType

(* A step that misses no session itself leaves no more revocations that    *)
(* miss one.                                                               *)
LEMMA MissingShrinks ==
  ASSUME TypeInv, NEW r \in Requests, DOMAIN txn' = Requests,
         \A q \in Requests \ {r} : Ages(txn[q], txn'[q]),
         NEW s \in DOMAIN sessions, sessions'[s].user = sessions[s].user,
         NEW y, y = txn'[r],
         y.phase = "flushed" /\ y.op \in Revokers /\ y.user = sessions[s].user => s \in y.doomed
  PROVE  Missing(s)' \subseteq Missing(s) \ {r} /\ Cardinality(Missing(s)') <= Cardinality(Missing(s))
<1>1. ASSUME NEW q \in Missing(s)'
      PROVE  q \in Missing(s) \ {r}
  <2>1. /\ q \in Requests /\ txn'[q].phase = "flushed" /\ txn'[q].user = sessions[s].user
        /\ txn'[q].op \in Revokers /\ s \notin txn'[q].doomed
    BY <1>1 DEF Missing, Flushing
  <2>2. q # r
    BY <2>1
  <2>3. DOMAIN txn[q] = DOMAIN Idle
    BY <2>1 DEF TypeInv, Asks
  <2>4. PICK x : x = txn[q]
    OBVIOUS
  <2>5. PICK z : z = txn'[q]
    OBVIOUS
  <2>6. Ages(x, z) /\ DOMAIN x = DOMAIN Idle
    BY <2>1, <2>2, <2>3, <2>4, <2>5
  <2>7. z.phase = x.phase /\ z.user = x.user /\ z.op = x.op /\ z.doomed = x.doomed
    BY <2>6, AgesAre
  <2> QED BY <2>1, <2>2, <2>4, <2>5, <2>7 DEF Missing, Flushing
<1>2. Missing(s)' \subseteq Missing(s)
  BY <1>1
<1>3. Cardinality(Missing(s)') <= Cardinality(Missing(s))
  BY <1>2, MissingIs, FS_Subset
<1> QED BY <1>1, <1>3

(* A step that issues no session keeps the parents, and leaves a session   *)
(* without a child without one.                                            *)
LEMMA QuietParents ==
  ASSUME ParentsRest, ExchangedOnce, Quieter
  PROVE  ParentsRest' /\ ExchangedOnce' /\ \A s \in DOMAIN sessions : Childless(s) => Childless(s)'
<1>1. \A s \in DOMAIN sessions' : s \in DOMAIN sessions /\ sessions'[s].parent = sessions[s].parent
  BY DEF Quieter
<1>2. ParentsRest'
  BY <1>1 DEF ParentsRest, Quieter
<1>3. ExchangedOnce'
  BY <1>1 DEF ExchangedOnce
<1>4. \A s \in DOMAIN sessions : Childless(s) => Childless(s)'
  BY <1>1 DEF Childless
<1> QED BY <1>2, <1>3, <1>4

(* Such a step leaves every active session as many revocations that it     *)
(* has not seen, or fewer.                                                 *)
LEMMA QuietCounted ==
  ASSUME TypeInv, RevocationsCounted, Quieter, revokeAlls' = revokeAlls,
         NEW r \in Requests, DOMAIN txn' = Requests,
         \A q \in Requests \ {r} : Ages(txn[q], txn'[q]),
         NEW y, y = txn'[r],
         y.phase = "flushed" /\ y.op \in Revokers => ActiveSessions(y.user) \subseteq y.doomed
  PROVE  RevocationsCounted'
<1> SUFFICES ASSUME NEW s \in DOMAIN sessions', IsActive(s)'
             PROVE  sessions'[s].excused
                      >= revokeAlls'[sessions'[s].user] + Cardinality(Missing(s)')
  BY DEF RevocationsCounted
<1>1. /\ s \in DOMAIN sessions /\ IsActive(s) /\ sessions'[s].user = sessions[s].user
      /\ sessions'[s].excused = sessions[s].excused
  BY DEF Quieter
<1>2. y.phase = "flushed" /\ y.op \in Revokers /\ y.user = sessions[s].user => s \in y.doomed
  BY <1>1 DEF ActiveSessions
<1>3. Cardinality(Missing(s)') <= Cardinality(Missing(s))
  BY <1>1, <1>2, MissingShrinks
<1>4. /\ sessions[s] \in SessionRow /\ sessions[s].user \in Users
      /\ IsFiniteSet(Missing(s)) /\ Cardinality(Missing(s)) \in Nat
  BY <1>1, SessionsAre, MissingIs
<1>5. sessions[s].excused \in Nat /\ revokeAlls[sessions[s].user] \in Nat
  BY <1>4, Unwritten DEF SessionRow
<1>6. sessions[s].excused >= revokeAlls[sessions[s].user] + Cardinality(Missing(s))
  BY <1>1 DEF RevocationsCounted
<1>7. IsFiniteSet(Missing(s)') /\ Cardinality(Missing(s)') \in Nat
  <2>1. Missing(s)' \subseteq Missing(s)
    BY <1>1, <1>2, MissingShrinks
  <2> QED BY <1>4, <2>1, FS_Subset, FS_CardinalityType
<1> QED BY <1>1, <1>3, <1>4, <1>5, <1>6, <1>7

(* If such a step marks a session only when it has no child and is not     *)
(* active any more, then what has ended has no active successor.           *)
LEMMA QuietEnded ==
  ASSUME EndedForGood, Quieter,
         \/ \A s \in DOMAIN sessions : sessions'[s].ended = sessions[s].ended
         \/ \E e, t : /\ Marks(sessions', sessions, e, t)
                      /\ ~t.overtaken => Childless(e)
                      /\ ~IsActive(e)'
  PROVE  EndedForGood'
<1> SUFFICES ASSUME NEW s \in DOMAIN sessions', NEW c \in DOMAIN sessions', sessions'[s].ended,
                    c = s \/ sessions'[c].parent = s, IsActive(c)'
             PROVE  FALSE
  BY Zenon DEF EndedForGood
<1>1. s \in DOMAIN sessions /\ c \in DOMAIN sessions
  BY Zenon DEF Quieter
<1>2. sessions'[c].parent = sessions[c].parent /\ IsActive(c)
  BY <1>1, Zenon DEF Quieter
<1>3. ~sessions[s].ended
  BY <1>1, <1>2, Zenon DEF EndedForGood
<1>4. PICK e, t : Marks(sessions', sessions, e, t) /\ (~t.overtaken => Childless(e)) /\ ~IsActive(e)'
  BY <1>1, <1>3, Zenon
<1>5. s = e /\ Childless(e)
  BY <1>1, <1>3, <1>4, Zenon DEF Marks
<1>6. c # e
  BY <1>4, Zenon
<1> QED BY <1>1, <1>2, <1>5, <1>6, Zenon DEF Childless

(* So a step keeps it all that issues no session and revokes none wholesale. *)
LEMMA QuietSession ==
  ASSUME TypeInv, SessionInv, Quieter, EndedForGood', revokeAlls' = revokeAlls,
         NEW r \in Requests, DOMAIN txn' = Requests,
         \A q \in Requests \ {r} : Ages(txn[q], txn'[q]),
         NEW y, y = txn'[r], Ends(y)',
         y.phase = "flushed" /\ y.op \in Revokers => ActiveSessions(y.user) \subseteq y.doomed
  PROVE  SessionInv'
<1>1. ParentsRest' /\ ExchangedOnce' /\ \A s \in DOMAIN sessions : Childless(s) => Childless(s)'
  BY QuietParents DEF SessionInv
<1>2. \A q \in Requests : Ends(txn[q])'
  BY <1>1, OthersEnd DEF SessionInv
<1>3. RevocationsCounted'
  BY QuietCounted DEF SessionInv
<1> QED BY <1>1, <1>2, <1>3 DEF SessionInv

(* A step that does not touch sessions.                                    *)
LEMMA Untouched ==
  ASSUME TypeInv, SessionInv, UNCHANGED <<sessions, revokeAlls>>,
         NEW r \in Requests, DOMAIN txn' = Requests,
         \A q \in Requests \ {r} : Ages(txn[q], txn'[q]),
         NEW y, y = txn'[r], Ends(y),
         y.phase = "flushed" /\ y.op \in Revokers => ActiveSessions(y.user) \subseteq y.doomed
  PROVE  SessionInv'
<1>1. Quieter
  BY DEF Quieter, IsActive
<1>2. EndedForGood'
  BY <1>1, QuietEnded DEF SessionInv
<1>3. Ends(y)'
  <2>1. \A s : Childless(s) => Childless(s)'
    BY DEF Childless
  <2> QED BY <2>1, Zenon DEF Ends
<1> QED BY <1>1, <1>2, <1>3, QuietSession

(* A request that reads, or starts its statement.                          *)
LEMMA KeepSession ==
  ASSUME TypeInv, SessionInv, NEW r \in Requests, NEW t, Keep(r, t), Ends(t),
         t.phase = "flushed" /\ t.op \in Revokers => ActiveSessions(t.user) \subseteq t.doomed
  PROVE  SessionInv'
<1>1. UNCHANGED <<sessions, revokeAlls>> /\ txn' = [txn EXCEPT ![r] = t]
  BY DEF Keep, tables
<1>2. txn'[r] = t /\ DOMAIN txn' = Requests /\ \A q \in Requests \ {r} : Ages(txn[q], txn'[q])
  BY <1>1 DEF TypeInv, Ages
<1> QED BY <1>1, <1>2, Untouched

(* A request that starts without the guard ends no session yet.            *)
LEMMA StartSession ==
  ASSUME TypeInv, SessionInv, NEW r \in Requests, NEW op \in Operation \ Guarded, NEW u, NEW more,
         DOMAIN more \subseteq {"target", "row", "usesRead"}, Start(r, op, u, more)
  PROVE  SessionInv'
<1>1. PICK x : x = Begun(op, u, more)
  OBVIOUS
<1>2. x.op = op /\ x.phase = "read" /\ Keep(r, x)
  BY <1>1 DEF Begun, With, Idle, Start
<1>3. Ends(x)
  BY <1>2, NotEnding DEF Guarded, Enders
<1> QED BY <1>2, <1>3, KeepSession

(* A guarded request that reads has found the session it ends active.      *)
LEMMA ReadSession ==
  ASSUME TypeInv, SessionInv, NEW r \in Requests, NEW op \in Guarded, Entered(r, op), NEW more,
         DOMAIN more \subseteq {"target", "row"}, Read(r, more),
         op \in Enders => "target" \in DOMAIN more /\ IsActive(more.target),
         op = "logout" => IsActive(txn[r].own)
  PROVE  SessionInv'
<1>1. PICK x : x = Entering(r, more)
  OBVIOUS
<1>2. DOMAIN txn[r] = DOMAIN Idle /\ txn[r].op = op
  BY DEF TypeInv, Asks, Entered
<1>3. /\ x.op = op /\ x.phase = "read" /\ x.own = txn[r].own
      /\ "target" \in DOMAIN more => x.target = more.target
  BY <1>1, <1>2 DEF Entering, With, Idle
<1>4. Keep(r, x)
  BY <1>1 DEF Read, Entering
<1>5. Ends(x)
  BY <1>3, ActiveIsChildless DEF Ends, SessionInv
<1> QED BY <1>3, <1>4, <1>5, KeepSession

(* The requests that only read leave the sessions as they should be.       *)
LEMMA ReadersSession ==
  ASSUME TypeInv, SessionInv, NEW r \in Requests,
         \/ \E u \in Users : Signup(r, u) \/ Login(r, u) \/ ForgotPassword(r, u)
         \/ \E s \in DOMAIN sessions :
              \/ RefreshToken(r, s) \/ RevokeSession(r, s)
              \/ \E op \in Guarded : Validate(r, op, s)
         \/ \E u \in Users, m \in DOMAIN mails : ResetPassword(r, u, m) \/ VerifyEmail(r, u, m)
         \/ Logout(r) \/ LogoutAllDevices(r) \/ ChangePassword(r)
         \/ UpdateProfile(r) \/ SendVerificationEmail(r)
  PROVE  SessionInv'
<1>1. {"signup", "login", "forgotPassword", "refresh", "resetPassword", "verifyEmail"}
        \subseteq Operation \ Guarded
  BY DEF Operation, Guarded
<1>2. /\ {"logout", "logoutAll", "changePassword", "updateProfile", "sendVerification",
          "revokeSession"} \subseteq Guarded
      /\ {"logoutAll", "changePassword", "updateProfile", "sendVerification"} \cap Enders = {}
  BY DEF Guarded, Enders
<1>a. DOMAIN <<>> = {}
  OBVIOUS
<1>3. ASSUME NEW u \in Users, Signup(r, u)
      PROVE  SessionInv'
  <2>1. PICK p \in Passwords, n \in Names : Start(r, "signup", u, [row |-> NewUser(p, n)])
    BY <1>3 DEF Signup
  <2> QED BY <1>1, <2>1, StartSession
<1>4. ASSUME NEW u \in Users, Login(r, u) \/ ForgotPassword(r, u)
      PROVE  SessionInv'
  <2>1. Start(r, "login", u, <<>>) \/ Start(r, "forgotPassword", u, [row |-> users[u]])
    BY <1>4 DEF Login, ForgotPassword
  <2> QED BY <1>1, <1>a, <2>1, StartSession
<1>5. ASSUME NEW s \in DOMAIN sessions, RefreshToken(r, s)
      PROVE  SessionInv'
  <2>1. Start(r, "refresh", sessions[s].user, [target |-> s])
    BY <1>5 DEF RefreshToken
  <2> QED BY <1>1, <2>1, StartSession
<1>6. ASSUME NEW u \in Users, NEW m \in DOMAIN mails, ResetPassword(r, u, m) \/ VerifyEmail(r, u, m)
      PROVE  SessionInv'
  <2>1. \/ \E q \in Passwords :
             Start(r, "resetPassword", u,
               [target |-> m, usesRead |-> mails[m].uses,
                row |-> [users[u] EXCEPT !.password = q, !.reset = 0]])
        \/ Start(r, "verifyEmail", u,
             [target |-> m, usesRead |-> mails[m].uses,
              row |-> [users[u] EXCEPT !.status = "ACTIVE", !.verification = 0]])
    BY <1>6 DEF ResetPassword, VerifyEmail
  <2> QED BY <1>1, <2>1, StartSession
<1>7. ASSUME NEW s \in DOMAIN sessions, NEW op \in Guarded, Validate(r, op, s)
      PROVE  SessionInv'
  <2>1. PICK x : x = [Idle EXCEPT !.op = op, !.phase = "guarded", !.user = sessions[s].user, !.own = s]
    OBVIOUS
  <2>2. Keep(r, x) /\ IsActive(s)
    BY <1>7, <2>1 DEF Validate
  <2>3. x.phase = "guarded" /\ x.own = s
    BY <2>1 DEF Idle
  <2>4. Ends(x)
    BY <2>2, <2>3, ActiveIsChildless DEF Ends, SessionInv
  <2> QED BY <2>2, <2>3, <2>4, KeepSession
<1>8. ASSUME NEW s \in DOMAIN sessions, RevokeSession(r, s)
      PROVE  SessionInv'
  <2>1. Entered(r, "revokeSession") /\ IsActive(s) /\ Read(r, [target |-> s])
    BY <1>8 DEF RevokeSession
  <2> QED BY <1>2, <2>1, ReadSession
<1>9. CASE Logout(r)
  <2>1. Entered(r, "logout") /\ IsActive(txn[r].own) /\ Read(r, [target |-> txn[r].own])
    BY <1>9 DEF Logout
  <2> QED BY <1>2, <2>1, ReadSession
<1>b. CASE LogoutAllDevices(r) \/ ChangePassword(r) \/ SendVerificationEmail(r)
  <2>1. \/ Entered(r, "logoutAll") /\ Read(r, <<>>)
        \/ \E row : Entered(r, "changePassword") /\ Read(r, [row |-> row])
        \/ Entered(r, "sendVerification") /\ Read(r, [row |-> users[txn[r].user]])
    BY <1>b DEF LogoutAllDevices, ChangePassword, SendVerificationEmail
  <2> QED BY <1>2, <1>a, <2>1, ReadSession
<1>c. CASE UpdateProfile(r)
  <2>1. PICK target, row : Entered(r, "updateProfile") /\ Read(r, [target |-> target, row |-> row])
    BY <1>c DEF UpdateProfile
  <2> QED BY <1>2, <2>1, ReadSession
<1> QED BY <1>3, <1>4, <1>5, <1>6, <1>7, <1>8, <1>9, <1>b, <1>c

(* A request that flushes dooms every session its user has by then.        *)
LEMMA FlushersSession ==
  ASSUME TypeInv, SessionInv, NEW r \in Requests,
         \/ FlushPassword(r) \/ RevokeAllByUserId(r) \/ FlushProfile(r)
         \/ SendPasswordResetEmail(r) \/ SendEmailVerificationEmail(r)
  PROVE  SessionInv'
<1>1. DOMAIN txn[r] = DOMAIN Idle /\ r \in DOMAIN txn
  BY DEF TypeInv, Asks
<1>2. CASE FlushPassword(r) \/ RevokeAllByUserId(r)
  <2>1. PICK x : x = [txn[r] EXCEPT !.phase = "flushed", !.doomed = ActiveSessions(txn[r].user)]
    OBVIOUS
  <2>2. /\ Keep(r, x) /\ x.user = txn[r].user /\ x.doomed = ActiveSessions(txn[r].user)
        /\ x.op \notin Enders
    BY <1>1, <1>2, <2>1 DEF FlushPassword, RevokeAllByUserId, FlushUser, Idle, Enders
  <2>3. Ends(x)
    BY <2>2, NotEnding
  <2> QED BY <2>2, <2>3, KeepSession
<1>3. CASE FlushProfile(r)
  <2>1. PICK x : x = [txn[r] EXCEPT !.phase = "flushed"]
    OBVIOUS
  <2>2. Keep(r, x) /\ x.op \notin Enders \cup Revokers
    BY <1>1, <1>3, <2>1 DEF FlushProfile, FlushUser, Idle, Enders, Revokers
  <2>3. Ends(x)
    BY <2>2, NotEnding
  <2> QED BY <2>2, <2>3, KeepSession
<1>4. CASE SendPasswordResetEmail(r) \/ SendEmailVerificationEmail(r)
  <2>1. PICK field, m :
          txn' = [txn EXCEPT ![r].phase = "flushed", ![r].target = m, ![r].row[field] = m]
    BY <1>4 DEF SendPasswordResetEmail, SendEmailVerificationEmail, SendMail
  <2>2. PICK y : y = txn'[r]
    OBVIOUS
  <2>3. y.op = txn[r].op /\ DOMAIN txn' = Requests /\ \A q \in Requests \ {r} : txn'[q] = txn[q]
    BY <1>1, <2>1, <2>2 DEF Idle, TypeInv
  <2>4. txn[r].op \in Mailers /\ UNCHANGED <<sessions, revokeAlls>>
    BY <1>4 DEF SendPasswordResetEmail, SendEmailVerificationEmail, SendMail, Mailers
  <2>5. Ends(y) /\ y.op \notin Revokers
    BY <2>3, <2>4, NotEnding DEF Mailers, Enders, Revokers
  <2>6. \A q \in Requests \ {r} : Ages(txn[q], txn'[q])
    BY <2>3 DEF Ages
  <2> QED BY <2>2, <2>3, <2>4, <2>5, <2>6, Untouched
<1> QED BY <1>2, <1>3, <1>4

(* A request that ends without having to do with sessions.                 *)
LEMMA EndersSession ==
  ASSUME TypeInv, SessionInv, NEW r \in Requests,
         \/ CommitMail(r) \/ CommitUpdateProfile(r) \/ CommitVerifyEmail(r) \/ Fail(r)
  PROVE  SessionInv'
<1>1. /\ DOMAIN txn' = Requests /\ txn'[r] = Idle
      /\ \A q \in Requests \ {r} : Ages(txn[q], txn'[q])
  <2>1. CASE Fail(r)
    BY <2>1 DEF Fail, Ages, TypeInv
  <2>2. CASE ~Fail(r)
    <3>1. PICK u : u = txn[r].user
      OBVIOUS
    <3>2. \/ txn' = [q \in Requests |-> IF q = r THEN Idle ELSE txn[q]]
          \/ txn' = [q \in Requests |-> IF q = r THEN Idle ELSE SeesOldProfile(u, txn[q])]
      BY <2>2, <3>1, SaverIs
    <3> QED BY <3>2, EndAges
  <2> QED BY <2>1, <2>2
<1>2. UNCHANGED <<sessions, revokeAlls>>
  BY DEF CommitMail, CommitUpdateProfile, CommitVerifyEmail, Fail
<1>3. Ends(Idle) /\ Idle.op \notin Revokers
  BY RequestsAre, NotEnding DEF Enders, Revokers
<1> QED BY <1>1, <1>2, <1>3, Untouched

(* A session more: issued to a user, or in exchange for an active one that *)
(* is not active then.  It need not see the revocations under way.         *)
LEMMA IssuedSession ==
  ASSUME TypeInv, SessionInv, NEW r \in Requests, DOMAIN txn' = Requests, txn'[r] = Idle,
         \A q \in Requests \ {r} : Ages(txn[q], txn'[q]), \A q \in Requests : Ends(txn[q])',
         NEW u \in Users, NEW p \in Nat, NEW n, n = NewSession(u, p), revokeAlls' = revokeAlls,
         NEW old \in Seq(SessionRow), DOMAIN old = DOMAIN sessions, sessions' = Append(old, n),
         \A s \in DOMAIN sessions :
           /\ old[s].user = sessions[s].user /\ old[s].parent = sessions[s].parent
           /\ old[s].excused = sessions[s].excused /\ old[s].ended = sessions[s].ended
           /\ old[s].status = "ACTIVE" => sessions[s].status = "ACTIVE",
         p # 0 => IsActive(p) /\ old[p].status # "ACTIVE"
  PROVE  SessionInv'
<1>1. PICK N : N = Len(sessions) + 1
  OBVIOUS
<1>2. /\ n \in SessionRow /\ n.user = u /\ n.status = "ACTIVE" /\ n.parent = p
      /\ n.excused = revokeAlls[u] + Cardinality(Flushing(u, Revokers)) /\ ~n.ended
  BY NewSessionIs
<1>3. /\ N \notin DOMAIN sessions /\ DOMAIN sessions' = DOMAIN sessions \cup {N}
      /\ sessions'[N] = n /\ \A s \in DOMAIN sessions : sessions'[s] = old[s]
  <2>1. Len(old) = Len(sessions) /\ Len(sessions) \in Nat /\ DOMAIN sessions = 1 .. Len(sessions)
    BY Unwritten
  <2> QED BY <1>1, <1>2, <2>1
<1>4. \A s \in DOMAIN sessions :
        /\ sessions'[s].user = sessions[s].user /\ sessions'[s].parent = sessions[s].parent
        /\ sessions'[s].excused = sessions[s].excused
        /\ IsActive(s)' => IsActive(s)
  BY <1>3 DEF IsActive
<1>5. p # 0 => p \in DOMAIN sessions /\ IsActive(p) /\ ~IsActive(p)'
  BY <1>3 DEF IsActive
<1>6. ParentsRest'
  <2> SUFFICES ASSUME NEW s \in DOMAIN sessions', sessions'[s].parent # 0
               PROVE  sessions'[s].parent \in DOMAIN sessions' /\ ~IsActive(sessions[s].parent)'
    BY DEF ParentsRest
  <2>1. CASE s = N
    BY <1>2, <1>3, <1>5, <2>1 DEF IsActive
  <2>2. CASE s \in DOMAIN sessions
    BY <1>3, <1>4, <2>2 DEF ParentsRest, SessionInv, IsActive
  <2> QED BY <1>3, <2>1, <2>2
<1>7. ExchangedOnce'
  <2> SUFFICES ASSUME NEW s \in DOMAIN sessions', NEW t \in DOMAIN sessions',
                      sessions'[s].parent # 0, sessions'[s].parent = sessions'[t].parent, s # t
               PROVE  FALSE
    BY DEF ExchangedOnce
  <2>1. CASE s \in DOMAIN sessions /\ t \in DOMAIN sessions
    BY <1>4, <2>1 DEF ExchangedOnce, SessionInv
  <2>2. CASE s = N \/ t = N
    <3>1. PICK c \in DOMAIN sessions : sessions'[c].parent = p /\ p # 0
      BY <1>2, <1>3, <2>2
    <3>2. sessions[c].parent = p /\ IsActive(p)
      BY <1>4, <1>5, <3>1
    <3> QED BY <3>1, <3>2 DEF ParentsRest, SessionInv
  <2> QED BY <1>3, <2>1, <2>2
<1>8. EndedForGood'
  <2> SUFFICES ASSUME NEW s \in DOMAIN sessions', NEW c \in DOMAIN sessions', sessions'[s].ended,
                      c = s \/ sessions'[c].parent = s, IsActive(c)'
               PROVE  FALSE
    BY Zenon DEF EndedForGood
  <2>1. s \in DOMAIN sessions /\ sessions[s].ended
    <3>1. s # N
      BY <1>2, <1>3, ZenonT(30)
    <3>2. s \in DOMAIN sessions
      BY <1>3, <3>1
    <3>3. sessions'[s] = old[s]
      BY <1>3, <3>2
    <3>4. old[s].ended = sessions[s].ended
      BY <3>2
    <3> QED BY <3>2, <3>3, <3>4, Zenon
  <2>2. \A t \in DOMAIN sessions : t = s \/ sessions[t].parent = s => ~IsActive(t)
    BY <2>1, Zenon DEF EndedForGood, SessionInv
  <2>3. CASE c \in DOMAIN sessions
    BY <1>4, <2>1, <2>2, <2>3
  <2>4. CASE c = N
    <3>1. c # s /\ p = s
      BY <1>2, <1>3, <2>1, <2>4
    <3>2. s # 0
      BY <2>1, SessionsAre
    <3> QED BY <1>5, <2>2, <3>1, <3>2
  <2> QED BY <1>3, <2>3, <2>4
<1>9. RevocationsCounted'
  <2> SUFFICES ASSUME NEW s \in DOMAIN sessions', IsActive(s)'
               PROVE  sessions'[s].excused
                        >= revokeAlls'[sessions'[s].user] + Cardinality(Missing(s)')
    BY DEF RevocationsCounted
  <2>a. Idle.op \notin Revokers
    BY RequestsAre DEF Revokers
  <2>1. CASE s \in DOMAIN sessions
    <3>1. IsActive(s) /\ sessions'[s].user = sessions[s].user /\ sessions'[s].excused = sessions[s].excused
      BY <1>4, <2>1
    <3>2. Missing(s)' \subseteq Missing(s) /\ Cardinality(Missing(s)') <= Cardinality(Missing(s))
      BY <2>1, <2>a, <3>1, MissingShrinks
    <3>3. sessions[s].user \in Users /\ sessions[s] \in SessionRow
          /\ IsFiniteSet(Missing(s)) /\ Cardinality(Missing(s)) \in Nat
      BY <2>1, SessionsAre, MissingIs
    <3>4. sessions[s].excused \in Nat /\ revokeAlls[sessions[s].user] \in Nat
      BY <3>3, Unwritten DEF SessionRow
    <3>5. sessions[s].excused >= revokeAlls[sessions[s].user] + Cardinality(Missing(s))
      BY <2>1, <3>1 DEF RevocationsCounted, SessionInv
    <3>6. Cardinality(Missing(s)') \in Nat
      BY <3>2, <3>3, FS_Subset, FS_CardinalityType
    <3> QED BY <3>1, <3>2, <3>3, <3>4, <3>5, <3>6
  <2>2. CASE s = N
    <3>1. Missing(s)' \subseteq Flushing(u, Revokers)
      <4> SUFFICES ASSUME NEW q \in Missing(s)' PROVE q \in Flushing(u, Revokers)
        OBVIOUS
      <4>1. /\ q \in Requests /\ txn'[q].phase = "flushed" /\ txn'[q].user = u
            /\ txn'[q].op \in Revokers
        BY <1>2, <1>3, <2>2 DEF Missing, Flushing
      <4>2. PICK x : x = txn[q]
        OBVIOUS
      <4>3. PICK z : z = txn'[q]
        OBVIOUS
      <4>4. Ages(x, z) /\ DOMAIN x = DOMAIN Idle
        BY <2>a, <4>1, <4>2, <4>3 DEF TypeInv, Asks
      <4>5. z.phase = x.phase /\ z.user = x.user /\ z.op = x.op
        BY <4>4, AgesAre
      <4> QED BY <4>1, <4>2, <4>3, <4>5 DEF Flushing
    <3>2. Flushing(u, Revokers) \subseteq Requests
      BY DEF Flushing
    <3>3. IsFiniteSet(Flushing(u, Revokers)) /\ Cardinality(Flushing(u, Revokers)) \in Nat
      BY <3>2, IdentityAssumption, FS_Subset, FS_CardinalityType
    <3>4. Cardinality(Missing(s)') \in Nat /\ Cardinality(Missing(s)') <= Cardinality(Flushing(u, Revokers))
      BY <3>1, <3>3, FS_Subset, FS_CardinalityType
    <3>5. revokeAlls[u] \in Nat
      BY Unwritten
    <3> QED BY <1>2, <1>3, <2>2, <3>3, <3>4, <3>5
  <2> QED BY <1>3, <2>1, <2>2
<1> QED BY <1>6, <1>7, <1>8, <1>9 DEF SessionInv

(* A request that ends a session has it before it; 0 is none. *)
LEMMA TargetsAre ==
  ASSUME TypeInv, NEW q \in Requests, NEW x, x = txn[q]
  PROVE  /\ x.op \in Enders /\ x.phase = "read" => x.target \in DOMAIN sessions /\ x.target # 0
         /\ x.op = "logout" => x.own \in DOMAIN sessions /\ x.own # 0
<1>1. Knows(x)
  BY DEF TypeInv
<1>2. /\ x.op \in Enders /\ x.phase = "read" => x.target \in DOMAIN sessions
      /\ x.op = "logout" => x.own \in DOMAIN sessions
  BY <1>1 DEF Knows, Guarded
<1> QED BY <1>2, SessionsAre

(* A signup and a login issue a session without a parent.                  *)
LEMMA SignupLoginSession ==
  ASSUME TypeInv, SessionInv, NEW r \in Requests, CommitSignup(r) \/ CommitLogin(r)
  PROVE  SessionInv'
<1>1. PICK u : u = txn[r].user
  OBVIOUS
<1>2. u \in Users
  <2>1. txn[r].op # "none"
    BY DEF CommitSignup, CommitLogin, Ready
  <2> QED BY <1>1, <2>1 DEF TypeInv, Asks
<1>3. PICK n : n = NewSession(u, 0)
  OBVIOUS
<1>4. /\ sessions' = Append(sessions, n) /\ revokeAlls' = revokeAlls
      /\ txn' = [q \in Requests |-> IF q = r THEN Idle ELSE txn[q]]
  BY <1>1, <1>3 DEF CommitSignup, CommitLogin, End
<1>5. /\ DOMAIN txn' = Requests /\ txn'[r] = Idle
      /\ \A q \in Requests \ {r} : Ages(txn[q], txn'[q])
  BY <1>4, EndAges
<1>6. \A s \in DOMAIN sessions : Childless(s) => Childless(s)'
  <2>1. n.parent = 0
    BY <1>3 DEF NewSession
  <2>2. \A t \in DOMAIN sessions' : sessions'[t] = n \/ (t \in DOMAIN sessions /\ sessions'[t] = sessions[t])
    BY <1>4, Unwritten
  <2>3. \A s \in DOMAIN sessions : s # 0
    BY SessionsAre
  <2> QED BY <2>1, <2>2, <2>3 DEF Childless
<1>7. Ends(Idle)'
  BY RequestsAre, NotEnding DEF Enders
<1>8. \A q \in Requests : Ends(txn[q])'
  BY <1>5, <1>6, <1>7, OthersEnd DEF SessionInv
<1>9. sessions \in Seq(SessionRow) /\ 0 \in Nat
  BY Unwritten
<1> QED BY <1>2, <1>3, <1>4, <1>5, <1>8, <1>9, IssuedSession

(* An exchange tells those that are about to end the session that it has a *)
(* successor.                                                              *)
LEMMA RefreshSession ==
  ASSUME TypeInv, SessionInv, NEW r \in Requests, CommitRefresh(r)
  PROVE  SessionInv'
<1>1. PICK u : u = txn[r].user
  OBVIOUS
<1>2. PICK p : p = txn[r].target
  OBVIOUS
<1>3. u \in Users /\ p \in DOMAIN sessions /\ p \in Nat /\ p # 0 /\ IsActive(p)
  <2>1. txn[r].op = "refresh" /\ IsActive(p)
    BY <1>2 DEF CommitRefresh, Ready, RevokeActiveById
  <2>2. p \in DOMAIN sessions /\ u \in Users
    BY <1>1, <2>1 DEF TypeInv, Asks, IsActive
  <2> QED BY <2>1, <2>2, SessionsAre
<1>4. PICK n : n = NewSession(u, p)
  OBVIOUS
<1>5. PICK old : old = Revoke(sessions, {p})
  OBVIOUS
<1>6. /\ sessions' = Append(old, n) /\ revokeAlls' = revokeAlls
      /\ txn' = [q \in Requests |-> IF q = r THEN Idle ELSE MissesSuccessor(p, txn[q])]
  BY <1>1, <1>2, <1>4, <1>5 DEF CommitRefresh, End
<1>7. /\ DOMAIN txn' = Requests /\ txn'[r] = Idle
      /\ \A q \in Requests \ {r} : Ages(txn[q], txn'[q])
  BY <1>6, EndAges
<1>8. /\ old \in Seq(SessionRow) /\ DOMAIN old = DOMAIN sessions /\ Len(old) = Len(sessions)
      /\ \A s \in DOMAIN sessions :
           /\ old[s].user = sessions[s].user /\ old[s].parent = sessions[s].parent
           /\ old[s].excused = sessions[s].excused /\ old[s].ended = sessions[s].ended
           /\ old[s].status = "ACTIVE" => sessions[s].status = "ACTIVE" /\ s # p
  <2>1. sessions \in Seq(SessionRow)
    BY Unwritten
  <2> QED BY <1>5, <2>1, RevokeIs
<1>9. \A s \in DOMAIN sessions \ {p} : Childless(s) => Childless(s)'
  <2>1. n.parent = p
    BY <1>4 DEF NewSession
  <2>2. \A t \in DOMAIN sessions' : sessions'[t] = n \/ (t \in DOMAIN sessions /\ sessions'[t] = old[t])
    BY <1>6, <1>8, Unwritten
  <2> QED BY <1>8, <2>1, <2>2 DEF Childless
<1>a. ASSUME NEW q \in Requests \ {r}
      PROVE  Ends(txn[q])'
  <2>1. PICK x : x = txn[q]
    OBVIOUS
  <2>2. PICK y : y = txn'[q]
    OBVIOUS
  <2>3. y = MissesSuccessor(p, x)
    BY <1>6, <2>1, <2>2
  <2>4. DOMAIN x = DOMAIN Idle /\ Ends(x)
    BY <2>1 DEF TypeInv, Asks, SessionInv
  <2>5. /\ x.op \in Enders /\ x.phase = "read" => x.target \in DOMAIN sessions
        /\ x.op = "logout" => x.own \in DOMAIN sessions
    BY <2>1, TargetsAre
  <2>6. /\ y.op = x.op /\ y.phase = x.phase /\ y.own = x.own /\ y.target = x.target
    BY <2>3, <2>4 DEF MissesSuccessor, Idle
  <2>7. CASE \/ x.op \in {"logout", "revokeSession"} /\ x.target = p
             \/ x.op = "logout" /\ x.own = p
    <3>1. y = [x EXCEPT !.overtaken = TRUE]
      BY <2>3, <2>7 DEF MissesSuccessor
    <3>2. "overtaken" \in DOMAIN x
      BY <2>4 DEF Idle
    <3>3. y.overtaken
      BY <3>1, <3>2, Zenon
    <3>4. Ends(y)'
      BY <3>3, Zenon DEF Ends
    <3> QED BY <2>2, <3>4 DEF Ends
  <2>8. CASE ~(\/ x.op \in {"logout", "revokeSession"} /\ x.target = p
               \/ x.op = "logout" /\ x.own = p)
    <3>1. y = x
      BY <2>3, <2>8 DEF MissesSuccessor
    <3>2. /\ x.op \in Enders /\ x.phase = "read" /\ Childless(x.target) => Childless(x.target)'
          /\ x.op = "logout" /\ Childless(x.own) => Childless(x.own)'
      BY <1>9, <2>5, <2>8 DEF Enders
    <3>3. Ends(y)'
      BY <2>4, <3>1, <3>2, Zenon DEF Ends
    <3> QED BY <2>2, <3>3 DEF Ends
  <2> QED BY <2>7, <2>8
<1>b. \A q \in Requests : Ends(txn[q])'
  <2>1. Ends(Idle)'
    BY RequestsAre, NotEnding DEF Enders
  <2>2. Ends(txn[r])'
    BY <1>7, <2>1 DEF Ends
  <2> QED BY <1>a, <2>2
<1>c. old[p].status # "ACTIVE"
  BY <1>3, <1>8
<1> QED BY <1>3, <1>4, <1>6, <1>7, <1>8, <1>b, <1>c, IssuedSession

(* Who ends one session has it ended, and no successor it was not told of. *)
LEMMA EndsSession ==
  ASSUME TypeInv, SessionInv, NEW r \in Requests, CommitEndSession(r) \/ LogoutAgain(r)
  PROVE  SessionInv'
<1>1. PICK t : t = txn[r]
  OBVIOUS
<1>2. Asks(t) /\ Knows(t) /\ Ends(t)
  BY <1>1 DEF TypeInv, SessionInv
<1>3. sessions \in Seq(SessionRow)
  BY Unwritten
<1>4. PICK x : x = sessions'
  OBVIOUS
<1>5. PICK e \in DOMAIN sessions :
        /\ ~t.overtaken => Childless(e)
        /\ \/ x = Mark(Revoke(sessions, {e}), e, t)
           \/ x = Mark(sessions, e, t) /\ ~IsActive(e)
  <2>1. CASE CommitEndSession(r)
    <3>1. t.op \in Enders /\ t.phase = "read" /\ t.target \in DOMAIN sessions
      BY <1>1, <2>1, TargetsAre DEF CommitEndSession, Ready, Enders
    <3>2. ~t.overtaken => Childless(t.target)
      BY <1>2, <3>1, Zenon DEF Ends
    <3>3. x = Mark(Revoke(sessions, {t.target}), t.target, t)
      BY <1>1, <1>4, <2>1 DEF CommitEndSession, EndSession, Mark
    <3> QED BY <3>1, <3>2, <3>3
  <2>2. CASE LogoutAgain(r)
    <3>1. t.op = "logout" /\ t.own \in DOMAIN sessions /\ ~IsActive(t.own)
      BY <1>1, <2>2, TargetsAre DEF LogoutAgain, Entered
    <3>2. ~t.overtaken => Childless(t.own)
      BY <1>2, <3>1, Zenon DEF Ends
    <3>3. x = Mark(sessions, t.own, t)
      BY <1>1, <1>4, <2>2 DEF LogoutAgain, Mark
    <3> QED BY <3>1, <3>2, <3>3
  <2> QED BY <2>1, <2>2
<1>6. /\ DOMAIN x = DOMAIN sessions /\ x[e].status # "ACTIVE"
      /\ \A s \in DOMAIN sessions :
           /\ x[s].user = sessions[s].user /\ x[s].parent = sessions[s].parent
           /\ x[s].excused = sessions[s].excused
           /\ x[s].status = "ACTIVE" => sessions[s].status = "ACTIVE"
  <2>1. CASE x = Mark(Revoke(sessions, {e}), e, t)
    <3>1. /\ DOMAIN x = DOMAIN sessions
          /\ \A s \in DOMAIN sessions :
               /\ x[s].user = sessions[s].user /\ x[s].parent = sessions[s].parent
               /\ x[s].excused = sessions[s].excused
               /\ x[s].status = IF s = e /\ sessions[s].status = "ACTIVE" THEN "REVOKED"
                                ELSE sessions[s].status
      BY <1>3, <2>1, EndSessionIs
    <3> QED BY <3>1
  <2>2. CASE x = Mark(sessions, e, t) /\ ~IsActive(e)
    <3>1. /\ DOMAIN x = DOMAIN sessions
          /\ \A s \in DOMAIN sessions :
               /\ x[s].user = sessions[s].user /\ x[s].parent = sessions[s].parent
               /\ x[s].excused = sessions[s].excused /\ x[s].status = sessions[s].status
      BY <1>3, <2>2, MarkedIs
    <3> QED BY <2>2, <3>1 DEF IsActive
  <2> QED BY <1>5, <2>1, <2>2
<1>7. Marks(x, sessions, e, t)
  BY <1>3, <1>5, EndSessionEnds, MarkedEnds
<1>8. Quieter /\ ~IsActive(e)'
  BY <1>4, <1>6 DEF Quieter, IsActive
<1>9. EndedForGood'
  <2>1. Marks(sessions', sessions, e, t)
    BY <1>4, <1>7
  <2> QED BY <1>5, <1>8, <2>1, QuietEnded DEF SessionInv
<1>a. revokeAlls' = revokeAlls
  BY DEF CommitEndSession, LogoutAgain
<1>b. /\ DOMAIN txn' = Requests /\ txn'[r] = Idle
      /\ \A q \in Requests \ {r} : Ages(txn[q], txn'[q])
  <2>1. \/ txn' = [q \in Requests |-> IF q = r THEN Idle ELSE txn[q]]
        \/ txn' = [txn EXCEPT ![r] = Idle]
    BY DEF CommitEndSession, LogoutAgain, End
  <2>2. CASE txn' = [txn EXCEPT ![r] = Idle]
    BY <2>2 DEF TypeInv, Ages
  <2> QED BY <2>1, <2>2, EndAges
<1>c. Ends(Idle)' /\ Idle.op \notin Revokers
  BY RequestsAre, NotEnding DEF Enders, Revokers
<1> QED BY <1>8, <1>9, <1>a, <1>b, <1>c, QuietSession

(* Who revokes all of a user's sessions leaves none of those it has seen;  *)
(* one that is active has missed the revocation, and now has one to its    *)
(* excuse.                                                                 *)
LEMMA RevokersSession ==
  ASSUME TypeInv, SessionInv, NEW r \in Requests, CommitLogoutAll(r) \/ CommitPassword(r)
  PROVE  SessionInv'
<1>1. PICK t : t = txn[r]
  OBVIOUS
<1>2. PICK u : u = t.user
  OBVIOUS
<1>3. t.phase = "flushed" /\ t.op \in Revokers /\ u \in Users
  <2>1. t.phase = "flushed" /\ t.op \in Revokers /\ t.op # "none"
    BY <1>1 DEF CommitLogoutAll, CommitPassword, Ready, Revokers
  <2> QED BY <1>1, <1>2, <2>1 DEF TypeInv, Asks
<1>4. PICK x : x = sessions'
  OBVIOUS
<1>5. /\ x = Revoke(sessions, t.doomed) /\ revokeAlls' = [revokeAlls EXCEPT ![u] = @ + 1]
      /\ txn' = [q \in Requests |-> IF q = r THEN Idle ELSE txn[q]]
  BY <1>1, <1>2, <1>4 DEF CommitLogoutAll, CommitPassword, End
<1>6. /\ DOMAIN x = DOMAIN sessions
      /\ \A s \in DOMAIN sessions :
           /\ x[s].user = sessions[s].user /\ x[s].parent = sessions[s].parent
           /\ x[s].excused = sessions[s].excused /\ x[s].ended = sessions[s].ended
           /\ x[s].status = "ACTIVE" => sessions[s].status = "ACTIVE" /\ s \notin t.doomed
  <2>1. sessions \in Seq(SessionRow)
    BY Unwritten
  <2> QED BY <1>5, <2>1, RevokeIs
<1>7. Quieter
  BY <1>4, <1>6 DEF Quieter, IsActive
<1>8. EndedForGood'
  BY <1>4, <1>6, <1>7, QuietEnded DEF SessionInv
<1>9. ParentsRest' /\ ExchangedOnce' /\ \A s \in DOMAIN sessions : Childless(s) => Childless(s)'
  BY <1>7, QuietParents DEF SessionInv
<1>a. /\ DOMAIN txn' = Requests /\ txn'[r] = Idle
      /\ \A q \in Requests \ {r} : Ages(txn[q], txn'[q])
  BY <1>5, EndAges
<1>b. Ends(Idle)' /\ Idle.op \notin Revokers
  BY RequestsAre, NotEnding DEF Enders, Revokers
<1>c. \A q \in Requests : Ends(txn[q])'
  BY <1>9, <1>a, <1>b, OthersEnd DEF SessionInv
<1>d. RevocationsCounted'
  <2> SUFFICES ASSUME NEW s \in DOMAIN sessions', IsActive(s)'
               PROVE  sessions'[s].excused
                        >= revokeAlls'[sessions'[s].user] + Cardinality(Missing(s)')
    BY DEF RevocationsCounted
  <2>1. /\ s \in DOMAIN sessions /\ IsActive(s) /\ sessions'[s].user = sessions[s].user
        /\ sessions'[s].excused = sessions[s].excused /\ s \notin t.doomed
    BY <1>4, <1>6, <1>7 DEF Quieter, IsActive
  <2>2. Missing(s)' \subseteq Missing(s) \ {r}
    BY <1>a, <1>b, <2>1, MissingShrinks
  <2>3. /\ sessions[s] \in SessionRow /\ sessions[s].user \in Users
        /\ IsFiniteSet(Missing(s)) /\ Cardinality(Missing(s)) \in Nat
    BY <2>1, SessionsAre, MissingIs
  <2>4. sessions[s].excused \in Nat /\ revokeAlls \in [Users -> Nat] /\ revokeAlls[sessions[s].user] \in Nat
    BY <2>3, Unwritten DEF SessionRow
  <2>5. sessions[s].excused >= revokeAlls[sessions[s].user] + Cardinality(Missing(s))
    BY <2>1 DEF RevocationsCounted, SessionInv
  <2>6. IsFiniteSet(Missing(s) \ {r}) /\ Cardinality(Missing(s) \ {r}) \in Nat
        /\ Cardinality(Missing(s)') \in Nat
        /\ Cardinality(Missing(s)') <= Cardinality(Missing(s) \ {r})
    <3>1. IsFiniteSet(Missing(s) \ {r})
      BY <2>3, FS_Subset
    <3> QED BY <2>2, <3>1, FS_Subset, FS_CardinalityType
  <2>7. CASE sessions[s].user = u
    <3>1. r \in Missing(s)
      BY <1>1, <1>2, <1>3, <2>1, <2>7 DEF Missing, Flushing
    <3>2. Cardinality(Missing(s) \ {r}) = Cardinality(Missing(s)) - 1
      BY <2>3, <3>1, FS_RemoveElement
    <3>3. revokeAlls'[sessions'[s].user] = revokeAlls[sessions[s].user] + 1
      BY <1>3, <1>5, <2>1, <2>4, <2>7
    <3> QED BY <2>1, <2>3, <2>4, <2>5, <2>6, <3>2, <3>3
  <2>8. CASE sessions[s].user # u
    <3>1. revokeAlls'[sessions'[s].user] = revokeAlls[sessions[s].user]
      BY <1>3, <1>5, <2>1, <2>3, <2>4, <2>8
    <3>2. Cardinality(Missing(s) \ {r}) <= Cardinality(Missing(s))
      BY <2>3, FS_Subset
    <3> QED BY <2>1, <2>3, <2>4, <2>5, <2>6, <3>1, <3>2
  <2> QED BY <2>7, <2>8
<1> QED BY <1>8, <1>9, <1>c, <1>d DEF SessionInv

(* A session that expires is no longer active, and that is all. *)
LEMMA ExpireSessionInv ==
  ASSUME TypeInv, SessionInv, NEW e \in DOMAIN sessions, ExpireSession(e)
  PROVE  SessionInv'
<1>1. PICK row \in SessionRow : row = sessions[e]
  BY Unwritten
<1>2. PICK x : x = [row EXCEPT !.status = "EXPIRED"]
  OBVIOUS
<1>3. /\ x.status = "EXPIRED" /\ x.user = row.user /\ x.parent = row.parent
      /\ x.excused = row.excused /\ x.ended = row.ended
  BY <1>2, SessionRowWith
<1>4. sessions' = [sessions EXCEPT ![e] = x] /\ UNCHANGED <<txn, revokeAlls>>
  BY <1>1, <1>2 DEF ExpireSession
<1>5. /\ DOMAIN sessions' = DOMAIN sessions
      /\ \A s \in DOMAIN sessions :
           /\ sessions'[s].user = sessions[s].user /\ sessions'[s].parent = sessions[s].parent
           /\ sessions'[s].excused = sessions[s].excused /\ sessions'[s].ended = sessions[s].ended
           /\ sessions'[s].status = "ACTIVE" => sessions[s].status = "ACTIVE"
  BY <1>1, <1>3, <1>4
<1>6. Quieter
  BY <1>5 DEF Quieter, IsActive
<1>7. EndedForGood'
  BY <1>5, <1>6, QuietEnded DEF SessionInv
<1>8. ParentsRest' /\ ExchangedOnce' /\ \A s \in DOMAIN sessions : Childless(s) => Childless(s)'
  BY <1>6, QuietParents DEF SessionInv
<1>9. ASSUME NEW q \in Requests
      PROVE  Ends(txn[q])'
  <2>1. PICK y : y = txn[q]
    OBVIOUS
  <2>2. Ends(y) /\ Asks(y) /\ Knows(y) /\ Ages(y, y)
    BY <2>1 DEF SessionInv, TypeInv, Ages
  <2>3. Ends(y)'
    BY <1>8, <2>2, AgesEnds
  <2> QED BY <1>4, <2>1, <2>3 DEF Ends
<1>a. \A s \in DOMAIN sessions : Missing(s)' = Missing(s)
  BY <1>4, <1>5 DEF Missing, Flushing
<1>b. RevocationsCounted'
  BY <1>4, <1>6, <1>a DEF RevocationsCounted, SessionInv, Quieter
<1> QED BY <1>7, <1>8, <1>9, <1>b DEF SessionInv

(* At the start there is no session.                                       *)
LEMMA SessionInit == Init => SessionInv
<1> SUFFICES ASSUME Init PROVE SessionInv
  OBVIOUS
<1>1. sessions = <<>> /\ txn = [r \in Requests |-> Idle]
  BY DEF Init
<1>2. DOMAIN sessions = {}
  BY <1>1
<1>3. Ends(Idle)
  BY RequestsAre, NotEnding DEF Enders
<1>4. EndedForGood
  BY <1>2, Zenon DEF EndedForGood
<1> QED BY <1>1, <1>2, <1>3, <1>4 DEF SessionInv, ParentsRest, ExchangedOnce, RevocationsCounted

(* A step that leaves the sessions and the requests leaves it all.         *)
LEMMA SessionStays ==
  ASSUME SessionInv, UNCHANGED <<sessions, txn, revokeAlls>>
  PROVE  SessionInv'
<1>2. EndedForGood'
  BY Zenon DEF EndedForGood, SessionInv, IsActive
<1>3. ASSUME NEW q \in Requests PROVE Ends(txn[q])'
  <2>1. PICK y : y = txn[q]
    OBVIOUS
  <2>2. Ends(y)
    BY <2>1 DEF SessionInv
  <2>3. \A s : Childless(s) => Childless(s)'
    BY DEF Childless
  <2>4. Ends(y)'
    BY <2>2, <2>3, Zenon DEF Ends
  <2> QED BY <2>1, <2>4 DEF Ends
<1> QED BY <1>2, <1>3 DEF SessionInv, ParentsRest, ExchangedOnce, RevocationsCounted,
                                IsActive, Missing, Flushing

(* Every action keeps what the sessions promise.                           *)
LEMMA SessionNext ==
  ASSUME TypeInv, SessionInv, [Next]_idVars
  PROVE  SessionInv'
<1>1. CASE UNCHANGED idVars
  BY <1>1, SessionStays DEF idVars
<1>2. ASSUME NEW r \in Requests,
             \/ \E u \in Users : Signup(r, u) \/ Login(r, u) \/ ForgotPassword(r, u)
             \/ \E s \in DOMAIN sessions :
                  \/ RefreshToken(r, s) \/ RevokeSession(r, s)
                  \/ \E op \in Guarded : Validate(r, op, s)
             \/ \E u \in Users, m \in DOMAIN mails : ResetPassword(r, u, m) \/ VerifyEmail(r, u, m)
             \/ Logout(r) \/ LogoutAllDevices(r) \/ ChangePassword(r)
             \/ UpdateProfile(r) \/ SendVerificationEmail(r)
             \/ FlushPassword(r) \/ RevokeAllByUserId(r) \/ FlushProfile(r)
             \/ SendPasswordResetEmail(r) \/ SendEmailVerificationEmail(r)
      PROVE  SessionInv'
  BY <1>2, ReadersSession, FlushersSession
<1>3. ASSUME NEW r \in Requests,
             \/ CommitSignup(r) \/ CommitLogin(r) \/ CommitRefresh(r) \/ CommitEndSession(r)
             \/ LogoutAgain(r) \/ CommitLogoutAll(r) \/ CommitPassword(r) \/ CommitMail(r)
             \/ CommitUpdateProfile(r) \/ CommitVerifyEmail(r) \/ Fail(r)
      PROVE  SessionInv'
  BY <1>3, SignupLoginSession, RefreshSession, EndsSession, RevokersSession, EndersSession
<1>4. CASE \E s \in DOMAIN sessions : ExpireSession(s)
  BY <1>4, ExpireSessionInv
<1>5. CASE \E m \in DOMAIN mails : ExpireToken(m)
  <2>1. UNCHANGED <<sessions, txn, revokeAlls>>
    BY <1>5 DEF ExpireToken
  <2> QED BY <2>1, SessionStays
<1> QED BY <1>1, <1>2, <1>3, <1>4, <1>5 DEF Next

(* So in every reachable state a session is exchanged for one other at     *)
(* most, one that was ended has no active successor, and one that is       *)
(* active has missed every revocation of all of its user's sessions or     *)
(* came after it.                                                          *)
LEMMA SessionSafe == Spec => [](TypeInv /\ SessionInv)
<1>1. TypeInv /\ SessionInv /\ [Next]_idVars => (TypeInv /\ SessionInv)'
  BY TypeStays, TypeNext, SessionNext
<1> QED BY <1>1, TypeInit, SessionInit, PTL DEF Spec

(* A session that was logged out or revoked has no active descendant,      *)
(* unless an exchange of its token committed while the request was served. *)
THEOREM EndedSessionsRest == Spec => []EndedForGood
<1>1. TypeInv /\ SessionInv => EndedForGood
  BY DEF SessionInv
<1> QED BY <1>1, SessionSafe, PTL

(* No session outlives a revocation of all the sessions of its user: an    *)
(* active one committed after the last of them or while it was under way.  *)
THEOREM RevocationsReachAll == Spec => []RevokeAllIsComplete
<1>1. ASSUME TypeInv, SessionInv PROVE RevokeAllIsComplete
  <2> SUFFICES ASSUME NEW s \in DOMAIN sessions, IsActive(s)
               PROVE  sessions[s].excused >= revokeAlls[sessions[s].user]
    BY DEF RevokeAllIsComplete
  <2>1. sessions[s].excused >= revokeAlls[sessions[s].user] + Cardinality(Missing(s))
    BY <1>1 DEF SessionInv, RevocationsCounted
  <2>2. sessions[s] \in SessionRow /\ sessions[s].user \in Users /\ Cardinality(Missing(s)) \in Nat
    BY <1>1, SessionsAre, MissingIs
  <2>3. sessions[s].excused \in Nat /\ revokeAlls[sessions[s].user] \in Nat
    BY <1>1, <2>2, Unwritten DEF SessionRow
  <2> QED BY <2>1, <2>2, <2>3
<1> QED BY <1>1, SessionSafe, PTL
-----------------------------------------------------------------------------
(* Mailed tokens.  One request at a time has flushed a user's row.         *)
LEMMA LockStep ==
  ASSUME TypeInv, RowLocked, NEW r \in Requests, DOMAIN txn' = Requests,
         \A q \in Requests \ {r} : Ages(txn[q], txn'[q]), NEW y, y = txn'[r],
         y.phase # "flushed" \/ y.op = "logoutAll" \/ RowFree(y.user)
  PROVE  RowLocked'
<1>1. ASSUME NEW q \in Requests \ {r}
      PROVE  /\ txn'[q].phase = txn[q].phase /\ txn'[q].op = txn[q].op
             /\ txn'[q].user = txn[q].user
             /\ txn[q].phase = "flushed" => txn[q].op \in Operation
  <2>1. PICK x : x = txn[q]
    OBVIOUS
  <2>2. PICK z : z = txn'[q]
    OBVIOUS
  <2>3. Asks(x) /\ Ages(x, z)
    BY <2>1, <2>2 DEF TypeInv
  <2>4. z.phase = x.phase /\ z.op = x.op /\ z.user = x.user
    BY <2>3, AgesAre DEF Asks
  <2>5. x.phase = "flushed" => x.op \in Operation
    BY <2>3 DEF Asks
  <2> QED BY <2>1, <2>2, <2>4, <2>5
<1>2. ASSUME NEW q \in Requests \ {r}, y.phase = "flushed", txn'[q].phase = "flushed",
             y.op # "logoutAll", txn'[q].op # "logoutAll", txn'[q].user = y.user
      PROVE  FALSE
  BY <1>1, <1>2 DEF RowFree, Flushing
<1> QED BY <1>1, <1>2 DEF RowLocked

(* What a request has in hand stays so, as long as its own mail does.      *)
LEMMA HoldsKept ==
  ASSUME NEW x, NEW y, Asks(x), Ages(x, y), Holds(x), DOMAIN mails \subseteq DOMAIN mails',
         \A m \in DOMAIN mails :
           /\ mails'[m].user = mails[m].user /\ mails'[m].kind = mails[m].kind
           /\ mails[m].sent = "LIVE" => mails'[m].sent = "LIVE",
         x.op \in Mailers /\ x.phase = "flushed" =>
           /\ mails'[x.target].sent = mails[x.target].sent
           /\ mails'[x.target].uses = mails[x.target].uses
           /\ \A m \in DOMAIN mails' \ DOMAIN mails : mails'[m].user # x.user
  PROVE  Holds(y)'
<1>1. /\ y.op = x.op /\ y.phase = x.phase /\ y.user = x.user /\ y.target = x.target
      /\ y.usesRead = x.usesRead
  BY AgesAre DEF Asks
<1>2. CASE x.op = "resetPassword"
  BY <1>1, <1>2 DEF Holds, Sent, Mailers
<1>3. CASE x.op = "verifyEmail"
  BY <1>1, <1>3 DEF Holds, Sent, Mailers
<1>4. CASE x.op \in Mailers /\ x.phase = "flushed"
  <2>1. /\ x.target \in DOMAIN mails /\ mails[x.target].uses = 0
        /\ Sent(x.target, x.user, IF x.op = "forgotPassword" THEN "reset" ELSE "verification", "PENDING")
        /\ \A m \in DOMAIN mails : mails[m].user = x.user => m <= x.target
        /\ x.op \notin {"resetPassword", "verifyEmail"}
    BY <1>4 DEF Holds, Mailers
  <2> QED BY <1>1, <1>4, <2>1 DEF Holds, Sent
<1> QED BY <1>1, <1>2, <1>3, <1>4 DEF Holds

(* A request that neither uses nor mails a token has none in hand.         *)
LEMMA NotHolding ==
  ASSUME NEW x, x.op \notin {"resetPassword", "verifyEmail"}, x.op \notin Mailers \/ x.phase # "flushed"
  PROVE  Holds(x) /\ Holds(x)'
  BY DEF Holds

(* As long as the users' tokens are the same, and no mail is used or       *)
(* becomes live, the tokens say what they said.                            *)
LEMMA TokensStay ==
  ASSUME TypeInv, StoredUnused, UsedOnce, NewestWorks,
         \A u \in Users : /\ users'[u].reset = users[u].reset
                          /\ users'[u].verification = users[u].verification,
         DOMAIN mails \subseteq DOMAIN mails',
         \A m \in DOMAIN mails :
           /\ mails'[m].user = mails[m].user /\ mails'[m].kind = mails[m].kind
           /\ mails[m].sent = "LIVE" <=> mails'[m].sent = "LIVE"
           /\ mails'[m].uses = mails[m].uses
           /\ Done(mails[m]) => Done(mails'[m]),
         \A m \in DOMAIN mails' \ DOMAIN mails : mails'[m].sent # "LIVE" /\ mails'[m].uses = 0
  PROVE  StoredUnused' /\ UsedOnce' /\ NewestWorks'
<1>1. \A u \in Users, kind \in {"reset", "verification"} :
        Token(users'[u], kind) = Token(users[u], kind)
  BY DEF Token
<1>2. StoredUnused'
  <2> SUFFICES ASSUME NEW u \in Users, NEW kind \in {"reset", "verification"},
                      NEW m, m = Token(users'[u], kind), m # 0
               PROVE  /\ mails'[m].user = u /\ mails'[m].kind = kind /\ mails'[m].sent = "LIVE"
                      /\ mails'[m].uses = 0
    BY DEF StoredUnused, Sent, Token
  <2>1. m = Token(users[u], kind)
    BY <1>1
  <2>2. Sent(m, u, kind, "LIVE") /\ mails[m].uses = 0
    BY <2>1 DEF StoredUnused
  <2>3. m \in DOMAIN mails
    BY <2>1, RowsAre DEF Token
  <2> QED BY <2>2, <2>3 DEF Sent
<1>3. UsedOnce'
  BY DEF UsedOnce
<1>4. NewestWorks'
  <2> SUFFICES ASSUME NEW u \in Users, NEW kind \in {"reset", "verification"}, NEW m \in DOMAIN mails',
                      Newest(m, u, kind)', m # Token(users'[u], kind)
               PROVE  Done(mails'[m])
    BY DEF NewestWorks
  <2>1. m \in DOMAIN mails
    BY DEF Newest, Sent
  <2>2. Newest(m, u, kind)
    BY <2>1 DEF Newest, Sent
  <2>3. m # Token(users[u], kind)
    BY <1>1
  <2> QED BY <2>1, <2>2, <2>3 DEF NewestWorks
<1> QED BY <1>2, <1>3, <1>4

(* While one request takes a step, the others keep the tokens they have    *)
(* in hand.                                                                *)
LEMMA OthersHold ==
  ASSUME TypeInv, \A q \in Requests : Holds(txn[q]), NEW r \in Requests, DOMAIN txn' = Requests,
         \A q \in Requests \ {r} : Ages(txn[q], txn'[q]), DOMAIN mails \subseteq DOMAIN mails',
         \A m \in DOMAIN mails :
           /\ mails'[m].user = mails[m].user /\ mails'[m].kind = mails[m].kind
           /\ mails[m].sent = "LIVE" => mails'[m].sent = "LIVE",
         \A q \in Requests \ {r} : txn[q].op \in Mailers /\ txn[q].phase = "flushed" =>
           /\ mails'[txn[q].target].sent = mails[txn[q].target].sent
           /\ mails'[txn[q].target].uses = mails[txn[q].target].uses
           /\ \A m \in DOMAIN mails' \ DOMAIN mails : mails'[m].user # txn[q].user,
         NEW z, z = txn'[r], Holds(z)'
  PROVE  \A q \in Requests : Holds(txn[q])'
<1> SUFFICES ASSUME NEW q \in Requests, q # r PROVE Holds(txn[q])'
  BY DEF Holds, Sent
<1>1. PICK x : x = txn[q]
  OBVIOUS
<1>2. PICK y : y = txn'[q]
  OBVIOUS
<1>3. Asks(x) /\ Holds(x) /\ Ages(x, y)
  BY <1>1, <1>2 DEF TypeInv
<1>4. x.op \in Mailers /\ x.phase = "flushed" =>
        /\ mails'[x.target].sent = mails[x.target].sent
        /\ mails'[x.target].uses = mails[x.target].uses
        /\ \A m \in DOMAIN mails' \ DOMAIN mails : mails'[m].user # x.user
  BY <1>1
<1>5. Holds(y)'
  BY <1>3, <1>4, HoldsKept
<1> QED BY <1>2, <1>5 DEF Holds, Sent

(* A step that writes no mail and no token.                                *)
LEMMA PlainToken ==
  ASSUME TypeInv, TokenInv, mails' = mails,
         \A u \in Users : /\ users'[u].reset = users[u].reset
                          /\ users'[u].verification = users[u].verification,
         NEW r \in Requests, DOMAIN txn' = Requests,
         \A q \in Requests \ {r} : Ages(txn[q], txn'[q]),
         NEW y, y = txn'[r], Holds(y),
         y.phase # "flushed" \/ y.op = "logoutAll" \/ RowFree(y.user)
  PROVE  TokenInv'
<1>1. RowLocked'
  BY LockStep DEF TokenInv
<1>2. StoredUnused' /\ UsedOnce' /\ NewestWorks'
  BY TokensStay DEF TokenInv
<1>3. Holds(y)'
  BY DEF Holds, Sent
<1>4. \A q \in Requests : Holds(txn[q])'
  BY <1>3, OthersHold DEF TokenInv
<1> QED BY <1>1, <1>2, <1>4 DEF TokenInv

(* A request that reads or flushes, and writes no mail and no token.       *)
LEMMA KeepToken ==
  ASSUME TypeInv, TokenInv, NEW r \in Requests, NEW t, Keep(r, t), Holds(t),
         t.phase # "flushed" \/ t.op = "logoutAll" \/ RowFree(t.user)
  PROVE  TokenInv'
<1>1. mails' = mails /\ users' = users /\ txn' = [txn EXCEPT ![r] = t]
  BY DEF Keep, tables
<1>2. txn'[r] = t /\ DOMAIN txn' = Requests /\ \A q \in Requests \ {r} : Ages(txn[q], txn'[q])
  BY <1>1 DEF TypeInv, Ages
<1> QED BY <1>1, <1>2, PlainToken

(* A request that starts without a token to use.                           *)
LEMMA StartToken ==
  ASSUME TypeInv, TokenInv, NEW r \in Requests, NEW op, NEW u, NEW more,
         DOMAIN more \subseteq {"target", "row", "usesRead"}, Start(r, op, u, more),
         op \notin {"resetPassword", "verifyEmail"}
  PROVE  TokenInv'
<1>1. PICK x : x = Begun(op, u, more)
  OBVIOUS
<1>2. x.op = op /\ x.phase = "read" /\ Keep(r, x)
  BY <1>1 DEF Begun, With, Idle, Start
<1>3. Holds(x)
  BY <1>2, NotHolding
<1> QED BY <1>2, <1>3, KeepToken

(* A request that reads behind the guard has no token in hand.             *)
LEMMA ReadToken ==
  ASSUME TypeInv, TokenInv, NEW r \in Requests, NEW op \in Guarded, Entered(r, op), NEW more,
         DOMAIN more \subseteq {"target", "row"}, Read(r, more)
  PROVE  TokenInv'
<1>1. PICK x : x = Entering(r, more)
  OBVIOUS
<1>2. DOMAIN txn[r] = DOMAIN Idle /\ txn[r].op = op
  BY DEF TypeInv, Asks, Entered
<1>3. x.op = op /\ x.phase = "read" /\ Keep(r, x)
  BY <1>1, <1>2 DEF Entering, With, Idle, Read
<1>4. Holds(x)
  BY <1>3, NotHolding DEF Guarded
<1> QED BY <1>3, <1>4, KeepToken

(* The requests that only read leave the tokens as they should be.         *)
LEMMA ReadersToken ==
  ASSUME TypeInv, TokenInv, NEW r \in Requests,
         \/ \E u \in Users : Signup(r, u) \/ Login(r, u) \/ ForgotPassword(r, u)
         \/ \E s \in DOMAIN sessions :
              \/ RefreshToken(r, s) \/ RevokeSession(r, s)
              \/ \E op \in Guarded : Validate(r, op, s)
         \/ Logout(r) \/ LogoutAllDevices(r) \/ ChangePassword(r)
         \/ UpdateProfile(r) \/ SendVerificationEmail(r)
  PROVE  TokenInv'
<1>1. DOMAIN <<>> = {}
  OBVIOUS
<1>2. CASE \/ \E u \in Users : Signup(r, u) \/ Login(r, u) \/ ForgotPassword(r, u)
           \/ \E s \in DOMAIN sessions : RefreshToken(r, s)
  <2>1. \/ \E u, row : Start(r, "signup", u, [row |-> row])
        \/ \E u : Start(r, "login", u, <<>>)
        \/ \E u, row : Start(r, "forgotPassword", u, [row |-> row])
        \/ \E u, s : Start(r, "refresh", u, [target |-> s])
    BY <1>2 DEF Signup, Login, ForgotPassword, RefreshToken
  <2>2. \A row : DOMAIN [row |-> row] = {"row"} /\ DOMAIN [target |-> row] = {"target"}
    OBVIOUS
  <2>3. PICK op \in {"signup", "login", "forgotPassword", "refresh"} : \E u, more :
          DOMAIN more \subseteq {"target", "row", "usesRead"} /\ Start(r, op, u, more)
    BY <1>1, <2>1, <2>2
  <2> QED BY <2>3, StartToken
<1>3. ASSUME NEW s \in DOMAIN sessions, NEW op \in Guarded, Validate(r, op, s)
      PROVE  TokenInv'
  <2>1. PICK x : x = [Idle EXCEPT !.op = op, !.phase = "guarded", !.user = sessions[s].user, !.own = s]
    OBVIOUS
  <2>2. Keep(r, x)
    BY <1>3, <2>1 DEF Validate
  <2>3. x.phase = "guarded" /\ x.op = op
    BY <2>1 DEF Idle
  <2>4. Holds(x)
    BY <2>3, NotHolding DEF Guarded
  <2> QED BY <2>2, <2>3, <2>4, KeepToken
<1>4. CASE \/ \E s \in DOMAIN sessions : RevokeSession(r, s)
           \/ Logout(r) \/ LogoutAllDevices(r) \/ ChangePassword(r)
           \/ UpdateProfile(r) \/ SendVerificationEmail(r)
  <2>1. \/ \E s : Entered(r, "revokeSession") /\ Read(r, [target |-> s])
        \/ \E s : Entered(r, "logout") /\ Read(r, [target |-> s])
        \/ Entered(r, "logoutAll") /\ Read(r, <<>>)
        \/ \E row : Entered(r, "changePassword") /\ Read(r, [row |-> row])
        \/ \E target, row : Entered(r, "updateProfile") /\ Read(r, [target |-> target, row |-> row])
        \/ \E row : Entered(r, "sendVerification") /\ Read(r, [row |-> row])
    BY <1>4 DEF RevokeSession, Logout, LogoutAllDevices, ChangePassword, UpdateProfile,
                SendVerificationEmail
  <2>2. {"logout", "logoutAll", "changePassword", "updateProfile", "sendVerification",
         "revokeSession"} \subseteq Guarded
    BY DEF Guarded
  <2> QED BY <1>1, <2>1, <2>2, ReadToken
<1> QED BY <1>2, <1>3, <1>4

(* A token that is found stored has never worked. *)
LEMMA UsersToken ==
  ASSUME TypeInv, TokenInv, NEW r \in Requests, NEW u \in Users, NEW m \in DOMAIN mails,
         ResetPassword(r, u, m) \/ VerifyEmail(r, u, m)
  PROVE  TokenInv'
<1>1. PICK op \in {"resetPassword", "verifyEmail"} : \E row :
        /\ IF op = "resetPassword" THEN HoldsReset(u, m) ELSE HoldsVerification(u, m)
        /\ Start(r, op, u, [target |-> m, usesRead |-> mails[m].uses, row |-> row])
  BY DEF ResetPassword, VerifyEmail
<1>2. PICK row : Start(r, op, u, [target |-> m, usesRead |-> mails[m].uses, row |-> row])
  BY <1>1
<1>3. PICK x : x = Begun(op, u, [target |-> m, usesRead |-> mails[m].uses, row |-> row])
  OBVIOUS
<1>4. /\ x.op = op /\ x.phase = "read" /\ Keep(r, x) /\ x.user = u /\ x.target = m
      /\ x.usesRead = mails[m].uses
  BY <1>2, <1>3 DEF Begun, With, Idle, Start
<1>5. Sent(m, u, IF op = "resetPassword" THEN "reset" ELSE "verification", "LIVE") /\ mails[m].uses = 0
  BY <1>1 DEF TokenInv, StoredUnused, Token, HoldsReset, HoldsVerification
<1>6. Holds(x)
  BY <1>1, <1>4, <1>5 DEF Holds, Mailers
<1> QED BY <1>4, <1>6, KeepToken

(* A request that flushes a row with a free lock leaves the tokens as      *)
(* they should be.                                                         *)
LEMMA FlushersToken ==
  ASSUME TypeInv, TokenInv, NEW r \in Requests,
         FlushPassword(r) \/ RevokeAllByUserId(r) \/ FlushProfile(r)
  PROVE  TokenInv'
<1>1. DOMAIN txn[r] = DOMAIN Idle /\ Holds(txn[r])
  BY DEF TypeInv, Asks, TokenInv
<1>2. PICK D, x : /\ \/ x = [txn[r] EXCEPT !.phase = "flushed", !.doomed = D]
                     \/ x = [txn[r] EXCEPT !.phase = "flushed"]
                  /\ Keep(r, x)
  BY DEF FlushPassword, RevokeAllByUserId, FlushProfile
<1>3. /\ x.op = txn[r].op /\ x.user = txn[r].user /\ x.target = txn[r].target
      /\ x.usesRead = txn[r].usesRead
  BY <1>1, <1>2 DEF Idle
<1>4. /\ txn[r].op \notin Mailers
      /\ txn[r].op = "logoutAll" \/ RowFree(txn[r].user)
  BY DEF FlushPassword, RevokeAllByUserId, FlushProfile, FlushUser, Mailers
<1>5. Holds(x)
  BY <1>1, <1>3, <1>4 DEF Holds
<1> QED BY <1>2, <1>3, <1>4, <1>5, KeepToken

(* A mail is sent with the row in hand, so it is the newest of its user. *)
LEMMA SendToken ==
  ASSUME TypeInv, TokenInv, NEW r \in Requests,
         SendPasswordResetEmail(r) \/ SendEmailVerificationEmail(r)
  PROVE  TokenInv'
<1>1. PICK t : t = txn[r]
  OBVIOUS
<1>2. PICK y : y = txn'[r]
  OBVIOUS
<1>3. PICK m : m = Len(mails) + 1
  OBVIOUS
<1>4. PICK kind \in {"reset", "verification"} :
        /\ kind = IF t.op = "forgotPassword" THEN "reset" ELSE "verification"
        /\ SendMail(r, kind, kind)
  BY <1>1 DEF SendPasswordResetEmail, SendEmailVerificationEmail
<1>5. t.op \in Mailers /\ t.user \in Users /\ DOMAIN t = DOMAIN Idle /\ r \in DOMAIN txn
  <2>1. t.op \in Mailers /\ t.op # "none"
    BY <1>1 DEF SendPasswordResetEmail, SendEmailVerificationEmail, Mailers
  <2> QED BY <1>1, <2>1 DEF TypeInv, Asks
<1>6. /\ RowFree(t.user) /\ users' = users
      /\ txn' = [txn EXCEPT ![r].phase = "flushed", ![r].target = m, ![r].row[kind] = m]
  BY <1>1, <1>3, <1>4 DEF SendMail
<1>7. /\ y.phase = "flushed" /\ y.target = m /\ y.op = t.op /\ y.user = t.user
      /\ DOMAIN txn' = Requests /\ \A q \in Requests \ {r} : txn'[q] = txn[q]
  BY <1>1, <1>2, <1>5, <1>6 DEF Idle, TypeInv
<1>8. PICK mail : mail = [user |-> t.user, kind |-> kind, sent |-> "PENDING",
                          expired |-> FALSE, uses |-> 0, crossed |-> FALSE]
  OBVIOUS
<1>9. /\ mail \in Mail /\ mail.user = t.user /\ mail.kind = kind /\ mail.sent = "PENDING"
      /\ mail.uses = 0
  BY <1>5, <1>8 DEF Mail
<1>a. mails' = Append(mails, mail)
  BY <1>1, <1>4, <1>8 DEF SendMail
<1>b. /\ m \notin DOMAIN mails /\ DOMAIN mails' = DOMAIN mails \cup {m} /\ mails'[m] = mail
      /\ \A i \in DOMAIN mails : mails'[i] = mails[i]
      /\ m \in Nat /\ \A i \in DOMAIN mails : i <= m
  BY <1>3, <1>9, <1>a, Unwritten
<1>c. RowLocked'
  <2>1. \A q \in Requests \ {r} : Ages(txn[q], txn'[q])
    BY <1>7 DEF Ages
  <2>2. RowFree(y.user)
    BY <1>6, <1>7
  <2>3. RowLocked
    BY DEF TokenInv
  <2> QED BY <1>2, <1>7, <2>1, <2>2, <2>3, LockStep
<1>d. StoredUnused' /\ UsedOnce' /\ NewestWorks'
  <2>1. \A i \in DOMAIN mails : /\ mails'[i].user = mails[i].user /\ mails'[i].kind = mails[i].kind
                                /\ mails[i].sent = "LIVE" <=> mails'[i].sent = "LIVE"
                                /\ mails'[i].uses = mails[i].uses
                                /\ Done(mails[i]) => Done(mails'[i])
    BY <1>b
  <2>2. \A i \in DOMAIN mails' \ DOMAIN mails : mails'[i].sent # "LIVE" /\ mails'[i].uses = 0
    BY <1>9, <1>b
  <2>3. DOMAIN mails \subseteq DOMAIN mails'
    BY <1>b
  <2> QED BY <1>6, <2>1, <2>2, <2>3, TokensStay DEF TokenInv
<1>e. Holds(y)'
  <2>1. /\ m \in DOMAIN mails'
        /\ Sent(m, t.user, IF t.op = "forgotPassword" THEN "reset" ELSE "verification", "PENDING")'
        /\ mails'[m].uses = 0 /\ \A i \in DOMAIN mails' : i <= m
    BY <1>1, <1>4, <1>9, <1>b DEF Sent
  <2> QED BY <1>5, <1>7, <2>1 DEF Holds, Mailers
<1>f. \A q \in Requests \ {r} : txn[q].op \in Mailers /\ txn[q].phase = "flushed" =>
        /\ mails'[txn[q].target].sent = mails[txn[q].target].sent
        /\ mails'[txn[q].target].uses = mails[txn[q].target].uses
        /\ \A i \in DOMAIN mails' \ DOMAIN mails : mails'[i].user # txn[q].user
  <2> SUFFICES ASSUME NEW q \in Requests \ {r}, txn[q].op \in Mailers, txn[q].phase = "flushed"
               PROVE  txn[q].target \in DOMAIN mails /\ txn[q].user # t.user
    BY <1>9, <1>b
  <2>1. txn[q].target \in DOMAIN mails
    BY DEF TokenInv, Holds
  <2>2. txn[q].user # t.user
    BY <1>6 DEF RowFree, Flushing, Mailers, Operation
  <2> QED BY <2>1, <2>2
<1>g. \A q \in Requests : Holds(txn[q])'
  <2>1. \A q \in Requests \ {r} : Ages(txn[q], txn'[q])
    BY <1>7 DEF Ages
  <2>2. /\ DOMAIN mails \subseteq DOMAIN mails'
        /\ \A i \in DOMAIN mails :
             /\ mails'[i].user = mails[i].user /\ mails'[i].kind = mails[i].kind
             /\ mails[i].sent = "LIVE" => mails'[i].sent = "LIVE"
    BY <1>b
  <2> QED BY <1>2, <1>7, <1>e, <1>f, <2>1, <2>2, OthersHold DEF TokenInv
<1> QED BY <1>c, <1>d, <1>g DEF TokenInv

(* A step that neither writes a user's token nor a mail.                   *)
LEMMA CommitsToken ==
  ASSUME TypeInv, TokenInv, NEW r \in Requests,
         \/ CommitSignup(r) \/ CommitLogin(r) \/ CommitRefresh(r) \/ CommitEndSession(r)
         \/ LogoutAgain(r) \/ CommitLogoutAll(r) \/ CommitUpdateProfile(r)
         \/ CommitPassword(r) /\ txn[r].op = "changePassword"
  PROVE  TokenInv'
<1>1. /\ DOMAIN txn' = Requests /\ txn'[r] = Idle
      /\ \A q \in Requests \ {r} : Ages(txn[q], txn'[q])
  <2>1. PICK s, u :
          \/ txn' = [q \in Requests |-> IF q = r THEN Idle ELSE txn[q]]
          \/ txn' = [q \in Requests |-> IF q = r THEN Idle ELSE MissesSuccessor(s, txn[q])]
          \/ txn' = [q \in Requests |-> IF q = r THEN Idle ELSE SeesOldProfile(u, txn[q])]
          \/ txn' = [txn EXCEPT ![r] = Idle]
    BY DEF CommitSignup, CommitLogin, CommitRefresh, CommitEndSession, LogoutAgain,
           CommitLogoutAll, CommitUpdateProfile, CommitPassword, End
  <2>2. CASE txn' = [txn EXCEPT ![r] = Idle]
    BY <2>2 DEF TypeInv, Ages
  <2> QED BY <2>1, <2>2, EndAges
<1>2. mails' = mails
  BY DEF CommitSignup, CommitLogin, CommitRefresh, CommitEndSession, LogoutAgain,
         CommitLogoutAll, CommitUpdateProfile, CommitPassword
<1>3. \A u \in Users : /\ users'[u].reset = users[u].reset
                       /\ users'[u].verification = users[u].verification
  <2>1. CASE CommitSignup(r)
    <3>1. PICK t : t = txn[r]
      OBVIOUS
    <3>2. /\ ~Registered(t.user) /\ users' = [users EXCEPT ![t.user] = t.row] /\ t.op = "signup"
      BY <2>1, <3>1 DEF CommitSignup, Ready
    <3>3. t.row.reset = 0 /\ t.row.verification = 0 /\ t.user \in Users
      BY <3>1, <3>2 DEF TypeInv, Asks
    <3>4. users[t.user].reset = 0 /\ users[t.user].verification = 0 /\ users \in [Users -> UserRow]
      BY <3>2, <3>3 DEF TypeInv, TablesInv
    <3> QED BY <3>2, <3>3, <3>4
  <2>2. CASE CommitUpdateProfile(r) \/ (CommitPassword(r) /\ txn[r].op = "changePassword")
    <3>1. PICK t : t = txn[r]
      OBVIOUS
    <3>2. PICK v : v = t.user
      OBVIOUS
    <3>3. /\ t.row \in UserRow /\ t.view \in UserRow /\ Wants(t) /\ v \in Users
          /\ users' = [users EXCEPT ![v] = SaveUser(@, t.view, t.row)]
      BY <2>2, <3>1, <3>2, SaverIs
    <3>4. t.op \in {"updateProfile", "changePassword"}
      BY <2>2, <3>1 DEF CommitUpdateProfile, Ready
    <3>5. t.row.reset = t.view.reset /\ t.row.verification = t.view.verification
      BY <3>3, <3>4 DEF Wants
    <3>6. /\ users'[v].reset = users[v].reset
          /\ users'[v].verification = users[v].verification
          /\ \A u \in Users : u # v => users'[u] = users[u]
      BY <3>3, <3>5, SavedRow, ZenonT(60)
    <3> QED BY <3>6
  <2>3. CASE \/ CommitLogin(r) \/ CommitRefresh(r) \/ CommitEndSession(r)
             \/ LogoutAgain(r) \/ CommitLogoutAll(r)
    BY <2>3 DEF CommitLogin, CommitRefresh, CommitEndSession, LogoutAgain, CommitLogoutAll
  <2> QED BY <2>1, <2>2, <2>3
<1>4. Holds(Idle) /\ Idle.phase # "flushed"
  <2>1. Idle.op = "none" /\ Idle.phase = "idle"
    BY DEF Idle
  <2> QED BY <2>1, NotHolding DEF Mailers
<1> QED BY <1>1, <1>2, <1>3, <1>4, PlainToken

(* A mail that changes in another way than by a use is as done as before. *)
LEMMA MailDone ==
  ASSUME NEW row \in Mail, NEW x,
         \/ x = [row EXCEPT !.sent = "LIVE"] \/ x = [row EXCEPT !.sent = "LOST"]
         \/ x = [row EXCEPT !.expired = TRUE] \/ x = row
  PROVE  /\ x.user = row.user /\ x.kind = row.kind /\ x.uses = row.uses
         /\ Done(row) => Done(x)
<1>1. x.crossed = row.crossed
  <2>1. CASE x = [row EXCEPT !.sent = "LIVE"] \/ x = [row EXCEPT !.sent = "LOST"]
    BY <2>1, MailSent
  <2>2. CASE x = [row EXCEPT !.expired = TRUE]
    BY <2>2, MailExpired
  <2> QED BY <2>1, <2>2
<1>2. x.user = row.user /\ x.kind = row.kind /\ x.uses = row.uses
  BY DEF Mail
<1> QED BY <1>1, <1>2, Zenon DEF Done

(* Two requests that have handed in the same mail are one.                 *)
LEMMA OwnMail ==
  ASSUME TypeInv, TokenInv, NEW q \in Requests, NEW r \in Requests,
         txn[q].op \in Mailers, txn[q].phase = "flushed",
         txn[r].op \in Mailers, txn[r].phase = "flushed", txn[q].target = txn[r].target
  PROVE  q = r
<1>1. txn[q].user = txn[r].user
  BY DEF TokenInv, Holds, Sent
<1> QED BY <1>1 DEF TokenInv, RowLocked, Mailers

(* A request that fails: its mail is in vain.                              *)
LEMMA FailToken ==
  ASSUME TypeInv, TokenInv, NEW r \in Requests, Fail(r)
  PROVE  TokenInv'
<1>1. PICK t : t = txn[r]
  OBVIOUS
<1>2. PICK gone : gone = {m \in DOMAIN mails :
                 /\ mails[m].sent = "PENDING" /\ t.phase = "flushed" /\ t.target = m
                 /\ t.op \in Mailers}
  OBVIOUS
<1>3. /\ mails' = [m \in DOMAIN mails |->
                     IF m \in gone THEN [mails[m] EXCEPT !.sent = "LOST"] ELSE mails[m]]
      /\ users' = users /\ txn' = [txn EXCEPT ![r] = Idle]
  BY <1>1, <1>2 DEF Fail, Mailers
<1>4. DOMAIN mails' = DOMAIN mails /\ \A m \in DOMAIN mails \ gone : mails'[m] = mails[m]
  BY <1>3
<1>5. ASSUME NEW m \in DOMAIN mails
      PROVE  /\ mails'[m].user = mails[m].user /\ mails'[m].kind = mails[m].kind
             /\ mails[m].sent = "LIVE" <=> mails'[m].sent = "LIVE"
             /\ mails'[m].uses = mails[m].uses
             /\ Done(mails[m]) => Done(mails'[m])
  <2>1. PICK row \in Mail : row = mails[m]
    BY MailsAre
  <2>2. PICK y : y = mails'[m]
    OBVIOUS
  <2>3. y = IF m \in gone THEN [row EXCEPT !.sent = "LOST"] ELSE row
    BY <1>3, <2>1, <2>2
  <2>4. row.sent = "LIVE" <=> y.sent = "LIVE"
    BY <1>2, <2>1, <2>3, MailSent
  <2> QED BY <2>1, <2>2, <2>3, <2>4, MailDone
<1>6. /\ DOMAIN txn' = Requests /\ txn'[r] = Idle
      /\ \A q \in Requests \ {r} : Ages(txn[q], txn'[q])
  BY <1>3 DEF TypeInv, Ages
<1>7. Holds(Idle)' /\ Idle.phase # "flushed"
  <2>1. Idle.op = "none" /\ Idle.phase = "idle"
    BY DEF Idle
  <2> QED BY <2>1, NotHolding DEF Mailers
<1>8. RowLocked'
  <2>1. RowLocked
    BY DEF TokenInv
  <2> QED BY <1>6, <1>7, <2>1, LockStep
<1>9. StoredUnused' /\ UsedOnce' /\ NewestWorks'
  BY <1>3, <1>4, <1>5, TokensStay DEF TokenInv
<1>a. \A q \in Requests \ {r} : txn[q].op \in Mailers /\ txn[q].phase = "flushed" =>
        txn[q].target \in DOMAIN mails \ gone
  <2> SUFFICES ASSUME NEW q \in Requests \ {r}, txn[q].op \in Mailers, txn[q].phase = "flushed"
               PROVE  txn[q].target \in DOMAIN mails \ gone
    OBVIOUS
  <2>1. txn[q].target \in DOMAIN mails
    BY DEF TokenInv, Holds
  <2> QED BY <1>1, <1>2, <2>1, OwnMail
<1>b. \A q \in Requests : Holds(txn[q])'
  BY <1>4, <1>5, <1>6, <1>7, <1>a, OthersHold DEF TokenInv
<1> QED BY <1>8, <1>9, <1>b DEF TokenInv

(* Time passes for a token, or for a session.                              *)
LEMMA TokenStays ==
  ASSUME TypeInv, TokenInv, users' = users, txn' = txn, DOMAIN mails' = DOMAIN mails,
         \A m \in DOMAIN mails :
           /\ mails'[m].user = mails[m].user /\ mails'[m].kind = mails[m].kind
           /\ mails'[m].sent = mails[m].sent /\ mails'[m].uses = mails[m].uses
           /\ Done(mails[m]) => Done(mails'[m])
  PROVE  TokenInv'
<1>1. RowLocked'
  BY DEF TokenInv, RowLocked
<1>2. StoredUnused' /\ UsedOnce' /\ NewestWorks'
  BY TokensStay DEF TokenInv
<1>3. ASSUME NEW q \in Requests PROVE Holds(txn[q])'
  <2>1. PICK x : x = txn[q]
    OBVIOUS
  <2>2. Asks(x) /\ Holds(x) /\ Ages(x, x)
    BY <2>1 DEF TypeInv, TokenInv, Ages
  <2>3. x.op \in Mailers /\ x.phase = "flushed" => x.target \in DOMAIN mails
    BY <2>2 DEF Holds
  <2>4. Holds(x)'
    BY <2>2, <2>3, HoldsKept
  <2> QED BY <2>1, <2>4 DEF Holds, Sent
<1> QED BY <1>1, <1>2, <1>3 DEF TokenInv

(* A token that expires is as used, and as newest, as it was.              *)
LEMMA ExpireTokenInv ==
  ASSUME TypeInv, TokenInv, NEW m \in DOMAIN mails, ExpireToken(m)
  PROVE  TokenInv'
<1>1. PICK row \in Mail : row = mails[m]
  BY MailsAre
<1>2. PICK y : y = [row EXCEPT !.expired = TRUE]
  OBVIOUS
<1>3. /\ y.user = row.user /\ y.kind = row.kind /\ y.uses = row.uses /\ y.sent = row.sent
      /\ Done(row) => Done(y)
  BY <1>2, MailExpired, MailDone
<1>4. mails' = [mails EXCEPT ![m] = y] /\ users' = users /\ txn' = txn
  BY <1>1, <1>2 DEF ExpireToken
<1>5. ASSUME NEW i \in DOMAIN mails
      PROVE  /\ mails'[i].user = mails[i].user /\ mails'[i].kind = mails[i].kind
             /\ mails'[i].sent = mails[i].sent /\ mails'[i].uses = mails[i].uses
             /\ Done(mails[i]) => Done(mails'[i])
  <2>1. CASE i = m
    <3>1. mails'[i] = y
      BY <1>4, <2>1
    <3> QED BY <1>1, <1>3, <2>1, <3>1
  <2>2. CASE i # m
    BY <1>4, <2>2
  <2> QED BY <2>1, <2>2
<1> QED BY <1>4, <1>5, TokenStays

(* A step that touches neither users, mails nor requests.                  *)
LEMMA UntouchedToken ==
  ASSUME TypeInv, TokenInv, UNCHANGED <<users, mails, txn>>
  PROVE  TokenInv'
  BY TokenStays

(* A mail's token is stored: the row lock makes it the newest there is.    *)
LEMMA CommitMailToken ==
  ASSUME TypeInv, TokenInv, NEW r \in Requests, CommitMail(r)
  PROVE  TokenInv'
<1>1. PICK t : t = txn[r]
  OBVIOUS
<1>2. PICK u : u = t.user
  OBVIOUS
<1>3. PICK m : m = t.target
  OBVIOUS
<1>4. PICK kind \in {"reset", "verification"} :
        kind = IF t.op = "forgotPassword" THEN "reset" ELSE "verification"
  OBVIOUS
<1>5. /\ t.row \in UserRow /\ t.view \in UserRow /\ Wants(t) /\ u \in Users
      /\ users' = [users EXCEPT ![u] = SaveUser(@, t.view, t.row)]
  BY <1>1, <1>2, SaverIs
<1>6. t.op \in Mailers /\ t.phase = "flushed"
  BY <1>1 DEF CommitMail, Ready, Mailers
<1>7. /\ m \in DOMAIN mails /\ Sent(m, u, kind, "PENDING") /\ mails[m].uses = 0
      /\ \A i \in DOMAIN mails : mails[i].user = u => i <= m
  BY <1>1, <1>2, <1>3, <1>4, <1>6 DEF TokenInv, Holds
<1>8. PICK row \in Mail : row = mails[m]
  BY <1>7, MailsAre
<1>9. PICK y : y = [row EXCEPT !.sent = "LIVE"]
  OBVIOUS
<1>a. /\ y.user = u /\ y.kind = kind /\ y.sent = "LIVE" /\ y.uses = 0
      /\ Done(row) => Done(y)
  BY <1>7, <1>8, <1>9, MailSent, MailDone DEF Sent
<1>b. /\ mails' = [mails EXCEPT ![m] = y]
      /\ txn' = [q \in Requests |-> IF q = r THEN Idle ELSE txn[q]]
  BY <1>1, <1>3, <1>8, <1>9 DEF CommitMail, End
<1>c. /\ DOMAIN mails' = DOMAIN mails /\ mails'[m] = y
      /\ \A i \in DOMAIN mails : i # m => mails'[i] = mails[i]
  BY <1>7, <1>b
<1>d. /\ DOMAIN txn' = Requests /\ txn'[r] = Idle
      /\ \A q \in Requests \ {r} : Ages(txn[q], txn'[q])
  BY <1>b, EndAges
<1>e. Holds(Idle)' /\ Idle.phase # "flushed"
  <2>1. Idle.op = "none" /\ Idle.phase = "idle"
    BY DEF Idle
  <2> QED BY <2>1, NotHolding DEF Mailers
<1>f. RowLocked'
  <2>1. RowLocked
    BY DEF TokenInv
  <2> QED BY <1>d, <1>e, <2>1, LockStep
<1>g. /\ Token(users'[u], kind) = m
      /\ \A v \in Users, k \in {"reset", "verification"} :
           v # u \/ k # kind => Token(users'[v], k) = Token(users[v], k)
  <2>1. /\ users'[u].reset = IF t.row.reset # t.view.reset THEN t.row.reset ELSE users[u].reset
        /\ users'[u].verification =
              IF t.row.verification # t.view.verification THEN t.row.verification
              ELSE users[u].verification
        /\ \A v \in Users : v # u => users'[v] = users[v]
    BY <1>5, SavedRow
  <2>2. t.view.reset \in Nat /\ t.view.verification \in Nat
    BY <1>5 DEF UserRow
  <2>3. CASE t.op = "forgotPassword"
    <3>1. t.row.reset = m /\ t.view.reset < m /\ t.row.verification = t.view.verification
      BY <1>3, <1>5, <1>6, <2>3 DEF Wants, Mailers
    <3>2. users'[u].reset = m /\ users'[u].verification = users[u].verification
      BY <1>3, <2>1, <2>2, <3>1
    <3> QED BY <1>4, <2>1, <2>3, <3>2 DEF Token
  <2>4. CASE t.op = "sendVerification"
    <3>1. t.row.verification = m /\ t.view.verification < m /\ t.row.reset = t.view.reset
      BY <1>3, <1>5, <1>6, <2>4 DEF Wants, Mailers
    <3>2. users'[u].verification = m /\ users'[u].reset = users[u].reset
      BY <1>3, <2>1, <2>2, <3>1
    <3> QED BY <1>4, <2>1, <2>4, <3>2 DEF Token
  <2> QED BY <1>6, <2>3, <2>4 DEF Mailers
<1>h. StoredUnused'
  <2> SUFFICES ASSUME NEW v \in Users, NEW k \in {"reset", "verification"},
                      NEW n, n = Token(users'[v], k), n # 0
               PROVE  /\ mails'[n].user = v /\ mails'[n].kind = k /\ mails'[n].sent = "LIVE"
                      /\ mails'[n].uses = 0
    BY DEF StoredUnused, Sent, Token
  <2>1. CASE v = u /\ k = kind
    BY <1>a, <1>c, <1>g, <2>1
  <2>2. CASE v # u \/ k # kind
    <3>1. n = Token(users[v], k)
      BY <1>g, <2>2
    <3>2. Sent(n, v, k, "LIVE") /\ mails[n].uses = 0
      BY <3>1 DEF TokenInv, StoredUnused
    <3>3. n \in DOMAIN mails
      BY <3>1, RowsAre DEF Token
    <3>4. n # m
      BY <1>7, <3>2 DEF Sent
    <3> QED BY <1>c, <3>2, <3>3, <3>4 DEF Sent
  <2> QED BY <2>1, <2>2
<1>i. UsedOnce'
  BY <1>a, <1>c DEF TokenInv, UsedOnce
<1>j. NewestWorks'
  <2> SUFFICES ASSUME NEW v \in Users, NEW k \in {"reset", "verification"}, NEW n \in DOMAIN mails',
                      Newest(n, v, k)', n # Token(users'[v], k)
               PROVE  Done(mails'[n])
    BY DEF NewestWorks
  <2>1. n \in DOMAIN mails /\ n \in Nat /\ m \in Nat
    BY <1>7, <1>c, MailsAre
  <2>2. v # u \/ k # kind
    <3> SUFFICES ASSUME v = u, k = kind PROVE FALSE
      OBVIOUS
    <3>1. m <= n
      BY <1>7, <1>a, <1>c DEF Newest, Sent
    <3>2. mails[n].user = u
      BY <1>7, <1>c, <2>1 DEF Newest, Sent
    <3>3. n <= m
      BY <1>7, <2>1, <3>2
    <3> QED BY <1>g, <2>1, <3>1, <3>3
  <2>3. n # m
    BY <1>a, <1>c, <2>2 DEF Newest, Sent
  <2>4. \A i \in DOMAIN mails : Sent(i, v, k, "LIVE") => Sent(i, v, k, "LIVE")'
    BY <1>7, <1>c DEF Sent
  <2>5. Newest(n, v, k)
    BY <1>c, <2>1, <2>3, <2>4 DEF Newest, Sent
  <2>6. n # Token(users[v], k)
    BY <1>g, <2>2
  <2>7. Done(mails[n])
    BY <2>1, <2>5, <2>6 DEF TokenInv, NewestWorks
  <2> QED BY <1>c, <2>1, <2>3, <2>7
<1>k. \A q \in Requests : Holds(txn[q])'
  <2>1. \A q \in Requests \ {r} : txn[q].op \in Mailers /\ txn[q].phase = "flushed" =>
          txn[q].target \in DOMAIN mails /\ txn[q].target # m
    <3> SUFFICES ASSUME NEW q \in Requests \ {r}, txn[q].op \in Mailers, txn[q].phase = "flushed"
                 PROVE  txn[q].target \in DOMAIN mails /\ txn[q].target # m
      OBVIOUS
    <3>1. txn[q].target \in DOMAIN mails
      BY DEF TokenInv, Holds
    <3> QED BY <1>1, <1>3, <1>6, <3>1, OwnMail
  <2>2. \A i \in DOMAIN mails :
           /\ mails'[i].user = mails[i].user /\ mails'[i].kind = mails[i].kind
           /\ mails[i].sent = "LIVE" => mails'[i].sent = "LIVE"
    BY <1>7, <1>a, <1>c DEF Sent
  <2> QED BY <1>c, <1>d, <1>e, <2>1, <2>2, OthersHold DEF TokenInv
<1> QED BY <1>f, <1>h, <1>i, <1>j, <1>k DEF TokenInv

(* A use settles the token used and the token it finds stored.             *)
LEMMA UsedSettles ==
  ASSUME mails \in Seq(Mail), NEW m, NEW stored, NEW x, x = Used(m, 0, stored),
         NEW i \in DOMAIN mails
  PROVE  Done(mails[i]) \/ i = m \/ i = stored => Done(x[i])
<1>1. /\ x[i].uses = IF i = m /\ mails[i].uses = 0 THEN mails[i].uses + 1 ELSE mails[i].uses
      /\ mails[i].crossed \/ (i = stored /\ i # m) => x[i].crossed
  BY ONLY mails \in Seq(Mail), x = Used(m, 0, stored), i \in DOMAIN mails, UsedIs
<1>2. mails[i].uses \in Nat
  <2>1. mails[i] \in Mail
    BY ONLY mails \in Seq(Mail), i \in DOMAIN mails
  <2> QED BY <2>1 DEF Mail
<1>3. i = m \/ mails[i].uses > 0 => x[i].uses > 0
  <2>1. x[i].uses = IF i = m /\ mails[i].uses = 0 THEN mails[i].uses + 1 ELSE mails[i].uses
    BY <1>1, Zenon
  <2> QED BY ONLY <1>2, <2>1
<1>4. mails[i].crossed \/ (i = stored /\ i # m) => x[i].crossed
  BY <1>1, Zenon
<1> QED BY ONLY <1>3, <1>4, Zenon DEF Done

(* A used token is cleared, and the one that was stored with it.           *)
LEMMA UseToken ==
  ASSUME TypeInv, TokenInv, NEW r \in Requests, NEW t, t = txn[r], NEW u, u = t.user,
         NEW kind \in {"reset", "verification"},
         t.op = IF kind = "reset" THEN "resetPassword" ELSE "verifyEmail",
         t.row \in UserRow, t.view \in UserRow, Wants(t), u \in Users,
         users' = [users EXCEPT ![u] = SaveUser(@, t.view, t.row)],
         mails' = Used(t.target, t.usesRead, Token(users[u], kind)),
         DOMAIN txn' = Requests, txn'[r] = Idle,
         \A q \in Requests \ {r} : Ages(txn[q], txn'[q])
  PROVE  TokenInv'
<1>1. PICK m : m = t.target
  OBVIOUS
<1>2. PICK stored : stored = Token(users[u], kind)
  OBVIOUS
<1>3. m \in DOMAIN mails /\ Sent(m, u, kind, "LIVE") /\ t.usesRead = 0
  BY <1>1 DEF TokenInv, Holds
<1>4. mails' = Used(m, 0, stored) /\ mails \in Seq(Mail)
  BY <1>1, <1>2, <1>3, Unwritten
<1>5. /\ DOMAIN mails' = DOMAIN mails
      /\ \A i \in DOMAIN mails :
           /\ mails'[i].user = mails[i].user /\ mails'[i].kind = mails[i].kind
           /\ mails'[i].sent = mails[i].sent
           /\ mails'[i].uses = IF i = m /\ mails[i].uses = 0 THEN mails[i].uses + 1 ELSE mails[i].uses
  BY ONLY <1>4, UsedIs
<1>6. \A i \in DOMAIN mails : Done(mails[i]) \/ i = m \/ i = stored => Done(mails'[i])
  BY ONLY <1>4, UsedSettles
<1>7. /\ Token(users'[u], kind) = 0
      /\ \A v \in Users, k \in {"reset", "verification"} :
           v # u \/ k # kind => Token(users'[v], k) = Token(users[v], k)
  <2>1. /\ users'[u].reset = IF t.row.reset # t.view.reset THEN t.row.reset ELSE users[u].reset
        /\ users'[u].verification =
              IF t.row.verification # t.view.verification THEN t.row.verification
              ELSE users[u].verification
        /\ \A v \in Users : v # u => users'[v] = users[v]
    BY ONLY TypeInv, t.row \in UserRow, t.view \in UserRow, u \in Users, SavedRow,
            users' = [users EXCEPT ![u] = SaveUser(@, t.view, t.row)]
  <2>2. CASE kind = "reset"
    <3>1. t.row.reset = 0 /\ t.view.reset # 0 /\ t.row.verification = t.view.verification
      BY <2>2 DEF Wants
    <3> QED BY <2>1, <2>2, <3>1 DEF Token
  <2>3. CASE kind = "verification"
    <3>1. t.row.verification = 0 /\ t.view.verification # 0 /\ t.row.reset = t.view.reset
      BY <2>3 DEF Wants
    <3> QED BY <2>1, <2>3, <3>1 DEF Token
  <2> QED BY <2>2, <2>3
<1>8. Holds(Idle)' /\ Idle.phase # "flushed"
  <2>1. Idle.op = "none" /\ Idle.phase = "idle"
    BY DEF Idle
  <2> QED BY <2>1, NotHolding DEF Mailers
<1>9. RowLocked'
  <2>1. RowLocked
    BY DEF TokenInv
  <2> QED BY <1>8, <2>1, LockStep
<1>a. StoredUnused'
  <2>1. ASSUME NEW v \in Users, NEW k \in {"reset", "verification"},
               NEW n, n = Token(users'[v], k), n # 0
        PROVE  /\ mails'[n].user = v /\ mails'[n].kind = k /\ mails'[n].sent = "LIVE"
               /\ mails'[n].uses = 0
    <3>1. (v # u \/ k # kind) /\ n = Token(users[v], k)
      BY <1>7, <2>1
    <3>2. Sent(n, v, k, "LIVE") /\ mails[n].uses = 0
      BY <2>1, <3>1 DEF TokenInv, StoredUnused
    <3>3. n \in DOMAIN mails
      BY <2>1, <3>1, RowsAre DEF Token
    <3>4. n # m
      BY <1>3, <3>1, <3>2 DEF Sent
    <3> QED BY <1>5, <3>2, <3>3, <3>4 DEF Sent
  <2> QED BY ONLY <2>1 DEF StoredUnused, Sent, Token
<1>b. UsedOnce'
  <2> SUFFICES ASSUME NEW i \in DOMAIN mails PROVE mails'[i].uses <= 1
    BY <1>5 DEF UsedOnce
  <2>1. mails[i].uses \in Nat /\ mails[i].uses <= 1
    BY MailsAre DEF TokenInv, UsedOnce
  <2> QED BY <1>5, <2>1
<1>c. NewestWorks'
  <2> SUFFICES ASSUME NEW v \in Users, NEW k \in {"reset", "verification"}, NEW n \in DOMAIN mails',
                      Newest(n, v, k)', n # Token(users'[v], k)
               PROVE  Done(mails'[n])
    BY DEF NewestWorks
  <2>1. n \in DOMAIN mails /\ Newest(n, v, k)
    BY <1>5 DEF Newest, Sent
  <2>2. n = Token(users[v], k) \/ Done(mails[n])
    BY <2>1 DEF TokenInv, NewestWorks
  <2>3. n = Token(users[v], k) => n = stored
    BY <1>2, <1>7
  <2> QED BY <1>6, <2>1, <2>2, <2>3
<1>d. \A q \in Requests : Holds(txn[q])'
  <2>1. \A q \in Requests \ {r} : txn[q].op \in Mailers /\ txn[q].phase = "flushed" =>
          txn[q].target \in DOMAIN mails /\ txn[q].target # m
    BY <1>3 DEF TokenInv, Holds, Sent
  <2> QED BY <1>5, <1>8, <2>1, OthersHold DEF TokenInv
<1> QED BY <1>9, <1>a, <1>b, <1>c, <1>d DEF TokenInv

(* The two operations that use a mailed token.                             *)
LEMMA UsesToken ==
  ASSUME TypeInv, TokenInv, NEW r \in Requests,
         CommitVerifyEmail(r) \/ (CommitPassword(r) /\ txn[r].op = "resetPassword")
  PROVE  TokenInv'
<1>1. PICK t : t = txn[r]
  OBVIOUS
<1>2. PICK u : u = t.user
  OBVIOUS
<1>3. /\ t.row \in UserRow /\ t.view \in UserRow /\ Wants(t) /\ u \in Users
      /\ users' = [users EXCEPT ![u] = SaveUser(@, t.view, t.row)]
      /\ \/ txn' = [q \in Requests |-> IF q = r THEN Idle ELSE txn[q]]
         \/ txn' = [q \in Requests |-> IF q = r THEN Idle ELSE SeesOldProfile(u, txn[q])]
  BY <1>1, <1>2, SaverIs
<1>4. /\ DOMAIN txn' = Requests /\ txn'[r] = Idle
      /\ \A q \in Requests \ {r} : Ages(txn[q], txn'[q])
  BY <1>3, EndAges
<1>5. PICK kind \in {"reset", "verification"} :
        /\ t.op = IF kind = "reset" THEN "resetPassword" ELSE "verifyEmail"
        /\ mails' = Used(t.target, t.usesRead, Token(users[u], kind))
  BY <1>1, <1>2 DEF CommitVerifyEmail, CommitPassword, Ready, Token
<1> QED BY <1>1, <1>2, <1>3, <1>4, <1>5, UseToken

(* At the start nothing has been mailed.                                   *)
LEMMA TokenInit == Init => TokenInv
<1> SUFFICES ASSUME Init PROVE TokenInv
  OBVIOUS
<1>1. Idle.op = "none" /\ Idle.phase = "idle"
  BY DEF Idle
<1>2. RowLocked /\ UsedOnce /\ \A r \in Requests : Holds(txn[r])
  BY <1>1 DEF Init, RowLocked, UsedOnce, Holds, Mailers
<1>3. StoredUnused /\ NewestWorks
  BY DEF Init, NoUser, StoredUnused, NewestWorks, Token, Newest
<1> QED BY <1>2, <1>3 DEF TokenInv

(* Every action keeps what the tokens promise.                             *)
LEMMA TokenNext ==
  ASSUME TypeInv, TokenInv, [Next]_idVars
  PROVE  TokenInv'
<1>1. CASE UNCHANGED idVars
  BY <1>1, UntouchedToken DEF idVars
<1>2. ASSUME NEW r \in Requests,
             \/ \E u \in Users : Signup(r, u) \/ Login(r, u) \/ ForgotPassword(r, u)
             \/ \E s \in DOMAIN sessions :
                  \/ RefreshToken(r, s) \/ RevokeSession(r, s)
                  \/ \E op \in Guarded : Validate(r, op, s)
             \/ \E u \in Users, m \in DOMAIN mails : ResetPassword(r, u, m) \/ VerifyEmail(r, u, m)
             \/ Logout(r) \/ LogoutAllDevices(r) \/ ChangePassword(r)
             \/ UpdateProfile(r) \/ SendVerificationEmail(r) \/ Fail(r)
             \/ FlushPassword(r) \/ RevokeAllByUserId(r) \/ FlushProfile(r)
             \/ SendPasswordResetEmail(r) \/ SendEmailVerificationEmail(r)
      PROVE  TokenInv'
  BY <1>2, ReadersToken, UsersToken, FlushersToken, SendToken, FailToken
<1>3. ASSUME NEW r \in Requests,
             \/ CommitSignup(r) \/ CommitLogin(r) \/ CommitRefresh(r) \/ CommitEndSession(r)
             \/ LogoutAgain(r) \/ CommitLogoutAll(r) \/ CommitPassword(r) \/ CommitMail(r)
             \/ CommitUpdateProfile(r) \/ CommitVerifyEmail(r)
      PROVE  TokenInv'
  <2>1. CommitPassword(r) => txn[r].op \in {"changePassword", "resetPassword"}
    BY DEF CommitPassword, Ready
  <2> QED BY <1>3, <2>1, CommitsToken, CommitMailToken, UsesToken
<1>4. CASE \E s \in DOMAIN sessions : ExpireSession(s)
  BY <1>4, UntouchedToken DEF ExpireSession
<1>5. CASE \E m \in DOMAIN mails : ExpireToken(m)
  BY <1>5, ExpireTokenInv
<1> QED BY <1>1, <1>2, <1>3, <1>4, <1>5 DEF Next

(* The token in a row is unused and the newest of its kind, and a use      *)
(* that finds it clears it, in every reachable state.                      *)
LEMMA TokenSafe == Spec => [](TypeInv /\ TokenInv)
<1>1. TypeInv /\ TokenInv /\ [Next]_idVars => (TypeInv /\ TokenInv)'
  BY TypeStays, TypeNext, TokenNext
<1> QED BY <1>1, TypeInit, TokenInit, PTL DEF Spec

(* A refresh token is exchanged once, and a mailed token works once unless *)
(* two requests use it together.                                           *)
THEOREM TokensUsedOnce == Spec => []TokensWorkOnce
<1>1. SessionInv /\ TokenInv => TokensWorkOnce
  BY DEF SessionInv, ExchangedOnce, TokenInv, UsedOnce, TokensWorkOnce
<1> QED BY <1>1, SessionSafe, TokenSafe, PTL

(* The newest mail whose request succeeded holds the token in the user's   *)
(* row: the row lock orders the mails as it orders the tokens.             *)
THEOREM NewestMailsWork == Spec => []NewestMailWorks
<1>1. ASSUME NewestWorks, NEW u \in Users, NEW kind \in {"reset", "verification"}, NEW live,
             live = {m \in DOMAIN mails :
                       mails[m].user = u /\ mails[m].kind = kind /\ mails[m].sent = "LIVE"},
             NEW m \in live, \A n \in live : n <= m
      PROVE  \/ m = IF kind = "reset" THEN users[u].reset ELSE users[u].verification
             \/ mails[m].uses > 0 \/ mails[m].crossed
  <2>1. Newest(m, u, kind)
    BY <1>1, Zenon DEF Newest, Sent
  <2>2. m \in DOMAIN mails
    BY <1>1
  <2>3. m = Token(users[u], kind) \/ Done(mails[m])
    BY <1>1, <2>1, <2>2, Zenon DEF NewestWorks
  <2> QED BY <2>3, Zenon DEF Token, Done
<1>2. TokenInv => NewestMailWorks
  BY <1>1, Zenon DEF TokenInv, NewestMailWorks
<1> QED BY <1>2, TokenSafe, PTL
-----------------------------------------------------------------------------
(* Profile events.  A marked request has read what it had read.            *)
LEMMA AgesReads ==
  ASSUME NEW x, NEW y, Asks(x), Ages(x, y), ReadsProfile(x),
         \/ Overlapped(y)
         \/ SameProfile(users'[x.user], users[x.user])
         \/ x.op \notin {"updateProfile", "verifyEmail"}
  PROVE  ReadsProfile(y)'
<1>1. y.op = x.op /\ y.phase = x.phase /\ y.user = x.user /\ y.view = x.view
  BY AgesAre DEF Asks
<1>2. Overlapped(x) => Overlapped(y)
  BY Zenon DEF Ages, Asks, Idle, Overlapped
<1> QED BY <1>1, <1>2 DEF ReadsProfile, SameProfile

(* A step that changes nobody's name or status and stores no event.        *)
LEMMA PlainEvent ==
  ASSUME TypeInv, EventInv, events' = events,
         \A u \in Users : SameProfile(users'[u], users[u]),
         NEW r \in Requests, DOMAIN txn' = Requests,
         \A q \in Requests \ {r} : Ages(txn[q], txn'[q]),
         NEW z, z = txn'[r], ReadsProfile(z)'
  PROVE  EventInv'
<1>1. NewestSays'
  BY DEF EventInv, NewestSays, NewestEvent, SameProfile
<1>2. ASSUME NEW q \in Requests, q # r PROVE ReadsProfile(txn[q])'
  <2>1. PICK x : x = txn[q]
    OBVIOUS
  <2>2. PICK y : y = txn'[q]
    OBVIOUS
  <2>3. Asks(x) /\ ReadsProfile(x) /\ Ages(x, y)
    BY <1>2, <2>1, <2>2 DEF TypeInv, EventInv
  <2>4. x.op = "none" \/ x.user \in Users
    BY <2>3 DEF Asks
  <2>5. ReadsProfile(y)'
    BY <2>3, <2>4, AgesReads
  <2> QED BY <2>2, <2>5 DEF ReadsProfile
<1>3. ReadsProfile(txn[r])'
  BY DEF ReadsProfile
<1> QED BY <1>1, <1>2, <1>3 DEF EventInv

(* A handler reads the row of its user as it is. *)
LEMMA ReadersRead ==
  ASSUME TypeInv, NEW r \in Requests,
         \/ \E u \in Users : Signup(r, u) \/ Login(r, u) \/ ForgotPassword(r, u)
         \/ \E s \in DOMAIN sessions :
              \/ RefreshToken(r, s) \/ RevokeSession(r, s)
              \/ \E op \in Guarded : Validate(r, op, s)
         \/ \E u \in Users, m \in DOMAIN mails : ResetPassword(r, u, m) \/ VerifyEmail(r, u, m)
         \/ Logout(r) \/ LogoutAllDevices(r) \/ ChangePassword(r)
         \/ UpdateProfile(r) \/ SendVerificationEmail(r)
  PROVE  \E x : Keep(r, x) /\ (x.phase = "guarded" \/ x.view = users[x.user])
<1>1. DOMAIN <<>> = {}
  OBVIOUS
<1>2. \A a, b, c : /\ DOMAIN [row |-> a] = {"row"} /\ DOMAIN [target |-> a] = {"target"}
                   /\ DOMAIN [target |-> a, row |-> b] = {"target", "row"}
                   /\ DOMAIN [target |-> a, usesRead |-> b, row |-> c] = {"target", "usesRead", "row"}
  OBVIOUS
<1>3. CASE \/ \E u \in Users : Signup(r, u) \/ Login(r, u) \/ ForgotPassword(r, u)
           \/ \E s \in DOMAIN sessions : RefreshToken(r, s)
           \/ \E u \in Users, m \in DOMAIN mails : ResetPassword(r, u, m) \/ VerifyEmail(r, u, m)
  <2>1. PICK op, u, more : DOMAIN more \subseteq {"target", "row", "usesRead"} /\ Start(r, op, u, more)
    <3>1. \/ \E op, u, row : Start(r, op, u, [row |-> row])
          \/ \E u : Start(r, "login", u, <<>>)
          \/ \E u, s : Start(r, "refresh", u, [target |-> s])
          \/ \E op, u, m, uses, row :
               Start(r, op, u, [target |-> m, usesRead |-> uses, row |-> row])
      BY <1>3 DEF Signup, Login, ForgotPassword, RefreshToken, ResetPassword, VerifyEmail
    <3> QED BY <1>1, <1>2, <3>1
  <2>2. PICK x : x = Begun(op, u, more)
    OBVIOUS
  <2>3. Keep(r, x) /\ x.view = users[x.user]
    BY <2>1, <2>2 DEF Begun, With, Idle, Start
  <2> QED BY <2>3
<1>4. CASE \E s \in DOMAIN sessions, op \in Guarded : Validate(r, op, s)
  <2>1. PICK s, op, x : /\ x = [Idle EXCEPT !.op = op, !.phase = "guarded",
                                            !.user = sessions[s].user, !.own = s]
                        /\ Keep(r, x)
    BY <1>4 DEF Validate
  <2>2. x.phase = "guarded"
    BY <2>1 DEF Idle
  <2> QED BY <2>1, <2>2
<1>5. CASE \/ \E s \in DOMAIN sessions : RevokeSession(r, s)
           \/ Logout(r) \/ LogoutAllDevices(r) \/ ChangePassword(r)
           \/ UpdateProfile(r) \/ SendVerificationEmail(r)
  <2>1. PICK more : DOMAIN more \subseteq {"target", "row"} /\ Read(r, more)
    <3>1. \/ \E s : Read(r, [target |-> s])
          \/ Read(r, <<>>)
          \/ \E row : Read(r, [row |-> row])
          \/ \E target, row : Read(r, [target |-> target, row |-> row])
      BY <1>5 DEF RevokeSession, Logout, LogoutAllDevices, ChangePassword, UpdateProfile,
                  SendVerificationEmail
    <3> QED BY <1>1, <1>2, <3>1
  <2>2. PICK x : x = Entering(r, more)
    OBVIOUS
  <2>3. DOMAIN txn[r] = DOMAIN Idle
    BY DEF TypeInv, Asks
  <2>4. Keep(r, x) /\ x.view = users[x.user]
    BY <2>1, <2>2, <2>3 DEF Entering, With, Idle, Read
  <2> QED BY <2>4
<1> QED BY <1>3, <1>4, <1>5

(* Nothing but a commit changes what a user's row says.                    *)
LEMMA ReadersEvent ==
  ASSUME TypeInv, EventInv, NEW r \in Requests, NEW x, Keep(r, x), ReadsProfile(x)
  PROVE  EventInv'
<1>1. users' = users /\ events' = events /\ txn' = [txn EXCEPT ![r] = x]
  BY DEF Keep, tables
<1>2. txn'[r] = x /\ DOMAIN txn' = Requests /\ \A q \in Requests \ {r} : Ages(txn[q], txn'[q])
  BY <1>1 DEF TypeInv, Ages
<1>3. ReadsProfile(x)' /\ \A u \in Users : SameProfile(users'[u], users[u])
  BY <1>1 DEF ReadsProfile, SameProfile
<1> QED BY <1>1, <1>2, <1>3, PlainEvent

(* A flush stores no event.                                                *)
LEMMA FlushersEvent ==
  ASSUME TypeInv, EventInv, NEW r \in Requests,
         FlushPassword(r) \/ RevokeAllByUserId(r) \/ FlushProfile(r)
  PROVE  EventInv'
<1>1. PICK t : t = txn[r]
  OBVIOUS
<1>2. DOMAIN t = DOMAIN Idle /\ ReadsProfile(t) /\ t.phase = "read"
  BY <1>1 DEF TypeInv, Asks, EventInv, FlushPassword, RevokeAllByUserId, FlushProfile, FlushUser
<1>3. PICK D, x : /\ \/ x = [t EXCEPT !.phase = "flushed", !.doomed = D]
                     \/ x = [t EXCEPT !.phase = "flushed"]
                  /\ Keep(r, x)
  BY <1>1 DEF FlushPassword, RevokeAllByUserId, FlushProfile
<1>4. x.op = t.op /\ x.user = t.user /\ x.view = t.view /\ x.overlap = t.overlap
  BY <1>2, <1>3 DEF Idle
<1>5. Overlapped(t) => Overlapped(x)
  BY <1>4, Zenon DEF Overlapped
<1>6. ReadsProfile(x)
  BY <1>2, <1>4, <1>5 DEF ReadsProfile, InRow
<1> QED BY <1>3, <1>6, ReadersEvent

(* Nor does a mail.                                                        *)
LEMMA SendEvent ==
  ASSUME TypeInv, EventInv, NEW r \in Requests,
         SendPasswordResetEmail(r) \/ SendEmailVerificationEmail(r)
  PROVE  EventInv'
<1>1. PICK t : t = txn[r]
  OBVIOUS
<1>2. PICK y : y = txn'[r]
  OBVIOUS
<1>3. PICK m, kind : txn' = [txn EXCEPT ![r].phase = "flushed", ![r].target = m, ![r].row[kind] = m]
  BY DEF SendPasswordResetEmail, SendEmailVerificationEmail, SendMail
<1>4. t.op \in Mailers /\ DOMAIN t = DOMAIN Idle
  BY <1>1 DEF SendPasswordResetEmail, SendEmailVerificationEmail, Mailers, TypeInv, Asks
<1>5. y.op = t.op /\ DOMAIN txn' = Requests /\ \A q \in Requests \ {r} : Ages(txn[q], txn'[q])
  BY <1>1, <1>2, <1>3, <1>4 DEF Idle, TypeInv, Ages
<1>6. ReadsProfile(y)'
  BY <1>4, <1>5 DEF ReadsProfile, Mailers
<1>7. events' = events /\ users' = users
  BY DEF SendPasswordResetEmail, SendEmailVerificationEmail, SendMail
<1>8. \A u \in Users : SameProfile(users'[u], users[u])
  BY <1>7 DEF SameProfile
<1> QED BY <1>2, <1>5, <1>6, <1>7, <1>8, PlainEvent

(* A request that is idle has read nothing.                                *)
LEMMA IdleReads == ReadsProfile(Idle) /\ ReadsProfile(Idle)'
  BY DEF ReadsProfile, Idle

(* The commits that leave name and status alone.                           *)
LEMMA CommitsEvent ==
  ASSUME TypeInv, EventInv, NEW r \in Requests,
         \/ CommitLogin(r) \/ CommitRefresh(r) \/ CommitEndSession(r) \/ LogoutAgain(r)
         \/ CommitLogoutAll(r) \/ CommitPassword(r) \/ CommitMail(r) \/ Fail(r)
  PROVE  EventInv'
<1>1. /\ DOMAIN txn' = Requests /\ txn'[r] = Idle
      /\ \A q \in Requests \ {r} : Ages(txn[q], txn'[q])
  <2>1. PICK s :
          \/ txn' = [q \in Requests |-> IF q = r THEN Idle ELSE txn[q]]
          \/ txn' = [q \in Requests |-> IF q = r THEN Idle ELSE MissesSuccessor(s, txn[q])]
          \/ txn' = [txn EXCEPT ![r] = Idle]
    BY DEF CommitLogin, CommitRefresh, CommitEndSession, LogoutAgain, CommitLogoutAll,
           CommitPassword, CommitMail, Fail, End
  <2>2. CASE txn' = [txn EXCEPT ![r] = Idle]
    BY <2>2 DEF TypeInv, Ages
  <2> QED BY <2>1, <2>2, EndAges
<1>2. events' = events
  BY DEF CommitLogin, CommitRefresh, CommitEndSession, LogoutAgain, CommitLogoutAll,
         CommitPassword, CommitMail, Fail
<1>3. \A u \in Users : SameProfile(users'[u], users[u])
  <2>1. CASE CommitPassword(r) \/ CommitMail(r)
    <3>1. PICK t : t = txn[r]
      OBVIOUS
    <3>2. PICK v : v = t.user
      OBVIOUS
    <3>3. /\ t.row \in UserRow /\ t.view \in UserRow /\ Wants(t) /\ v \in Users
          /\ users' = [users EXCEPT ![v] = SaveUser(@, t.view, t.row)]
      BY <2>1, <3>1, <3>2, SaverIs
    <3>4. t.op \notin {"updateProfile", "verifyEmail"}
      BY <2>1, <3>1 DEF CommitPassword, CommitMail, Ready
    <3>5. t.row.name = t.view.name /\ t.row.status = t.view.status
      BY <3>3, <3>4 DEF Wants
    <3>6. /\ users'[v].status = users[v].status /\ users'[v].name = users[v].name
          /\ \A u \in Users : u # v => users'[u] = users[u]
      BY <3>3, <3>5, SavedRow, ZenonT(60)
    <3> QED BY <3>6 DEF SameProfile
  <2>2. CASE ~(CommitPassword(r) \/ CommitMail(r))
    <3>1. users' = users
      BY <2>2 DEF CommitLogin, CommitRefresh, CommitEndSession, LogoutAgain, CommitLogoutAll, Fail
    <3> QED BY <3>1 DEF SameProfile
  <2> QED BY <2>1, <2>2
<1> QED BY <1>1, <1>2, <1>3, IdleReads, PlainEvent

(* A commit that changes the row, and says so in an event.                 *)
LEMMA AnnounceEvent ==
  ASSUME TypeInv, EventInv, NEW r \in Requests, NEW u \in Users, NEW x \in Event, x.user = u,
         events' = Append(events, x), Overlapped(x) \/ SameProfile(x, users'[u]),
         \A v \in Users : v # u => users'[v] = users[v],
         DOMAIN txn' = Requests, txn'[r] = Idle,
         \A q \in Requests \ {r} :
           \/ txn'[q] = SeesOldProfile(u, txn[q])
           \/ txn'[q] = txn[q] /\ txn[q].user # u
           \/ txn'[q] = txn[q] /\ txn[q].op \notin {"updateProfile", "verifyEmail"}
  PROVE  EventInv'
<1>1. PICK n : n = Len(events) + 1
  OBVIOUS
<1>2. /\ n \notin DOMAIN events /\ DOMAIN events' = DOMAIN events \cup {n} /\ events'[n] = x
      /\ \A e \in DOMAIN events : events'[e] = events[e]
      /\ n \in Nat /\ \A e \in DOMAIN events : e < n
  BY <1>1, Unwritten
<1>3. NewestSays'
  <2>1. ASSUME NEW v \in Users, NEW e \in DOMAIN events', NewestEvent(v, e)'
        PROVE  Overlapped(events'[e]) \/ SameProfile(events'[e], users'[v])
    <3>1. CASE v = u
      <4>1. n <= e
        BY <1>2, <2>1, <3>1 DEF NewestEvent
      <4>2. e = n
        BY <1>2, <4>1
      <4> QED BY <1>2, <3>1, <4>2
    <3>2. CASE v # u
      <4>1. e \in DOMAIN events /\ NewestEvent(v, e)
        BY <1>2, <2>1, <3>2 DEF NewestEvent
      <4>2. Overlapped(events[e]) \/ SameProfile(events[e], users[v])
        BY <4>1 DEF EventInv, NewestSays
      <4> QED BY <1>2, <3>2, <4>1, <4>2
    <3> QED BY <3>1, <3>2
  <2> QED BY ONLY <2>1 DEF NewestSays, SameProfile, Overlapped
<1>4. ASSUME NEW q \in Requests, q # r PROVE ReadsProfile(txn[q])'
  <2>1. PICK y : y = txn[q]
    OBVIOUS
  <2>2. PICK z : z = txn'[q]
    OBVIOUS
  <2>3. Asks(y) /\ ReadsProfile(y)
    BY <2>1 DEF TypeInv, EventInv
  <2>4. \/ z = SeesOldProfile(u, y)
        \/ z = y /\ y.user # u
        \/ z = y /\ y.op \notin {"updateProfile", "verifyEmail"}
    BY <1>4, <2>1, <2>2
  <2>5. Ages(y, z)
    BY <2>4 DEF Ages, SeesOldProfile
  <2>6. CASE y.op \in {"updateProfile", "verifyEmail"} /\ y.phase \in InRow
    <3>1. CASE y.user = u
      <4>1. z = [y EXCEPT !.overlap = TRUE] /\ DOMAIN y = DOMAIN Idle
        BY <2>3, <2>4, <2>6, <3>1 DEF SeesOldProfile, InRow, Asks
      <4>2. Overlapped(z)
        BY <4>1, Zenon DEF Overlapped, Idle
      <4> QED BY <2>2, <4>2 DEF ReadsProfile
    <3>2. CASE y.user # u
      <4>1. y.user \in Users
        BY <2>3, <2>6 DEF Asks
      <4>2. users'[y.user] = users[y.user]
        BY <3>2, <4>1
      <4>3. SameProfile(users'[y.user], users[y.user])
        BY <4>2 DEF SameProfile
      <4>4. ReadsProfile(z)'
        BY <2>3, <2>5, <4>3, AgesReads
      <4> QED BY <2>2, <4>4 DEF ReadsProfile
    <3> QED BY <3>1, <3>2
  <2>7. CASE ~(y.op \in {"updateProfile", "verifyEmail"} /\ y.phase \in InRow)
    <3>1. z.op = y.op /\ z.phase = y.phase
      BY <2>3, <2>5, AgesAre DEF Asks
    <3> QED BY <2>2, <2>7, <3>1 DEF ReadsProfile
  <2> QED BY <2>6, <2>7
<1>5. ReadsProfile(txn[r])'
  BY IdleReads DEF ReadsProfile
<1> QED BY <1>3, <1>4, <1>5 DEF EventInv

(* The event of a signup is the first of its user, and says what the row   *)
(* says.                                                                   *)
LEMMA SignupEvent ==
  ASSUME TypeInv, EventInv, NEW r \in Requests, CommitSignup(r)
  PROVE  EventInv'
<1>1. PICK t : t = txn[r]
  OBVIOUS
<1>2. PICK u : u = t.user
  OBVIOUS
<1>3. PICK x : x = ProfileEvent(t, "REGISTERED", t.row)
  OBVIOUS
<1>4. /\ ~Registered(u) /\ t.op = "signup"
      /\ users' = [users EXCEPT ![u] = t.row] /\ events' = Append(events, x)
      /\ txn' = [q \in Requests |-> IF q = r THEN Idle ELSE txn[q]]
  BY <1>1, <1>2, <1>3 DEF CommitSignup, Ready, End
<1>5. Complete(t.row) /\ t.row \in UserRow /\ u \in Users /\ Marked(t)
  BY <1>1, <1>2, <1>4 DEF TypeInv, Asks
<1>6. x \in Event /\ x.user = u /\ x.name = t.row.name /\ x.status = t.row.status
  BY <1>2, <1>3, <1>5, ProfileEventIs
<1>7. users'[u] = t.row /\ \A v \in Users : v # u => users'[v] = users[v]
  BY <1>4, <1>5, Unwritten
<1>8. SameProfile(x, users'[u])
  BY <1>6, <1>7 DEF SameProfile
<1>9. /\ DOMAIN txn' = Requests /\ txn'[r] = Idle
      /\ \A q \in Requests \ {r} : txn'[q] = txn[q]
  BY <1>4
<1>a. \A q \in Requests \ {r} : txn[q].user # u \/ txn[q].op \notin {"updateProfile", "verifyEmail"}
  BY <1>4 DEF TypeInv, Knows
<1> QED BY <1>4, <1>5, <1>6, <1>7, <1>8, <1>9, <1>a, AnnounceEvent

(* The commits that overtake who has read an old name or status.           *)
LEMMA OvertakersEvent ==
  ASSUME TypeInv, EventInv, NEW r \in Requests, CommitUpdateProfile(r) \/ CommitVerifyEmail(r)
  PROVE  EventInv'
<1>1. PICK t : t = txn[r]
  OBVIOUS
<1>2. PICK u : u = t.user
  OBVIOUS
<1>3. /\ t.row \in UserRow /\ t.view \in UserRow /\ Wants(t) /\ u \in Users
      /\ users' = [users EXCEPT ![u] = SaveUser(@, t.view, t.row)]
  BY <1>1, <1>2, SaverIs
<1>4. /\ t.phase = "flushed" /\ t.op \in {"updateProfile", "verifyEmail"}
      /\ txn' = [q \in Requests |-> IF q = r THEN Idle ELSE SeesOldProfile(u, txn[q])]
  BY <1>1, <1>2 DEF CommitUpdateProfile, CommitVerifyEmail, Ready, End
<1>5. /\ users'[u].status = IF t.row.status # t.view.status THEN t.row.status ELSE users[u].status
      /\ users'[u].name = IF t.row.name # t.view.name THEN t.row.name ELSE users[u].name
      /\ \A v \in Users : v # u => users'[v] = users[v]
  BY <1>3, SavedRow
<1>6. /\ DOMAIN txn' = Requests /\ txn'[r] = Idle
      /\ \A q \in Requests \ {r} : Ages(txn[q], txn'[q])
      /\ \A q \in Requests \ {r} : txn'[q] = SeesOldProfile(u, txn[q])
  BY <1>4, EndAges
<1>7. CASE t.op = "updateProfile" /\ t.target # 1
  <2>1. events' = events
    BY <1>1, <1>7 DEF CommitUpdateProfile, CommitVerifyEmail, Ready
  <2>2. t.row.name = t.view.name /\ t.row.status = t.view.status
    BY <1>3, <1>7 DEF Wants
  <2>3. \A v \in Users : SameProfile(users'[v], users[v])
    BY <1>5, <2>2 DEF SameProfile
  <2> QED BY <1>6, <2>1, <2>3, IdleReads, PlainEvent
<1>8. CASE ~(t.op = "updateProfile" /\ t.target # 1)
  <2>1. PICK x : x = ProfileEvent(t, "UPDATED", t.row)
    OBVIOUS
  <2>2. events' = Append(events, x)
    BY <1>1, <1>8, <2>1 DEF CommitUpdateProfile, CommitVerifyEmail, Ready
  <2>3. Complete(t.row) /\ Marked(t) /\ ReadsProfile(t)
    BY <1>1, <1>3 DEF TypeInv, Asks, Wants, EventInv
  <2>4. x \in Event /\ x.user = u /\ x.name = t.row.name /\ x.status = t.row.status
    BY <1>2, <1>3, <2>1, <2>3, ProfileEventIs
  <2>5. x.overlap = t.overlap
    BY <2>1 DEF ProfileEvent
  <2>6. Overlapped(t) => Overlapped(x)
    BY <2>5, Zenon DEF Overlapped
  <2>7. Overlapped(t) \/ SameProfile(t.view, users[u])
    BY <1>2, <1>4, <2>3 DEF ReadsProfile, InRow
  <2>8. SameProfile(t.view, users[u]) => SameProfile(x, users'[u])
    BY <1>5, <2>4 DEF SameProfile
  <2>9. Overlapped(x) \/ SameProfile(x, users'[u])
    BY <2>6, <2>7, <2>8
  <2> QED BY <1>3, <1>5, <1>6, <2>2, <2>4, <2>9, AnnounceEvent
<1> QED BY <1>7, <1>8

(* A step that touches neither users, events nor requests.                 *)
LEMMA EventStays ==
  ASSUME EventInv, UNCHANGED <<users, events, txn>>
  PROVE  EventInv'
<1>1. NewestSays'
  BY DEF EventInv, NewestSays, NewestEvent
<1>2. ASSUME NEW q \in Requests PROVE ReadsProfile(txn[q])'
  <2>1. ReadsProfile(txn[q])
    BY DEF EventInv
  <2> QED BY <2>1 DEF ReadsProfile
<1> QED BY <1>1, <1>2 DEF EventInv

(* At the start the outbox is empty.                                       *)
LEMMA EventInit == Init => EventInv
<1>1. ASSUME Init PROVE NewestSays
  BY <1>1 DEF Init, NewestSays
<1>2. ASSUME Init PROVE \A r \in Requests : ReadsProfile(txn[r])
  BY <1>2, IdleReads DEF Init
<1> QED BY <1>1, <1>2 DEF EventInv

(* Every action keeps what the newest events say.                          *)
LEMMA EventNext ==
  ASSUME TypeInv, EventInv, [Next]_idVars
  PROVE  EventInv'
<1>1. CASE UNCHANGED idVars
  BY <1>1, EventStays DEF idVars
<1>2. ASSUME NEW r \in Requests,
             \/ \E u \in Users : Signup(r, u) \/ Login(r, u) \/ ForgotPassword(r, u)
             \/ \E s \in DOMAIN sessions :
                  \/ RefreshToken(r, s) \/ RevokeSession(r, s)
                  \/ \E op \in Guarded : Validate(r, op, s)
             \/ \E u \in Users, m \in DOMAIN mails : ResetPassword(r, u, m) \/ VerifyEmail(r, u, m)
             \/ Logout(r) \/ LogoutAllDevices(r) \/ ChangePassword(r)
             \/ UpdateProfile(r) \/ SendVerificationEmail(r)
      PROVE  EventInv'
  <2>1. PICK x : Keep(r, x) /\ (x.phase = "guarded" \/ x.view = users[x.user])
    BY <1>2, ReadersRead
  <2>2. ReadsProfile(x)
    BY <2>1 DEF ReadsProfile, SameProfile, InRow
  <2> QED BY <2>1, <2>2, ReadersEvent
<1>3. ASSUME NEW r \in Requests,
             \/ FlushPassword(r) \/ RevokeAllByUserId(r) \/ FlushProfile(r)
             \/ SendPasswordResetEmail(r) \/ SendEmailVerificationEmail(r)
             \/ CommitSignup(r) \/ CommitLogin(r) \/ CommitRefresh(r) \/ CommitEndSession(r)
             \/ LogoutAgain(r) \/ CommitLogoutAll(r) \/ CommitPassword(r) \/ CommitMail(r)
             \/ CommitUpdateProfile(r) \/ CommitVerifyEmail(r) \/ Fail(r)
      PROVE  EventInv'
  BY <1>3, FlushersEvent, SendEvent, SignupEvent, CommitsEvent, OvertakersEvent
<1>4. CASE (\E s \in DOMAIN sessions : ExpireSession(s)) \/ (\E m \in DOMAIN mails : ExpireToken(m))
  BY <1>4, EventStays DEF ExpireSession, ExpireToken
<1> QED BY <1>1, <1>2, <1>3, <1>4 DEF Next
-----------------------------------------------------------------------------
(* Copies of profiles.  The columns a module keeps, of an event or a row.  *)
LEMMA ColumnsAre ==
  ASSUME watched \in Modules, NEW x, NEW y, y = Columns(x),
         x.name \in Names, x.status \in {"UNVERIFIED", "ACTIVE"}
  PROVE  y \in ProfileRow /\ y.name = x.name /\ y # NoProfile
<1>1. y = [name |-> x.name, status |-> x.status] \/ y = [name |-> x.name, status |-> "NONE"]
  BY DEF Columns, Modules, WorkspaceColumns, MembershipColumns, ProjectColumns
<1>2. NoName \notin Names
  BY IdentityAssumption
<1> QED BY <1>1, <1>2 DEF ProfileRow, NoProfile

(* A module keeps the same of two rows with the same name and status.      *)
LEMMA ColumnsSame ==
  ASSUME watched \in Modules, NEW x, NEW y, SameProfile(x, y)
  PROVE  Columns(x) = Columns(y)
  BY DEF Columns, SameProfile, Modules, WorkspaceColumns, MembershipColumns, ProjectColumns

(* A flush of a profile, which writes the columns that differ.             *)
LEMMA MergeProfile ==
  ASSUME NEW stored \in ProfileRow, NEW seen \in ProfileRow, NEW row \in ProfileRow,
         NEW x, x = UpdateColumns(stored, seen, row)
  PROVE  /\ x \in ProfileRow /\ x.name \in {row.name, stored.name}
         /\ stored = seen => x = row
         /\ row = seen => x = stored
<1>1. DOMAIN stored = {"name", "status"}
  BY DEF ProfileRow
<1>2. x = [c \in {"name", "status"} |-> IF row[c] # seen[c] THEN row[c] ELSE stored[c]]
  BY <1>1 DEF UpdateColumns, Merge
<1>3. /\ DOMAIN x = {"name", "status"}
      /\ x.name = IF row.name # seen.name THEN row.name ELSE stored.name
      /\ x.status = IF row.status # seen.status THEN row.status ELSE stored.status
  BY <1>2
<1>4. x = [name |-> x.name, status |-> x.status]
  BY <1>2, <1>3
<1>5. /\ row = [name |-> row.name, status |-> row.status]
      /\ stored = [name |-> stored.name, status |-> stored.status]
  BY DEF ProfileRow
<1>6. x \in ProfileRow
  BY <1>3, <1>4 DEF ProfileRow
<1> QED BY <1>3, <1>4, <1>5, <1>6

(* The outbox only grows. *)
LEMMA EventsGrow ==
  ASSUME TypeInv, [Next]_idVars
  PROVE  /\ Len(events) <= Len(events') /\ Len(events') \in Nat
         /\ \A e \in DOMAIN events : e \in DOMAIN events' /\ events'[e] = events[e]
<1>1. ASSUME NEW r \in Requests,
             \/ \E u \in Users : Signup(r, u) \/ Login(r, u) \/ ForgotPassword(r, u)
             \/ \E s \in DOMAIN sessions :
                  \/ RefreshToken(r, s) \/ RevokeSession(r, s)
                  \/ \E op \in Guarded : Validate(r, op, s)
             \/ \E u \in Users, m \in DOMAIN mails : ResetPassword(r, u, m) \/ VerifyEmail(r, u, m)
             \/ Logout(r) \/ LogoutAgain(r) \/ LogoutAllDevices(r) \/ ChangePassword(r)
             \/ UpdateProfile(r) \/ SendVerificationEmail(r) \/ Fail(r)
             \/ FlushPassword(r) \/ RevokeAllByUserId(r) \/ FlushProfile(r)
      PROVE  events' = events
  BY <1>1 DEF Signup, Login, ForgotPassword, RefreshToken, RevokeSession, Validate, ResetPassword,
              VerifyEmail, Logout, LogoutAgain, LogoutAllDevices, ChangePassword, UpdateProfile,
              SendVerificationEmail, Fail, FlushPassword, RevokeAllByUserId, FlushProfile,
              Start, Read, Keep, tables
<1>2. ASSUME NEW r \in Requests,
             \/ SendPasswordResetEmail(r) \/ SendEmailVerificationEmail(r)
             \/ CommitSignup(r) \/ CommitLogin(r) \/ CommitRefresh(r) \/ CommitEndSession(r)
             \/ CommitLogoutAll(r) \/ CommitPassword(r) \/ CommitMail(r)
             \/ CommitUpdateProfile(r) \/ CommitVerifyEmail(r)
      PROVE  events' = events \/ \E x : events' = Append(events, x)
  BY <1>2 DEF SendPasswordResetEmail, SendEmailVerificationEmail, SendMail, CommitSignup,
              CommitLogin, CommitRefresh, CommitEndSession, CommitLogoutAll, CommitPassword,
              CommitMail, CommitUpdateProfile, CommitVerifyEmail
<1>3. (\E s \in DOMAIN sessions : ExpireSession(s)) \/ (\E m \in DOMAIN mails : ExpireToken(m))
        => events' = events
  BY DEF ExpireSession, ExpireToken
<1>4. UNCHANGED idVars => events' = events
  BY DEF idVars
<1>5. events' = events \/ \E x : events' = Append(events, x)
  BY <1>1, <1>2, <1>3, <1>4 DEF Next
<1>6. events \in Seq(Event)
  BY Unwritten
<1>7. TypeInv'
  BY TypeStays, TypeNext
<1>8. Len(events') \in Nat
  BY <1>7 DEF TypeInv, TablesInv
<1>9. CASE events' = events
  BY <1>8, <1>9
<1>a. ASSUME NEW x, events' = Append(events, x)
      PROVE  /\ Len(events) <= Len(events')
             /\ \A e \in DOMAIN events : e \in DOMAIN events' /\ events'[e] = events[e]
  BY <1>6, <1>a
<1> QED BY <1>5, <1>8, <1>9, <1>a

(* The listeners do not mind what the handlers do. *)
LEMMA HandlersProfile ==
  ASSUME TypeInv, ProfileInv, [Next]_idVars, UNCHANGED profileVars
  PROVE  ProfileInv'
<1>1. /\ Len(events) <= Len(events') /\ Len(events') \in Nat /\ Len(events) \in Nat
      /\ DOMAIN events = 1 .. Len(events)
      /\ \A e \in DOMAIN events : e \in DOMAIN events' /\ events'[e] = events[e]
  BY EventsGrow, Unwritten
<1>2. UNCHANGED <<watched, profile, copy, work, heard, applied>>
  BY DEF profileVars
<1>3. ASSUME NEW u \in Users PROVE Applied(u)'
  <2>1. Applied(u) /\ \A x : Columns(x)' = Columns(x)
    BY <1>2 DEF ProfileInv, Columns
  <2>2. applied[u] # 0 => applied[u] \in DOMAIN events
    BY <1>1, <2>1 DEF Applied
  <2>3. applied[u] # 0 => Columns(events[applied[u]])' = Columns(events[applied[u]])
    BY <1>1, <1>2, <2>2 DEF Columns
  <2> QED BY <1>1, <1>2, <2>1, <2>2, <2>3 DEF Applied
<1>4. ASSUME NEW p \in Paths PROVE Listens(work[p])'
  <2>1. PICK w : w = work[p]
    OBVIOUS
  <2>2. Listens(w)
    BY <2>1 DEF ProfileInv
  <2>3. Listens(w)'
    BY <1>1, <1>2, <2>2 DEF Listens
  <2> QED BY <1>2, <2>1, <2>3
<1>5. heard' \subseteq DOMAIN events' /\ \A e \in heard' : profile'[events'[e].user] # NoProfile
  BY <1>1, <1>2 DEF ProfileInv
<1> QED BY <1>2, <1>3, <1>4, <1>5 DEF ProfileInv

(* What a listener at work has in hand.                                    *)
LEMMA AtWork ==
  ASSUME TypeInv, ProfileInv, NEW p \in Paths, NEW w, w = work[p], w # NoWork
  PROVE  /\ w.event \in DOMAIN events /\ Listens(w) /\ w.event # 0 /\ w.seen \in ProfileRow
         /\ events[w.event].user \in Users /\ events[w.event].name \in Names
         /\ events[w.event].status \in {"UNVERIFIED", "ACTIVE"}
         /\ Subject(p) = events[w.event].user
<1>1. Listens(w) /\ w.event # 0 /\ w.seen \in ProfileRow
  BY DEF ProfileInv, Listens, Work
<1>2. w.event \in DOMAIN events
  BY <1>1, Unwritten DEF Listens
<1>3. events[w.event] \in Event
  BY <1>2, Unwritten
<1> QED BY <1>1, <1>2, <1>3 DEF Event, Subject

(* A listener may stop at any time.                                        *)
LEMMA Idles ==
  ASSUME TypeInv, ProfileInv, NEW p \in Paths, work' = [work EXCEPT ![p] = NoWork],
         UNCHANGED <<idVars, watched, profile, applied>>
  PROVE  /\ work' \in [Paths -> Work] /\ \A q \in Paths : Listens(work[q])'
         /\ \A u \in Users : Applied(u)'
<1>1. events' = events
  BY DEF idVars
<1>2. NoProfile \in ProfileRow /\ 0 \in 0 .. Len(events)
  BY Unwritten DEF NoProfile, ProfileRow
<1>3. NoWork \in Work /\ Listens(NoWork)
  BY <1>2 DEF Work, NoWork, Listens
<1>4. ASSUME NEW q \in Paths PROVE Listens(work[q])'
  <2>1. PICK z : z = work'[q]
    OBVIOUS
  <2>2. Listens(z)
    BY <1>3, <2>1 DEF ProfileInv
  <2> QED BY <1>1, <2>1, <2>2 DEF Listens
<1>5. ASSUME NEW u \in Users PROVE Applied(u)'
  <2>1. Applied(u)
    BY DEF ProfileInv
  <2> QED BY <1>1, <2>1 DEF Applied, Columns
<1> QED BY <1>3, <1>4, <1>5 DEF ProfileInv

(* A listener looks for the profile; its process keeps what it found.      *)
LEMMA FindProfile ==
  ASSUME TypeInv, ProfileInv, NEW p \in Paths, NEW e \in DOMAIN events, FindByUserId(p, e)
  PROVE  ProfileInv'
<1>1. PICK u : u = events[e].user
  OBVIOUS
<1>2. PICK x : x = Found(p, u)
  OBVIOUS
<1>3. PICK w : w = [event |-> e, seen |-> x]
  OBVIOUS
<1>4. /\ work' = [work EXCEPT ![p] = w] /\ copy' = [copy EXCEPT ![p][u] = x]
      /\ UNCHANGED <<idVars, watched, profile, heard, applied>>
  BY <1>1, <1>2, <1>3 DEF FindByUserId
<1>5. e \in 0 .. Len(events) /\ e \in Nat /\ e # 0 /\ u \in Users
  BY <1>1, Unwritten
<1>6. x \in ProfileRow /\ (x # NoProfile => profile[u] # NoProfile)
  BY <1>2, <1>5 DEF ProfileInv, Found
<1>7. w \in Work /\ Listens(w)
  BY <1>1, <1>3, <1>5, <1>6 DEF Listens, Work
<1>8. work' \in [Paths -> Work] /\ work'[p] = w /\ \A q \in Paths \ {p} : work'[q] = work[q]
  BY <1>4, <1>7 DEF ProfileInv
<1>9. events' = events /\ UNCHANGED <<watched, profile, heard, applied>>
  BY <1>4 DEF idVars
<1>a. ASSUME NEW q \in Paths PROVE Listens(work[q])'
  <2>1. PICK z : z = work'[q]
    OBVIOUS
  <2>2. Listens(z)
    BY <1>7, <1>8, <2>1 DEF ProfileInv
  <2> QED BY <1>9, <2>1, <2>2 DEF Listens
<1>b. ASSUME NEW v \in Users PROVE Applied(v)'
  <2>1. Applied(v)
    BY DEF ProfileInv
  <2> QED BY <1>9, <2>1 DEF Applied, Columns
<1>c. /\ copy' \in [Paths -> [Users -> ProfileRow]]
      /\ \A q \in Paths, v \in Users : copy'[q][v] # NoProfile => profile[v] # NoProfile
  BY <1>4, <1>5, <1>6 DEF ProfileInv
<1> QED BY <1>8, <1>9, <1>a, <1>b, <1>c DEF ProfileInv

(* A listener saves what differs from its copy.                            *)
LEMMA UpsertProfile ==
  ASSUME TypeInv, ProfileInv, NEW p \in Paths, Upsert(p)
  PROVE  ProfileInv'
<1>1. PICK w : w = work[p]
  OBVIOUS
<1>2. PICK e : e = w.event
  OBVIOUS
<1>3. PICK u : u = events[e].user
  OBVIOUS
<1>4. PICK row : row = Columns(events[e])
  OBVIOUS
<1>5. PICK x : x = IF w.seen = NoProfile THEN row ELSE UpdateColumns(profile[u], w.seen, row)
  OBVIOUS
<1>6. PICK a : a = IF w.seen = profile[u] THEN e ELSE IF row = w.seen THEN applied[u] ELSE 0
  OBVIOUS
<1>7. w # NoWork
  BY <1>1 DEF Upsert
<1>8. /\ e \in DOMAIN events /\ Listens(w) /\ e # 0 /\ u \in Users /\ Subject(p) = u
      /\ events[e].name \in Names /\ events[e].status \in {"UNVERIFIED", "ACTIVE"}
      /\ w.seen \in ProfileRow
  BY <1>1, <1>2, <1>3, <1>7, AtWork
<1>9. /\ profile' = [profile EXCEPT ![u] = x] /\ copy' = [copy EXCEPT ![p][u] = row]
      /\ applied' = [applied EXCEPT ![u] = a]
      /\ work' = [work EXCEPT ![p] = NoWork] /\ heard' = heard \cup {e}
      /\ UNCHANGED <<idVars, watched>>
      /\ w.seen = NoProfile => profile[u] = NoProfile
  BY <1>1, <1>2, <1>3, <1>4, <1>5, <1>6, <1>8 DEF Upsert, Return
<1>a. row \in ProfileRow /\ row.name \in Names /\ row # NoProfile
  BY <1>4, <1>8, ColumnsAre DEF ProfileInv
<1>b. /\ profile[u] \in ProfileRow
      /\ w.seen # NoProfile => profile[u] # NoProfile
      /\ profile[u] # NoProfile => profile[u].name \in Names
  BY <1>2, <1>3, <1>8 DEF ProfileInv, Listens
<1>c. /\ x \in ProfileRow /\ x.name \in Names
      /\ w.seen = profile[u] => x = row
      /\ w.seen # NoProfile /\ row = w.seen => x = profile[u]
  <2>1. CASE w.seen = NoProfile
    BY <1>5, <1>a, <2>1
  <2>2. CASE w.seen # NoProfile
    <3>1. x = UpdateColumns(profile[u], w.seen, row)
      BY <1>5, <2>2
    <3> QED BY <1>8, <1>a, <1>b, <2>2, <3>1, MergeProfile
  <2> QED BY <2>1, <2>2
<1>d. x # NoProfile
  BY <1>c, IdentityAssumption DEF NoProfile
<1>e. /\ events' = events /\ watched' = watched
      /\ profile'[u] = x /\ profile' \in [Users -> ProfileRow]
      /\ \A v \in Users : v # u => profile'[v] = profile[v]
  BY <1>8, <1>9, <1>c DEF ProfileInv, idVars
<1>f. \A v \in Users : /\ profile'[v] # NoProfile => profile'[v].name \in Names
                       /\ profile[v] # NoProfile => profile'[v] # NoProfile
  BY <1>c, <1>d, <1>e DEF ProfileInv
<1>g. Applied(u) /\ \A y : Columns(y)' = Columns(y)
  BY <1>8, <1>e DEF ProfileInv, Columns
<1>h. a \in 0 .. Len(events) /\ (a # 0 => events[a].user = u /\ x = Columns(events[a]))
  <2>1. CASE w.seen = profile[u]
    <3>1. a = e /\ x = row
      BY <1>6, <1>c, <2>1
    <3>2. e \in 0 .. Len(events)
      BY <1>8, Unwritten
    <3> QED BY <1>3, <1>4, <3>1, <3>2
  <2>2. CASE w.seen # profile[u] /\ row = w.seen
    <3>1. a = applied[u] /\ x = profile[u]
      BY <1>6, <1>a, <1>c, <2>2
    <3> QED BY <1>g, <3>1 DEF Applied
  <2>3. CASE w.seen # profile[u] /\ row # w.seen
    <3>1. a = 0
      BY <1>6, <2>3
    <3> QED BY <3>1, Unwritten
  <2> QED BY <2>1, <2>2, <2>3
<1>i. applied' \in [Users -> Nat] /\ applied'[u] = a
      /\ \A v \in Users : v # u => applied'[v] = applied[v]
  <2>1. a \in Nat
    BY <1>h, Unwritten
  <2> QED BY <1>8, <1>9, <2>1 DEF ProfileInv
<1>j. ASSUME NEW v \in Users PROVE Applied(v)'
  <2>1. CASE v = u
    <3>1. a # 0 => Columns(events[a])' = x
      BY <1>e, <1>g, <1>h DEF Columns
    <3> QED BY <1>e, <1>h, <1>i, <2>1, <3>1 DEF Applied
  <2>2. CASE v # u
    <3>1. Applied(v)
      BY DEF ProfileInv
    <3> QED BY <1>e, <1>i, <2>2, <3>1 DEF Applied, Columns
  <2> QED BY <2>1, <2>2
<1>k. heard' \subseteq DOMAIN events' /\ \A f \in heard' : profile'[events'[f].user] # NoProfile
  <2>1. \A f \in DOMAIN events : events[f].user \in Users
    BY Unwritten
  <2>2. \A f \in heard : f \in DOMAIN events /\ profile[events[f].user] # NoProfile
    BY DEF ProfileInv
  <2> QED BY <1>3, <1>8, <1>9, <1>d, <1>e, <1>f, <2>1, <2>2
<1>l. /\ copy' \in [Paths -> [Users -> ProfileRow]]
      /\ \A q \in Paths, v \in Users : copy'[q][v] # NoProfile => profile'[v] # NoProfile
  <2>1. \A q \in Paths, v \in Users : copy'[q][v] = IF q = p /\ v = u THEN row ELSE copy[q][v]
    BY <1>8, <1>9 DEF ProfileInv
  <2>2. copy' \in [Paths -> [Users -> ProfileRow]]
    BY <1>8, <1>9, <1>a DEF ProfileInv
  <2> QED BY <1>d, <1>e, <1>f, <2>1, <2>2 DEF ProfileInv
<1>m. work' \in [Paths -> Work] /\ work'[p] = NoWork /\ \A q \in Paths \ {p} : work'[q] = work[q]
  <2>1. NoWork \in Work
    BY DEF Work, NoWork, NoProfile, ProfileRow
  <2> QED BY <1>9, <2>1 DEF ProfileInv
<1>n. ASSUME NEW q \in Paths PROVE Listens(work[q])'
  <2>1. PICK z : z = work'[q]
    OBVIOUS
  <2>2. CASE q = p
    <3>1. z = NoWork /\ 0 \in 0 .. Len(events)
      BY <1>m, <2>1, <2>2, Unwritten
    <3>2. Listens(z)'
      BY <1>e, <3>1 DEF Listens, NoWork
    <3> QED BY <2>1, <3>2 DEF Listens
  <2>3. CASE q # p
    <3>1. z = work[q] /\ Listens(z)
      BY <1>m, <2>1, <2>3 DEF ProfileInv
    <3>2. z.event # 0 => events[z.event].user \in Users
      BY <3>1, Unwritten DEF Listens
    <3>3. Listens(z)'
      BY <1>e, <1>f, <3>1, <3>2 DEF Listens
    <3> QED BY <2>1, <3>3 DEF Listens
  <2> QED BY <2>2, <2>3
<1>o. watched' \in Modules
  BY <1>e DEF ProfileInv
<1> QED BY ONLY <1>e, <1>f, <1>i, <1>j, <1>k, <1>l, <1>m, <1>n, <1>o DEF ProfileInv

(* A listener that is refused leaves the profile it was refused for.       *)
LEMMA RefusedProfile ==
  ASSUME TypeInv, ProfileInv, NEW p \in Paths, InsertRefused(p)
  PROVE  ProfileInv'
<1>1. PICK e : e = work[p].event
  OBVIOUS
<1>2. e \in DOMAIN events /\ Subject(p) = events[e].user
  BY <1>1, AtWork DEF InsertRefused
<1>3. /\ work' = [work EXCEPT ![p] = NoWork] /\ heard' = heard \cup {e}
      /\ UNCHANGED <<idVars, watched, profile, copy, applied>>
      /\ profile[events[e].user] # NoProfile
  BY <1>1, <1>2 DEF InsertRefused, Return
<1>4. work' \in [Paths -> Work] /\ (\A q \in Paths : Listens(work[q])')
      /\ \A u \in Users : Applied(u)'
  BY <1>3, Idles
<1>5. heard' \subseteq DOMAIN events' /\ \A f \in heard' : profile'[events'[f].user] # NoProfile
  BY <1>2, <1>3 DEF ProfileInv, idVars
<1> QED BY <1>3, <1>4, <1>5 DEF ProfileInv

(* A listener that fails, or whose process stops, leaves nothing.          *)
LEMMA StoppedProfile ==
  ASSUME TypeInv, ProfileInv, NEW p \in Paths, ListenerFails(p) \/ Restart(p)
  PROVE  ProfileInv'
<1>1. /\ work' = [work EXCEPT ![p] = NoWork]
      /\ UNCHANGED <<idVars, watched, profile, heard, applied>>
      /\ copy' = copy \/ copy' = [copy EXCEPT ![p] = NoCopies]
  BY DEF ListenerFails, Restart
<1>2. work' \in [Paths -> Work] /\ (\A q \in Paths : Listens(work[q])')
      /\ \A u \in Users : Applied(u)'
  BY <1>1, Idles
<1>3. /\ copy' \in [Paths -> [Users -> ProfileRow]]
      /\ \A q \in Paths, v \in Users : copy'[q][v] # NoProfile => profile[v] # NoProfile
  <2>1. NoProfile \in ProfileRow
    BY DEF NoProfile, ProfileRow
  <2>2. NoCopies \in [Users -> ProfileRow] /\ \A v \in Users : NoCopies[v] = NoProfile
    BY <2>1 DEF NoCopies
  <2> QED BY <1>1, <2>2 DEF ProfileInv
<1> QED BY <1>1, <1>2, <1>3 DEF ProfileInv, idVars

(* At the start no module has a copy, and no listener is at work.          *)
LEMMA ProfileInit == ProfilesInit => ProfileInv
<1> SUFFICES ASSUME ProfilesInit PROVE ProfileInv
  OBVIOUS
<1>1. NoProfile \in ProfileRow /\ Len(events) = 0
  BY DEF NoProfile, ProfileRow, ProfilesInit, Init
<1>2. Listens(NoWork) /\ NoWork \in Work
  BY <1>1 DEF Listens, NoWork, Work
<1>3. watched \in Modules
  BY ProfilesAssumption DEF ProfilesInit
<1>4. NoCopies \in [Users -> ProfileRow] /\ \A u \in Users : NoCopies[u] = NoProfile
  BY <1>1 DEF NoCopies
<1> QED BY <1>1, <1>2, <1>3, <1>4 DEF ProfileInv, ProfilesInit, Applied

(* A step of a listener leaves accounts and sessions alone.                *)
LEMMA ListenersRest ==
  ASSUME [ProfilesNext]_vars
  PROVE  [Next]_idVars
<1>1. (\E p \in Paths : Listen(p) \/ Restart(p)) => UNCHANGED idVars
  BY DEF Listen, FindByUserId, Upsert, InsertRefused, ListenerFails, Restart
<1> QED BY <1>1 DEF ProfilesNext, vars

(* Every step of a handler or a listener keeps what the copies promise.    *)
LEMMA ProfileNext ==
  ASSUME TypeInv, ProfileInv, [ProfilesNext]_vars
  PROVE  ProfileInv'
<1>1. CASE [Next]_idVars /\ UNCHANGED profileVars
  BY <1>1, HandlersProfile
<1>2. CASE \E p \in Paths : Listen(p) \/ Restart(p)
  BY <1>2, FindProfile, UpsertProfile, RefusedProfile, StoppedProfile DEF Listen
<1> QED BY <1>1, <1>2 DEF ProfilesNext, vars

(* The copies only listen: with them, accounts and sessions behave as they *)
(* do on their own.                                                        *)
THEOREM ProfilesOnlyListen == ProfilesSpec => Spec
<1>1. ProfilesInit => Init
  BY DEF ProfilesInit
<1> QED BY <1>1, ListenersRest, PTL DEF ProfilesSpec, Spec

(* The invariants hold of accounts and copies together.                    *)
LEMMA ProfileSafe == ProfilesSpec => [](TypeInv /\ EventInv /\ ProfileInv)
<1>1. ProfilesInit => TypeInv /\ EventInv /\ ProfileInv
  BY TypeInit, EventInit, ProfileInit DEF ProfilesInit
<1>2. TypeInv /\ EventInv /\ ProfileInv /\ [ProfilesNext]_vars
        => (TypeInv /\ EventInv /\ ProfileInv)'
  BY ListenersRest, TypeStays, TypeNext, EventNext, ProfileNext
<1> QED BY <1>1, <1>2, PTL DEF ProfilesSpec

(* The copies, and what is under way to them, are of their types.          *)
THEOREM ProfilesTyped == ProfilesSpec => []ProfilesTypeOK
<1>1. ProfileInv => /\ watched \in Modules
                    /\ profile \in [Users -> ProfileRow]
                    /\ copy \in [Paths -> [Users -> ProfileRow]]
                    /\ work \in [Paths -> [event : 0 .. Len(events), seen : ProfileRow]]
                    /\ heard \subseteq DOMAIN events
                    /\ applied \in [Users -> 0 .. Len(events)]
  <2> SUFFICES ASSUME ProfileInv
               PROVE  /\ applied \in [Users -> 0 .. Len(events)]
                      /\ work \in [Paths -> [event : 0 .. Len(events), seen : ProfileRow]]
    BY DEF ProfileInv
  <2>1. applied \in [Users -> Nat] /\ \A u \in Users : applied[u] \in 0 .. Len(events)
    BY DEF ProfileInv, Applied
  <2>2. work \in [Paths -> Work] /\ \A p \in Paths : work[p].event \in 0 .. Len(events)
    BY DEF ProfileInv, Listens
  <2>3. \A p \in Paths : work[p] \in [event : 0 .. Len(events), seen : ProfileRow]
    BY <2>2 DEF Work
  <2> QED BY <2>1, <2>2, <2>3
<1>2. TypeOK /\ ProfileInv => ProfilesTypeOK
  BY <1>1, Zenon DEF ProfilesTypeOK, ProfileRow
<1> QED BY <1>2, ProfileSafe, ProfilesOnlyListen, IdentityTypeOK, PTL

(* An event a listener has taken in, or was refused the insert for, has    *)
(* left a profile behind; and one set from its user's newest event, by a   *)
(* process whose copy was the row, says what the user's row says, unless   *)
(* the handler that published it had read an older row: whoever has        *)
(* crossed whom, and whichever listeners failed or were stopped.           *)
THEOREM ProfilesKeepUp == ProfilesSpec => []ProfilesFollow
<1>1. ASSUME TypeInv, EventInv, ProfileInv, NEW u \in Users, NewestEvent(u, applied[u]),
             ~events[applied[u]].overlap
      PROVE  profile[u] = Columns(users[u])
  <2>1. PICK e : e = applied[u]
    OBVIOUS
  <2>2. e \in DOMAIN events /\ NewestEvent(u, e)
    BY <1>1, <2>1 DEF NewestEvent
  <2>3. ~Overlapped(events[e])
    BY <1>1, <2>1, Zenon DEF Overlapped
  <2>4. SameProfile(events[e], users[u])
    BY <1>1, <2>2, <2>3 DEF EventInv, NewestSays
  <2>5. e # 0
    BY <1>1, <2>2, Unwritten
  <2>6. profile[u] = Columns(events[e])
    BY <1>1, <2>1, <2>5 DEF ProfileInv, Applied
  <2> QED BY <1>1, <2>4, <2>6, ColumnsSame DEF ProfileInv
<1>2. ProfileInv => \A e \in heard : profile[events[e].user] # NoProfile
  BY DEF ProfileInv
<1>3. TypeInv /\ EventInv /\ ProfileInv => ProfilesFollow
  BY <1>1, <1>2, Zenon DEF ProfilesFollow
<1> QED BY <1>3, ProfileSafe, PTL
=============================================================================
