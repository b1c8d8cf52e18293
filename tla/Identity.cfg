SPECIFICATION Spec
CONSTANTS
  Users = {u}
  Passwords = {p1, p2}
  Names = {n1}
  NoName = none
  Requests = {r1, r2}
  Offers = {
    {"signup", "login", "refresh", "logout", "logoutAll", "revokeSession", "changePassword",
     "forgotPassword", "resetPassword"},
    {"signup", "logoutAll", "updateProfile", "sendVerification", "verifyEmail"}}
  MaxSessions = 3
  MaxMails = 2
  MaxEvents = 3
  MaxRevokeAlls = 2
  MaxTotal = 4
SYMMETRY Symmetry
CHECK_DEADLOCK FALSE
INVARIANTS TokensWorkOnce RevokeAllIsComplete EndedForGood NewestMailWorks
