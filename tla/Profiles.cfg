SPECIFICATION ProfilesSpec
CONSTANTS
  Users = {u}
  Passwords = {p1}
  Names = {n1, n2}
  NoName = none
  Requests = {r1, r2}
  Offers = {{"signup", "updateProfile", "sendVerification", "verifyEmail"}}
  Paths = {relay, consumer}
  Watched = {"workspace", "project"}
  MaxSessions = 1
  MaxMails = 1
  MaxEvents = 3
  MaxRevokeAlls = 1
  MaxTotal = 3
SYMMETRY Symmetry
CHECK_DEADLOCK FALSE
INVARIANTS ProfilesTypeOK ProfilesFollow
PROPERTIES VerifiedStays
