SPECIFICATION Spec
CONSTANTS
  Req = {r1, r2}
  User = {i}
  NoUser = None
  Threshold = 3
  MaxLogins = 7
  Token = {x, y}
  NoToken = None
  ResetToken = {i}
  NoReset = None
  MaxPassword = 2
  Worker = {x, y}
  NoWorker = None
  Role = {x, y, Admin}
  Admin = Admin
  NoRole = None
  Permission = {i}
  NotCached = None
  Tab = {x, y}
  Call = {r1, r2}
  Page = None
  TabToken = {1, 2, 3}
  NoTabToken = 0
  CalmTabs = TRUE
  Job = {x, y}
  MaxTries = 3
  MaxJobs = 1
  Profile = {i}
  Default = None
  MaxTrees = 1
SYMMETRY Perms
INVARIANTS LockedInTime ResetOnce OneSessionPerLogin ResetEndsSessions CopiesCurrent NoCallHangs SessionKept MailedOnce SeededOnce
PROPERTY LockHolds
CHECK_DEADLOCK FALSE
