SPECIFICATION MCSpec
CONSTANTS
  k1 = k1
  k2 = k2
  k3 = k3
  k4 = k4
  p1 = p1
  p2 = p2
  None = None
  Tokens = {k1, k2, k3, k4}
  Shared = {k1, k2, k3}
  Requests = {1}
  Links = {k1, k2, k3, k4}
  Passwords = {p1, p2}
  MaxMails = 1
  MaxFailures = 2
  Ids = {k1, k2, k3}
  Texts = {"old"}
  Tabs = {p1, p2}
  MaxOpen = 1
  Edits = {"absent", "true"}
  Mail = {"m1", "m2"}
  Limited = {"m1", "m2"}
  Run = {p1, p2}
  MaxPerHour = 1
  Hour = 3
  Lease = 2
  Backoff <- MCBackoff
  Take = 1
  Faults = {"lost", "crash"}
  MaxCrashes = 1
SYMMETRY Symmetry
INVARIANTS
  SessionsAreKept
  
  
  
  MailsGoOnce
CHECK_DEADLOCK FALSE
