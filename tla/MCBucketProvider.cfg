SPECIFICATION FairSpec
CONSTANTS
  None = None
  Providers = {p1}
  Creds = {"missing", "wrong", "right"}
  Webhooks = TRUE
  Faults = {"api", "crash"}
INVARIANTS TypeOK
PROPERTIES ReadyWhereProbed StatusFollows
CHECK_DEADLOCK FALSE
