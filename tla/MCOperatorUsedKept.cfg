SPECIFICATION Spec
CONSTANTS
  None = None  Foreign = Foreign
  b1 = b1  a1 = a1  sa1 = sa1  s1 = s1  n1 = n1
  Buckets = {b1}
  Accounts = {a1}
  Secrets = {sa1, s1}
  Providers = {p1}
  BucketNames = {n1}
  NameOf <- OneName
  AccountName <- OneAccountName
  SaSecret <- OneSaSecret
  DefaultSecret <- OneDefaultSecret
  DefaultAccount <- OneDefaultAccount
  Keys = {k1}  Annotated = {p1}
  ReclaimPolicies = {"Delete"}
  UserDeletes = TRUE
  MaxUid = 2
PROPERTIES UsedKept
CHECK_DEADLOCK FALSE
