SPECIFICATION FairSpec
CONSTANTS
  None = None  Foreign = Foreign
  b1 = b1  a1 = a1  sa1 = sa1  s1 = s1  n1 = n1
  Buckets = {b1}
  Accounts = {a1}
  Secrets = {sa1, s1}
  Providers = {p1}
  BucketNames = {n1}
  NameOf <- OneName
  AccountName <- OneAccountName
  SaSecret <- OneSaSecret
  DefaultSecret <- OneDefaultSecret
  DefaultAccount <- OneDefaultAccount
  Keys = {k1}  Annotated = {p1}
  ReclaimPolicies = {"Delete"}
  UserDeletes = FALSE
  MaxUid = 1
PROPERTIES ViewB ViewS 
CHECK_DEADLOCK FALSE
