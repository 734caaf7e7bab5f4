SPECIFICATION Spec
CONSTANTS
  None = None  Foreign = Foreign
  b1 = b1  b2 = b2  a1 = a1  sa1 = sa1   s1 = s1  s2 = s2  n1 = n1  n2 = n2
  Buckets = {b1}
  Accounts = {a1}
  Secrets = {sa1, s1}
  Providers = {p1}
  BucketNames = {n1}
  NameOf <- OneName
  SecretsOf <- NoneNamed1
  AccountsOf <- OneAccounts
  SaSecret <- OneSaSecret
  DefaultSecret <- OneDefaultSecret
  DefaultAccount <- OneDefaultAccount
  Keys = {k1}  Annotated = {p1}
  ReclaimPolicies = {"Delete", "Retain"}
  Webhooks = TRUE
  Faults = {"api", "minio", "crash"}
  Env = {"edit", "delete", "accounts"}
  MaxUid = 2
INVARIANTS TypeOK StatusHonest
PROPERTIES LifeKept
CHECK_DEADLOCK FALSE
