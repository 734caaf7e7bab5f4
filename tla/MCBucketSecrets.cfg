SPECIFICATION Spec
CONSTANTS
  None = None  Foreign = Foreign
  b1 = b1  b2 = b2  a1 = a1  sa1 = sa1   s1 = s1  s2 = s2  n1 = n1  n2 = n2
  Buckets = {b1, b2}
  Accounts = {a1}
  Secrets = {sa1, s1}
  Providers = {p1}
  BucketNames = {n1, n2}
  NameOf <- SharedNames
  SecretsOf <- SharedSecrets
  AccountsOf <- SharedAccounts
  SaSecret <- OneSaSecret
  DefaultSecret <- SharedDefaultSecret
  DefaultAccount <- SharedDefaultAccount
  Keys = {k1}  Annotated = {p1}
  ReclaimPolicies = {"Retain"}
  Webhooks = TRUE
  Faults = {}
  Env = {"secrets", "users"}
  MaxUid = 1
PROPERTIES SecretsNotSeized
CHECK_DEADLOCK FALSE
