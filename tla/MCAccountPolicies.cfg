SPECIFICATION FairSpec
CONSTANTS
  None = None
  a1 = a1   n1 = n1  k1 = k1  k2 = k2  k3 = k3
  Accounts = {a1}
  Buckets = {b1}
  Providers = {p1}
  Keys = {k1, k2, k3}
  Names = {n1}
  NameOf <- OneName
  Webhooks = TRUE
  Faults = {}
  Env = {"buckets", "delete"}
  MaxUid = 1
PROPERTIES  DeletionEnds
CHECK_DEADLOCK FALSE
