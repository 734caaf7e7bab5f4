SPECIFICATION Spec
CONSTANTS
  None = None
  a1 = a1   n1 = n1  k1 = k1  k2 = k2  k3 = k3
  Accounts = {a1}
  Buckets = {b1}
  Providers = {p1}
  Keys = {k1, k2}
  Names = {n1}
  NameOf <- OneName
  Webhooks = TRUE
  Faults = {"minio"}
  Env = {"buckets", "provider"}
  MaxUid = 1
SYMMETRY KeySymmetry
INVARIANTS PoliciesExist StatusHonest
CHECK_DEADLOCK FALSE
