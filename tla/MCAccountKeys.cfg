SPECIFICATION Spec
CONSTANTS
  None = None
  a1 = a1   n1 = n1  k1 = k1  k2 = k2  k3 = k3
  Accounts = {a1}
  Buckets = {}
  Providers = {p1}
  Keys = {k1, k2, k3}
  Names = {n1}
  NameOf <- OneName
  Webhooks = TRUE
  Faults = {"api", "minio", "crash"}
  Env = {"delete"}
  MaxUid = 2
SYMMETRY KeySymmetry
INVARIANTS TypeOK OneKey NoOrphanUser
CHECK_DEADLOCK FALSE
