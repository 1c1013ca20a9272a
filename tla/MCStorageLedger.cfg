SPECIFICATION Spec
SYMMETRY Symmetry
CHECK_DEADLOCK FALSE
CONSTANTS
  o1 = o1 o2 = o2 o3 = o3
  t1 = t1 t2 = t2
  j1 = j1
  w1 = w1 w2 = w2 w3 = w3
  Objects = {o1, o3}
  Tenants = {t1, t2}
  Jobs = {j1}
  Writers = {w1, w2, w3}
  Reapers = {r1, r2}
  Global = Global
  NoJob = NoJob
  NoOne = NoOne
  TenantOf <- MCTenantOf
  Size <- MCSize
  Limit <- ContendedLimit
  Batch <- ContendedBatch
  JobOf <- MCJobOf
  OwnerOf <- MCOwnerOf
INVARIANTS
  ReferencedBytesExist
  RetiredStaysRetired
  QuotaIsExact
