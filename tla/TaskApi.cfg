CONSTANTS
  c1 = c1
  c2 = c2
  t1 = t1
  t2 = t2
  t3 = t3
  Clients = {c1, c2}
  Listers = {c1}
  Registry = {"reader", "admin"}
  Strangers = {"stranger"}
  ScopesOf <- RegistryScopes
  Tasks = {t1, t2, t3}
  Limit = 1
  None = None
SPECIFICATION Spec
SYMMETRY TaskSymmetry
INVARIANTS
  TypeOK
  ListingComplete
PROPERTIES
  RefusedOnlyWhileSeeding
  WritesAreAuthorised
  OnlyAuthorisedLearnExistence
  ListedOnce
