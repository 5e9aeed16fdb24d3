SPECIFICATION Spec
CONSTANTS
  p1 = p1
  p2 = p2
  i1 = i1
  i2 = i2
  a1 = a1
  a2 = a2
  b1 = b1
  b2 = b2
  Processes = {p1, p2}
  Ids = {i1, i2}
  Reports = {a1, a2, b1, b2}
  IdOf <- MCIdOf
  Deployments = {TRUE, FALSE}
  None = None
  Unreadable = Unreadable
SYMMETRY Symmetry
INVARIANTS CatalogExact ToldStands StoresAgree
