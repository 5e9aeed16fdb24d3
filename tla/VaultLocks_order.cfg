SPECIFICATION Spec
CONSTANTS
  s1 = s1
  s2 = s2
  s3 = s3
  t1 = t1
  t2 = t2
  t3 = t3
  brand = brand
  other = other
  Transactions = {t1, t2, t3}
  Scans = {s1, s2, s3}
  BrandOf <- MCBrandOf
  Deployments <- MCBothPaths
SYMMETRY Symmetry
INVARIANTS OnlyCapturesCircle
