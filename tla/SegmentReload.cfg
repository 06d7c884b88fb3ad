SPECIFICATION Spec
CONSTANTS
  Nil = Nil
  t1 = t1
  t2 = t2
  d1 = d1
  d2 = d2
  Tables = {t1, t2}
  Matching = {t1, t2}
  Docs = {d1, d2}
  MaxEvents = 1
SYMMETRY Alike
INVARIANTS
  TypeOK
  
