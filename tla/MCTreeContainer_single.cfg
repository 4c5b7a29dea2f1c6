CONSTANTS
  Procs = {p1}
  Tops = {t1, t2}
  Subs = {x1, x2}
  Absent = Absent
  InitSize = 1
  MaxGen = 4
  MaxSegs = 4
  MaxOps = 3
SPECIFICATION Spec

PROPERTY SharedTreeRefined
