CONSTANTS
  Procs = {p1, p2}
  Tops = {t1, t2}
  Subs = {x1}
  Absent = Absent
  InitSize = 1
  MaxGen = 3
  MaxSegs = 3
  MaxOps = 2
SYMMETRY ProcSymmetry
SPECIFICATION Spec
INVARIANT AckedAddsKept

