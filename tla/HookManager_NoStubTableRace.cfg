CONSTANTS
  Funcs = {f1, f2, f3}
  Stubs = {f1, f2}
  Fallback = {f1, f3}
  Threads = {t1, t2}
  NoAddr = NoAddr
SPECIFICATION Spec
INVARIANT NoStubTableRace
CHECK_DEADLOCK FALSE
