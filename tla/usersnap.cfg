CONSTANTS
  None = None
  Procs = {p1}
  Readers = {r1, r2}
  ProcOf <- OneProcess
  MaxVersion = 2
  MaxEvents = 1
  MaxFaults = 1
  MaxCas = 2
  Stamp = 10
SPECIFICATION Spec
INVARIANTS
  CacheFresh
PROPERTIES
  SnapMonotone
SYMMETRY Alike
