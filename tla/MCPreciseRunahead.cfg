SPECIFICATION Spec
CONSTANTS
  Arch = {a1, a2}
  Phys = {p1, p2, p3, p4, p5}
  NoReg = NoReg
  ROBEntries = 2
  PRDQEntries = 2
  Limit = 2
  MaxRefs = 3
SYMMETRY Renaming
INVARIANTS Conserved ROBWhole NoRollback RecycledUnused
