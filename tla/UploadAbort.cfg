SPECIFICATION Spec
CONSTANTS
  Names = {a, b, c}
  Sessions = {s1, s2}
  Configs <- Abort
SYMMETRY Symmetry
INVARIANTS
  NoPartialFile
