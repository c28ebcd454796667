SPECIFICATION Spec
CONSTANTS
  Names = {a, b, c}
  Sessions = {s1, s2}
  Configs <- AllConfigs
SYMMETRY Symmetry
INVARIANTS
  TypeOK
  
  NoPartialFile
  
  
  
  
CHECK_DEADLOCK FALSE
