SPECIFICATION Spec
CONSTANTS
  home = home
  f1 = f1
  f2 = f2
  Home = home
  Folders = {f1, f2}
  Names = {a, b}
  Sessions = {s1}
  Configs <- AllConfigs
SYMMETRY Symmetry
INVARIANTS
  TypeOK
  QuotaFollowsFiles

  
