SPECIFICATION Spec
CONSTANTS
  k1 = k1
  k2 = k2
  k3 = k3
  ann = ann
  Conns = {k1, k2, k3}
  Users = {ann}
  Configs <- Update
PROPERTY
  UpdateForcesLogin
