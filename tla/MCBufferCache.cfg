CONSTANTS
  Thread = {t1, t2}
  Block = {k1, k2, k3, k4}
  Buf = {b1, b2, b3}
  Pins = 1
  Nil = Nil
SYMMETRY Symmetry
SPECIFICATION Spec
INVARIANTS
  HolderSeesLatest
  
  RequestsAreServed
