SPECIFICATION Spec
CONSTANTS
  Threads = {t1, t2}
  Bufs = {b1, b2, b3, b4, b5}
  MaxErrors = 4
  Null = Null
  NoMsg = NoMsg
SYMMETRY Symmetry
INVARIANTS
  PointerValid
  OneOwner
