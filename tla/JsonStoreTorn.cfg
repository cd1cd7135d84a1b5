SPECIFICATION Spec
CONSTANTS
  Docs <- SomeDocs
  Inodes = {i1, i2, i3}
  None = None
SYMMETRY Symmetry
INVARIANT NoTornRead
