CONSTANTS
  Value = {v1, v2}
  Missing = Missing
  NoFile = NoFile
  Inode = {i1, i2, i3}
  Writer = {w1}
SPECIFICATION Spec
INVARIANTS TypeOK NeverTorn
PROPERTY ImplementsRegister
