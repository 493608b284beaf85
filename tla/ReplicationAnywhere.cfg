\* Both Sydents bind and unbind the same address, three times together, and
\* requests of s1 may be processed after s1 gave up on them.
SPECIFICATION Spec
CONSTANTS
  s1 = s1  s2 = s2  a1 = a1  a2 = a2  a3 = a3  m1 = m1  m2 = m2
  Server = {s1, s2}
  Address = {a1}
  Mxid = {m1, m2}
  NoMxid = NoMxid
  BindsAt <- Anywhere
  Limit = 1
  LateLinks <- FromS1
  MaxRowId = 2
SYMMETRY MxidSymmetry
CONSTRAINT ThreeWrites
INVARIANT SameKeySameRow
PROPERTY BindingVisibleAtOnce
