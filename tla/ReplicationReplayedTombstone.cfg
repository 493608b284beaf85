\* A tombstone, a replicated bind of the same address, a bind of another.
SPECIFICATION Spec
CONSTANTS
  s1 = s1  s2 = s2  a1 = a1  a2 = a2  a3 = a3  m1 = m1  m2 = m2
  Server = {s1, s2}
  Address = {a1, a2}
  Mxid = {m1, m2}
  NoMxid = NoMxid
  BindsAt <- Anywhere
  Limit = 2
  LateLinks = {}
  MaxRowId = 3
PROPERTIES BindLeavesOthersAlone
