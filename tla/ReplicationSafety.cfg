\* Two addresses with their home at s1, batches of up to two, three writes.
SPECIFICATION RefinementSpec
CONSTANTS
  s1 = s1  s2 = s2  a1 = a1  a2 = a2  a3 = a3  m1 = m1  m2 = m2
  Server = {s1, s2}
  Address = {a1, a2}
  Mxid = {m1, m2}
  NoMxid = NoMxid
  BindsAt <- AllAtS1
  Limit = 2
  LateLinks = {}
  MaxRowId = 3
INVARIANTS TypeOK Acknowledged
PROPERTIES LocalPushCatchesUp PeersConverge ImplementsDirectory
