SPECIFICATION Spec
CONSTANTS
  aa = aa
  oo = oo
  pp = pp
  cc = cc
  Nbr <- MCNbr
  Own <- MCOwn
  Dst = {pp, cc}
  Connected <- MCConnected
  V6 <- MCV6
  Macs = {m1, m2}
  Failed = Failed
  NhMax = 2
  EgrMax = 5
  GroupMax = 1
  Turns = 2
  QueueMax = 2
  Replaces = TRUE
  MaxChanges = 2
INVARIANT TrueMirror
