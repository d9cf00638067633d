SPECIFICATION Spec
CONSTANTS
  Token = {t1, t2, t3}
  NoToken = NoToken
  Link = {}
  Request = {r1, r2}
  MaxVersion = 2
SYMMETRY Symmetry
INVARIANTS
  OneLiveToken
PROPERTIES
  ImplementsDeviceSessions
