SPECIFICATION Spec
CONSTANTS
  Token = {t1, t2}
  NoToken = NoToken
  Link = {l1}
  Request = {r1, r2}
  MaxVersion = 3
SYMMETRY Symmetry
INVARIANTS
  LiveTokensAreCurrent
  AccessIsBacked
