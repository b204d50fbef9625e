\* Two requests of one page find the access token expired together.
CONSTANTS
  Pairs = {p1, p2, p3}
  Calls = {c1, c2}
  None = None
SPECIFICATION MCSpec
INVARIANT RefreshIsTransparent
SYMMETRY Symmetry
