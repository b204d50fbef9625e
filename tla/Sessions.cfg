\* A login and two replacements of its pair, two calls in flight; and one user at
\* the console with one row of any kind.
CONSTANTS
  Pairs = {p1, p2, p3}
  Calls = {c1, c2}
  None = None
SPECIFICATION MCSpec
INVARIANTS TypeOK StaysSignedIn OnlyStoredTokenLives ReplacedAtMostOnce
  PagesOpen RefusalsAreKnown OutdatedClicksAreHarmless
SYMMETRY Symmetry
