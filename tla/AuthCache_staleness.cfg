\* Three overlapping requests, with answers up to two units late.
SPECIFICATION Spec
CONSTANTS
  h1 = h1  h2 = h2  h3 = h3
  Handlers = {h1, h2, h3}
  TTL = 3
  Delay = 2
  MaxTime = 9
SYMMETRY Symmetry
INVARIANTS TypeOK RevokedKeyExpires IssuedKeyWorks
