CONSTANTS
  None = None
  TooBig = TooBig
  Conns = {c1, c2}
  Hashes = {h1}
  Rows = {r1, r2}
  Uploads = {u1}
  Failing = {"archive", "backup", "cleanup"}
  MaxFails = 1
  MaxStarts = 4
SPECIFICATION FairSpec
INVARIANTS
  LibrarySound
PROPERTY SessionsSwept
CHECK_DEADLOCK FALSE
