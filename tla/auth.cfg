CONSTANTS
  Nothing = Nothing
  Conns = {c1, c2}
  Tokens = {t1, t2, t3}
  Threshold = 2
  Ops = {"login", "mistype", "refresh", "logout", "reset", "decide", "grant", "upgrade"}
  MaxStarts = 4
  MaxAborts = 1
SPECIFICATION AuthSpec
INVARIANTS
  SessionsSound
PROPERTIES
  RightsSettle
CHECK_DEADLOCK FALSE
