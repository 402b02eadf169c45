SPECIFICATION ClientsSpec
CONSTANTS
  k1 = k1  ch = ch  lt = lt
  c1 = c1  c2 = c2  c3 = c3
  None = None
  PubKeys = {k1}
  Clients = {ch, lt}
  Churners = {ch}
  Conns = {c1, c2, c3}
  KeyOf <- MCKeyOf
  Casts <- AloneCasts
INVARIANT OnlineIsReachable
\* main returns
CHECK_DEADLOCK FALSE
