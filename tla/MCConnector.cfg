SPECIFICATION FairSpec
CONSTANTS
  Pushers = {s1, s2, s3}
  Closers = {reader, pump}
  Messages = {m1, m2}
  OutBufSize = 2
  Nobody = Nobody
INVARIANTS TypeOK NoPanic
PROPERTIES ImplementsDropQueue CallsReturn
