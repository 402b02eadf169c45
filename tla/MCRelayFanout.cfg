SPECIFICATION RelaySpec
CONSTANTS
  k1 = k1  k2 = k2  k3 = k3
  conA = conA  conB = conB  conC = conC
  None = None
  PubKeys = {k1, k2, k3}
  Conns = {conA, conB, conC}
  KeyOf <- FanoutKeyOf
  Frames <- FanoutFrames
  OutBufSize = 1
  MaxMsgs = 1
INVARIANT CountersAddUp
PROPERTY ImplementsMulticast
\* in the end every connection may have left
CHECK_DEADLOCK FALSE
