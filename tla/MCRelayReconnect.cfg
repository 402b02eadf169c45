SPECIFICATION RelaySpec
CONSTANTS
  k1 = k1  k2 = k2  k3 = k3
  conA = conA  conB = conB  conC = conC
  None = None
  PubKeys = {k1, k2}
  Conns = {conA, conB, conC}
  KeyOf <- ReconnectKeyOf
  Frames <- ReconnectFrames
  OutBufSize = 1
  MaxMsgs = 2
INVARIANTS RelayTypeOK RefsExact OncePerKey OnlyToRecipients NothingStranded
PROPERTY NeverRevived
SYMMETRY ReconnectSymmetry
\* in the end every connection may have left
CHECK_DEADLOCK FALSE
