SPECIFICATION EpdSpec
CONSTANTS
  v1 = v1  v2 = v2
  a = a  b = b  c = c  d = d
  r1 = r1  r2 = r2  r3 = r3
  Worker = {w}
  Encoder = {v1, v2}
  Hash = {a, b, c, d}
  Oversized = {c}
  Slots = 2
  MaxDeaths = 1
  Inline = Inline
  Request = {r1, r2, r3}
  Messages <- MCMessages
  VeOf <- MCVeOf
INVARIANTS StagingTypeOK AwaitedStaysReadable HeldForAReason DrivenWithEncoded
PROPERTIES NoWorkForEnded EveryRequestAnswered
CHECK_DEADLOCK FALSE
