SPECIFICATION EpdSpec
CONSTANTS
  v1 = v1  v2 = v2
  a = a  b = b  c = c  d = d
  r1 = r1  r2 = r2  r3 = r3
  Worker = {w}
  Encoder = {v1, v2}
  Hash = {a, b, d}
  Oversized = {}
  Slots = 2
  MaxDeaths = 0
  Inline = Inline
  Request = {r1, r2, r3}
  Messages <- MCDistinct
  VeOf <- MCVeOf
PROPERTIES FallbackOnlyWhenInFlight
CHECK_DEADLOCK FALSE
