\* The queue of an order under load that never ends, with uploads among it.
CONSTANTS
  a = a
  b = b
  c = c
  d = d
  e = e
  order1 = order1
  order2 = order2
  Callers <- MCCallers
  Keys = {order1, order2}
  keyOf <- MCKeyOf
  maxWaiting = 2
  Uploads = {a, b, e}
  slotLimit = 2
  MaxLost = 1
SPECIFICATION AdmissionSpec
INVARIANTS
  OneAtATime
  SlotsAccounted
PROPERTIES
  EveryWaitEnds
