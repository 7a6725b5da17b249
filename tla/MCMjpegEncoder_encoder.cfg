SPECIFICATION Spec
CONSTANTS
  Threads = {e1, e2, e3}
  Cookies = {b1, b2}
  MaxFrames = 4
INVARIANTS
  NothingLost
  DeliveredInOrder
PROPERTIES
  OrderSpec
  DestructorReturns
