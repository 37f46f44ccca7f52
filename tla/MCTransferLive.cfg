SPECIFICATION FreshSpec
CONSTANTS
  None = None
  Owners = {o1}
  Callbacks = {c1}
  FullAmount = 1
  MaxFaults = 2
PROPERTIES
  InterruptedResolves
  DeliveredIsReported
