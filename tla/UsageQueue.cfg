SPECIFICATION QueueFairSpec
CONSTANTS
  Requests = {r1, r2, r3}
  Capacity = 1
  Retries = 3
  NoEvent = NoEvent
CHECK_DEADLOCK FALSE
INVARIANT QueueTypeOK
INVARIANT EveryEventCounted
PROPERTY EventsSettled
PROPERTY ShutdownCompletes
