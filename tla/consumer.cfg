SPECIFICATION ConsumerSpec
CONSTANTS
  NoEvent = NoEvent
  Subs = {s1}
  ConsumerEvents = {e1}
  Msgs = {m1, m2}
  EventOf <- OneDirect
  Bad = {}
  Tasks = {t1, t2}
  MaxRedeliver = 2
  MaxConsumerFaults = 2
INVARIANTS ConsumerSound
PROPERTIES CopiesSettled
CHECK_DEADLOCK FALSE
