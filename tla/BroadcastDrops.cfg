SPECIFICATION PolledSpec
CONSTANTS
  Producers = {hub}
  Sessions = {s1}
  Responsive = {s1}
  MaxSends <- ThreeEach
  QueueSize = 1
PROPERTY DropsMonotonic
CHECK_DEADLOCK FALSE
