CONSTANTS
  High = {h1, h2}
  Low = {l1, l2}
  Interruptible = {h1}
SPECIFICATION Spec
PROPERTIES KeepsContract NoLostWakeup HighProgress
