SPECIFICATION Spec
CONSTANTS
  MaxBars = 1
  MinFlip = 2
  CrossCooldown = 1
  Cooldown = 3
  Observe = 2
PROPERTY RefusedFlipsHold
