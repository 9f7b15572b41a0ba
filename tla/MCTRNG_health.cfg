CONSTANTS
  low = low
  a = a
  b = b
  Block <- Blocks
  Low <- LowBlock
  MaxLen = 2
  Units = 3
  Guarantee = 2
  Retries = 3
  MaxFail = 2
  MaxDups = 2
  Window = 3
SPECIFICATION Spec
PROPERTIES HealthyNoise
