CONSTANTS
  Creature = {c1}
  Thing = {d1}
  None = None
  Wrap = 4
  Cooldowns <- MCCooldowns
  Delays = {0, 1}
  MaxTick = 2
  MaxGeneration = 3
  MaxPending = 3
SPECIFICATION Spec
INVARIANTS TypeOK ChainExact
PROPERTIES ProcessReturns
