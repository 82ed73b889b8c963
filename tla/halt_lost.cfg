SPECIFICATION Spec
CONSTANTS
  Operators = {o1}
  Universe = 2
  MaxOutages = 1
  MaxRestarts = 1
  MaxMisses = 0
PROPERTY HaltPersists
