SPECIFICATION Spec
CONSTANTS
  Core = {0, 1}
  Modes = {"nearest_even", "to_zero"}
  MaxOut = 2
INVARIANTS
  OwnInstruction
