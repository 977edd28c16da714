SPECIFICATION Spec
CONSTANTS
  Blank = {" ", "TAB"}
  Dashes = {"-", "EN DASH"}
  Alphabet = {" ", "TAB", "-", "EN DASH", "/", "0", "1", "9", "a"}
  MaxLength = 5
  MaxOffset = 3
INVARIANTS NormalizesEverySegment NormalizesOnce KeepsSegments ShiftsLastSegment
CHECK_DEADLOCK FALSE
