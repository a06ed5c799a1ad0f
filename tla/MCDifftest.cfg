SPECIFICATION QSpec
CONSTANTS
  End = 6
  GroupLen = 3
  RegsHook = {TRUE, FALSE}
  Img = 5
  Mtu = 2
  MaxSpoiled = 2
INVARIANTS
  InStepWithQemu
  MistakesShowWithQemu
  NoMistakePasses
PROPERTIES
  CallsAreAtomic
  CallsReturn
\* the program ends, or NEMU aborts
CHECK_DEADLOCK FALSE
