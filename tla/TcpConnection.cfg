SPECIFICATION Spec
CONSTANTS
  OfClient = {TRUE, FALSE}
  SockCap = 1
  MaxWrite = 3
INVARIANTS NoUseAfterFree AssertionsHold InterestsExact
PROPERTIES ImplementsLife Released
