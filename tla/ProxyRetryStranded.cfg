SPECIFICATION Spec
CONSTANT MaxRequests = 1
CHECK_DEADLOCK FALSE
PROPERTIES RetriesEnd
