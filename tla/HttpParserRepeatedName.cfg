SPECIFICATION Spec
CONSTANTS
  Line = {l1}
  Name = {n1, n2}
  Value = {v1, Empty}
  Body = {b1, Empty}
  Empty = Empty
  MaxHeaders = 2
  MaxMessages = 2
CHECK_DEADLOCK FALSE
PROPERTY BuffersClear
